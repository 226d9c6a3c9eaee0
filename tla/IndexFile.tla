------------------------------ MODULE IndexFile ------------------------------
(***************************************************************************)
(* Index::save and Index::load (include/hnsw.hpp), the file between them,  *)
(* and the writers that save must not meet.                                *)
(*                                                                         *)
(* The file is the sequence of fields Order; a field holds what the index  *)
(* had at the moment the field was written.  A file may end after any      *)
(* field: the process dies during save, or the stream's last buffer is     *)
(* lost when the destructor flushes it, after save looked at the stream    *)
(* for the last time.                                                      *)
(*                                                                         *)
(* addPoint is three steps (HnswInsert has the others): the counter, the   *)
(* slot's own arrays, the links.  Index.mu of the durable layer, shared    *)
(* for a writer and exclusive for save, keeps the two apart.               *)
(***************************************************************************)
EXTENDS Integers, Sequences, FiniteSets

CONSTANTS
  MaxElements,  \* maxElements_
  Labels        \* labels_; a label stands for its vector as well

NoId == -1
Blank == "blank"   \* what an array holds where nothing was written
Ids == 0 .. (MaxElements - 1)

ASSUME IndexFileAssumption == MaxElements \in Nat \ {0} /\ Blank \notin Labels

\* The counters come before the arrays they measure.
Order == <<"magic", "version", "params", "cnt", "ndel", "top",
           "data", "labels", "deleted", "links">>
Counted == 4   \* the number of fields up to "cnt", which size the arrays
Header  == 6   \* the number of fields before the arrays

EmptyIndex ==
  [cnt |-> 0, ndel |-> 0, top |-> NoId,
   data |-> [i \in Ids |-> Blank], labels |-> [i \in Ids |-> Blank],
   deleted |-> {}, links |-> [i \in Ids |-> {}]]

\* A file that does not exist, and one of an earlier version.
NoFile  == [len |-> -1, version |-> 0, img |-> EmptyIndex]
OldFile == [len |-> Len(Order), version |-> 1, img |-> EmptyIndex]

VARIABLES
  idx,     \* the index in memory: count_, numDeleted_, entryPoint_, arrays
  byLabel, \* labelToId_
  adding,  \* the writer: between two steps of addPoint
  mu,      \* Index.mu: free, shared by the writer, or exclusive for save
  hdr,     \* locals of save: the counters as it first read them
  file,    \* the file: its length in fields, version and contents
  proc,    \* the process: down, up, or saving
  last,    \* how the last load ended
  (* history *)
  saved    \* the index when the last save began

vars == <<idx, byLabel, adding, mu, hdr, file, proc, last, saved>>

Indexes ==
  [cnt : 0..MaxElements, ndel : Nat, top : Ids \cup {NoId},
   data : [Ids -> Labels \cup {Blank}], labels : [Ids -> Labels \cup {Blank}],
   deleted : SUBSET Ids, links : [Ids -> SUBSET Ids]]

TypeOK ==
  /\ idx \in Indexes /\ saved \in Indexes
  /\ byLabel \in [Labels -> Ids \cup {NoId}]
  /\ adding \in {"none", "reserved", "written"}
  /\ mu \in {"free", "shared", "exclusive"}
  /\ hdr \in [cnt : 0..MaxElements, ndel : Nat, top : Ids \cup {NoId}]
  /\ file \in [len : -1 .. Len(Order), version : 0..2, img : Indexes]
  /\ proc \in {"down", "up", "saving"}
  /\ last \in {"none", "loaded", "refused", "undefined"}

Init ==
  /\ idx = EmptyIndex /\ saved = EmptyIndex
  /\ byLabel = [lab \in Labels |-> NoId]
  /\ adding = "none" /\ mu = "free"
  /\ hdr = [cnt |-> 0, ndel |-> 0, top |-> NoId]
  /\ file \in {NoFile, OldFile}
  /\ proc = "down" /\ last = "none"

-----------------------------------------------------------------------------
(* Writers, under the shared lock.                                         *)

\* Mutant of AddReserve: the counter is not compared with the capacity.
AddReserveBeyond ==
  /\ proc = "up" /\ adding = "none" /\ mu = "free"
  /\ idx' = [idx EXCEPT !.cnt = @ + 1]
  /\ adding' = "reserved" /\ mu' = "shared"
  /\ UNCHANGED <<byLabel, hdr, file, proc, last, saved>>

\* count_ is bumped; the slot is not written yet.
AddReserve ==
  /\ proc = "up" /\ adding = "none" /\ mu = "free"
  /\ idx.cnt < MaxElements
  /\ idx' = [idx EXCEPT !.cnt = @ + 1]
  /\ adding' = "reserved" /\ mu' = "shared"
  /\ UNCHANGED <<byLabel, hdr, file, proc, last, saved>>

NewId == idx.cnt - 1

AddWrite(lab) ==
  /\ adding = "reserved" /\ byLabel[lab] = NoId
  /\ idx' = [idx EXCEPT !.data[NewId] = lab, !.labels[NewId] = lab, !.deleted = @ \ {NewId}]
  /\ byLabel' = [byLabel EXCEPT ![lab] = NewId]
  /\ adding' = "written"
  /\ UNCHANGED <<mu, hdr, file, proc, last, saved>>

\* The node is linked with some of the nodes there are, in both directions,
\* and may become the entry point.
AddLink(S, enters) ==
  /\ adding = "written"
  /\ S \subseteq 0 .. (NewId - 1) /\ (S = {} <=> NewId = 0) /\ (S = {} => enters)
  /\ idx' = [idx EXCEPT !.links = [i \in Ids |-> IF i = NewId THEN S
                                                 ELSE IF i \in S THEN @[i] \cup {NewId} ELSE @[i]],
                        !.top   = IF enters THEN NewId ELSE @]
  /\ adding' = "none" /\ mu' = "free"
  /\ UNCHANGED <<byLabel, hdr, file, proc, last, saved>>

\* markDeleted and unmarkDeleted.
ToggleDeleted(i) ==
  /\ proc = "up" /\ mu = "free"
  /\ i < idx.cnt
  /\ idx' = IF i \in idx.deleted
            THEN [idx EXCEPT !.deleted = @ \ {i}, !.ndel = @ - 1]
            ELSE [idx EXCEPT !.deleted = @ \cup {i}, !.ndel = @ + 1]
  /\ UNCHANGED <<byLabel, adding, mu, hdr, file, proc, last, saved>>

-----------------------------------------------------------------------------
(* save.                                                                   *)

\* Mutant of SaveOpen: writers go on, as in snapshot_race.cpp.
SaveOpenShared ==
  /\ proc = "up"
  /\ hdr' = [cnt |-> idx.cnt, ndel |-> idx.ndel, top |-> idx.top]
  /\ file' = [file EXCEPT !.len = 0, !.version = 2]
  /\ saved' = idx
  /\ proc' = "saving"
  /\ UNCHANGED <<idx, byLabel, adding, mu, last>>

\* The file is truncated and the counters are read.
SaveOpen ==
  /\ proc = "up" /\ mu = "free"
  /\ mu' = "exclusive"
  /\ hdr' = [cnt |-> idx.cnt, ndel |-> idx.ndel, top |-> idx.top]
  /\ file' = [file EXCEPT !.len = 0, !.version = 2]
  /\ saved' = idx
  /\ proc' = "saving"
  /\ UNCHANGED <<idx, byLabel, adding, last>>

\* The first hdr.cnt elements of an array, with b for the rest.
Saved(array, b) == [i \in Ids |-> IF i < hdr.cnt THEN array[i] ELSE b]

\* One field: counters as they were read, arrays as they are now.
Written(img, field) ==
  CASE field = "cnt"     -> [img EXCEPT !.cnt = hdr.cnt]
    [] field = "ndel"    -> [img EXCEPT !.ndel = hdr.ndel]
    [] field = "top"     -> [img EXCEPT !.top = hdr.top]
    [] field = "data"    -> [img EXCEPT !.data = Saved(idx.data, Blank)]
    [] field = "labels"  -> [img EXCEPT !.labels = Saved(idx.labels, Blank)]
    [] field = "deleted" -> [img EXCEPT !.deleted = {i \in idx.deleted : i < hdr.cnt}]
    [] field = "links"   -> [img EXCEPT !.links = Saved(idx.links, {})]
    [] OTHER             -> img

SaveField ==
  /\ proc = "saving" /\ file.len < Len(Order)
  /\ file' = [file EXCEPT !.len = @ + 1, !.img = Written(@, Order[file.len + 1])]
  /\ UNCHANGED <<idx, byLabel, adding, mu, hdr, proc, last, saved>>

\* A write fails: save throws, hnsw_save reports it, a part is on disk.
SaveFails(n) ==
  /\ proc = "saving" /\ n <= file.len
  /\ file' = [file EXCEPT !.len = n]
  /\ proc' = "up" /\ mu' = "free"
  /\ UNCHANGED <<idx, byLabel, adding, hdr, last, saved>>

\* save returns; its stream is flushed and closed after the last check, so
\* the end of the file may be missing without anybody being told.
SaveReturns(n) ==
  /\ proc = "saving" /\ file.len = Len(Order) /\ n \in 0 .. Len(Order)
  /\ file' = [file EXCEPT !.len = n]
  /\ proc' = "up" /\ mu' = "free"
  /\ UNCHANGED <<idx, byLabel, adding, hdr, last, saved>>

-----------------------------------------------------------------------------
(* The process dies, and starts again from the file.                       *)

Crash(n) ==
  /\ proc # "down"
  /\ IF proc = "saving" THEN n \in 0 .. file.len ELSE n = file.len
  /\ file' = [file EXCEPT !.len = n]
  /\ idx' = EmptyIndex /\ byLabel' = [lab \in Labels |-> NoId]
  /\ adding' = "none" /\ mu' = "free" /\ proc' = "down"
  /\ UNCHANGED <<hdr, last, saved>>

\* Without a file, hnsw_new makes an empty index.
StartEmpty ==
  /\ proc = "down" /\ file.len = -1
  /\ idx' = EmptyIndex /\ byLabel' = [lab \in Labels |-> NoId]
  /\ proc' = "up" /\ last' = "none"
  /\ UNCHANGED <<adding, mu, hdr, file, saved>>

\* Nothing is missing: of an empty index, the arrays have no bytes.
Whole == file.len = Len(Order) \/ (file.len >= Header /\ file.img.cnt = 0)

\* Mutant of Outcomes: the stream is not looked at after the last field.
OutcomesUnchecked ==
  CASE file.len < 2                            -> {"refused", "undefined"}
    [] file.len >= 2 /\ file.version # 2       -> {"refused"}
    [] file.version = 2 /\ file.len \in 2 .. (Counted - 1) -> {"refused", "undefined"}
    [] file.version = 2 /\ file.len >= Counted -> {"loaded"}

\* How load may end.  A read past the end of the file leaves its variable
\* as it was, and magic, version, the parameters and cnt are used before
\* the stream is checked, as is the length n of the upper links of each
\* node: what happens then is undefined.  Otherwise everything that is
\* missing is found out in the end.
Outcomes ==
  CASE file.len < 2                            -> {"refused", "undefined"}
    [] file.len >= 2 /\ file.version # 2       -> {"refused"}
    [] file.version = 2 /\ file.len \in 2 .. (Counted - 1) -> {"refused", "undefined"}
    [] file.version = 2 /\ file.len >= Counted /\ Whole     -> {"loaded"}
    [] file.version = 2 /\ file.len >= Counted /\ ~ Whole   ->
         {"refused"} \cup {o \in {"undefined"} : file.img.cnt > 0}

\* The fields that are there; the others keep what the constructor set.
Read(field, value, default) ==
  IF \E j \in 1 .. file.len : Order[j] = field THEN value ELSE default

LoadedIndex ==
  [cnt     |-> file.img.cnt,
   ndel    |-> Read("ndel", file.img.ndel, 0),
   top     |-> Read("top", file.img.top, NoId),
   data    |-> Read("data", file.img.data, EmptyIndex.data),
   labels  |-> Read("labels", file.img.labels, EmptyIndex.labels),
   deleted |-> Read("deleted", file.img.deleted, {}),
   links   |-> Read("links", file.img.links, EmptyIndex.links)]

\* labelToId_ is not in the file: of several slots the last one counts.
Lookup(x) ==
  [lab \in Labels |->
     IF \E i \in Ids : i < x.cnt /\ x.labels[i] = lab
     THEN CHOOSE i \in Ids : /\ i < x.cnt /\ x.labels[i] = lab
                             /\ \A j \in Ids : j > i /\ j < x.cnt => x.labels[j] # lab
     ELSE NoId]

Load(outcome) ==
  /\ proc = "down" /\ file.len >= 0
  /\ outcome \in Outcomes
  /\ last' = outcome
  /\ IF outcome = "loaded"
     THEN idx' = LoadedIndex /\ byLabel' = Lookup(LoadedIndex) /\ proc' = "up"
     ELSE UNCHANGED <<idx, byLabel, proc>>
  /\ UNCHANGED <<adding, mu, hdr, file, saved>>

-----------------------------------------------------------------------------
Next ==
  \/ AddReserve \/ \E lab \in Labels : AddWrite(lab)
  \/ \E S \in SUBSET Ids, enters \in BOOLEAN : AddLink(S, enters)
  \/ \E i \in Ids : ToggleDeleted(i)
  \/ SaveOpen \/ SaveField
  \/ \E n \in 0 .. Len(Order) : SaveFails(n) \/ SaveReturns(n)
  \/ \E n \in -1 .. Len(Order) : Crash(n)
  \/ StartEmpty \/ \E o \in {"loaded", "refused", "undefined"} : Load(o)

Spec == Init /\ [][Next]_vars

-----------------------------------------------------------------------------
(* Properties.                                                             *)

(* What load returns is the index as it was when save began, whatever      *)
(* happened to the process, the stream and the writers in between: not a   *)
(* mixture of two moments and not a part of it.                            *)
LoadedIsSaved ==
  [][proc = "down" /\ proc' = "up" /\ last' = "loaded" => idx' = saved]_vars

(* Whenever no insert is under way the index hangs together, also after    *)
(* any number of saves, crashes and loads: links and entry point stay      *)
(* below the counter (an id at or above it will be given to the next       *)
(* insert), every slot has its vector and its label and is found by it,    *)
(* and numDeleted_ counts the marks.                                       *)
IndexSound ==
  proc # "down" /\ adding = "none" =>
    /\ \A i \in Ids : \A j \in idx.links[i] : i < idx.cnt /\ j < idx.cnt
    /\ idx.top < idx.cnt /\ (idx.cnt > 0 => idx.top # NoId)
    /\ \A i \in Ids : i < idx.cnt => idx.labels[i] \in Labels /\ idx.data[i] = idx.labels[i]
    /\ \A lab \in Labels : \A i \in Ids : byLabel[lab] = i <=> (i < idx.cnt /\ idx.labels[i] = lab)
    /\ idx.ndel = Cardinality(idx.deleted)
=============================================================================
