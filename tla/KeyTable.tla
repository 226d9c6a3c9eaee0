------------------------------ MODULE KeyTable ------------------------------
(***************************************************************************)
(* One hnsw::Index as the layers above it see it: a table from keys to the *)
(* stored vector and its tombstone.  These are the outcomes of             *)
(* Index::addPoint, markDeleted and unmarkDeleted (include/hnsw.hpp) after *)
(* the translation of exceptions and booleans to codes by src/hnsw_c.cpp   *)
(* and of codes to Go errors by go/hnsw/hnsw.go.  Each operation is one    *)
(* atomic step here; the steps inside addPoint are the business of         *)
(* HnswInsert.                                                             *)
(*                                                                         *)
(* A key is the whole (clientId, label) pair, compared exactly.            *)
(***************************************************************************)
EXTENDS Naturals, FiniteSets

CONSTANTS
  Keys,      \* the (clientId, label) pairs clients use
  Vecs,      \* the vectors clients store
  NoVec,     \* stands for "no vector": the key is not in the index
  Capacity   \* maxElements_, fixed when the index is created

ASSUME KeyTableAssumption ==
  /\ IsFiniteSet(Keys)
  /\ NoVec \notin Vecs
  /\ Capacity \in Nat \ {0}

AbsentEntry == [vec |-> NoVec, deleted |-> FALSE]
Entry == [vec : Vecs, deleted : BOOLEAN] \cup {AbsentEntry}
Table == [Keys -> Entry]

EmptyTable == [k \in Keys |-> AbsentEntry]

Present(e) == e.vec # NoVec

\* count_: every present key occupies a slot, tombstoned or not.
Count(tab) == Cardinality({k \in Keys : Present(tab[k])})

-----------------------------------------------------------------------------
(* The write requests.  A record of the log carries the same three fields. *)

Adds   == [op : {"add"}, key : Keys, vec : Vecs]
Marks  == [op : {"del", "undel"}, key : Keys, vec : {NoVec}]
Record == Adds \cup Marks

\* Mutant of Code: markDeleted does not ask whether the label is there.
CodeMarksUnknown(tab, r) ==
  LET e == tab[r.key] IN
  CASE r.op = "add"   -> IF Present(e) THEN "duplicate"
                         ELSE IF Count(tab) >= Capacity THEN "full" ELSE "ok"
    [] r.op = "del"   -> IF ~e.deleted THEN "ok" ELSE "notfound"
    [] r.op = "undel" -> IF Present(e) /\ e.deleted  THEN "ok" ELSE "notfound"

\* What the index answers to request r, before it changes anything:
\* addPoint throws on a duplicate before it looks at the capacity, and
\* markDeleted / unmarkDeleted answer "not found" both for an unknown key
\* and for one that already has the wanted tombstone.
Code(tab, r) ==
  LET e == tab[r.key] IN
  CASE r.op = "add"   -> IF Present(e) THEN "duplicate"
                         ELSE IF Count(tab) >= Capacity THEN "full" ELSE "ok"
    [] r.op = "del"   -> IF Present(e) /\ ~e.deleted THEN "ok" ELSE "notfound"
    [] r.op = "undel" -> IF Present(e) /\ e.deleted  THEN "ok" ELSE "notfound"

Codes == {"ok", "duplicate", "full", "notfound"}

\* The entry of r's key once the index has accepted r.
Effect(e, r) ==
  CASE r.op = "add"   -> [vec |-> r.vec, deleted |-> FALSE]
    [] r.op = "del"   -> [e EXCEPT !.deleted = TRUE]
    [] r.op = "undel" -> [e EXCEPT !.deleted = FALSE]

\* The index after request r: changed only when the answer is "ok".
Applied(tab, r) ==
  IF Code(tab, r) = "ok"
  THEN [tab EXCEPT ![r.key] = Effect(@, r)]
  ELSE tab
=============================================================================
