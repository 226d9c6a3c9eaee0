----------------------------- MODULE HnswActive -----------------------------
(***************************************************************************)
(* Index::activeSize (include/hnsw.hpp), which Stats and                   *)
(* updateIndexGauges of the shard call beside addPoint, markDeleted and    *)
(* unmarkDeleted.  It is count_.load() - numDeleted_: two reads under no   *)
(* lock, in whichever order the compiler chooses, and a subtraction of     *)
(* size_t, which wraps round.  numDeleted_ is not atomic; a read beside a  *)
(* mark finds the value before or after it.  The reader of HnswQuery makes *)
(* these calls too, between its queries.                                   *)
(***************************************************************************)
EXTENDS HnswQuery

CONSTANT SizeT   \* the values of size_t are 0 .. SizeT - 1

\* count_ is bumped for a moment by inserts that find the index full.
ASSUME HnswActiveAssumption ==
  SizeT \in Nat /\ MaxElements + Cardinality(Threads) < SizeT

Counters == {"count", "numDeleted"}

VARIABLES
  first,    \* the counter a call of activeSize has read, "none" outside of one
  got,      \* the value it found
  (* history *)
  between   \* what has happened since: nothing, something, a deletion

activeVars == <<allVars, first, got, between>>

Value(c) == IF c = "count" THEN count ELSE numDeleted

ActiveInit == QueryInit /\ first = "none" /\ got = 0 /\ between = "nothing"

\* A step of another thread, of the kind given.
Beside(kind) ==
  /\ between' = IF first = "none" \/ between = "mark" THEN between ELSE kind
  /\ UNCHANGED <<first, got>>

InsertBeside(t)   == InsertStep(t) /\ Beside("other")
MarkBeside(lab)   == MarkDeleted(lab) /\ Beside("mark")
UnmarkBeside(lab) == UnmarkDeleted(lab) /\ Beside("other")

\* A step of a query, which the reader makes when it is not at activeSize.
QueryOnly ==
  /\ first = "none" /\ QueryStep
  /\ UNCHANGED <<first, got, between>>

\* The first operand, either one.
ReadFirst(c) ==
  /\ first = "none" /\ qpc = "start"
  /\ first' = c /\ got' = Value(c)
  /\ UNCHANGED <<allVars, between>>

\* Subtraction of size_t.
Minus(c, d) == IF d <= c THEN c - d ELSE SizeT + c - d

\* The values of the operands if the second one is read now, and what
\* activeSize then returns.
Counted    == IF first = "count" THEN got ELSE count
Deleted    == IF first = "count" THEN numDeleted ELSE got
ActiveSize == Minus(Counted, Deleted)

\* The second operand is read and ActiveSize returned.
ReadSecond ==
  /\ first # "none"
  /\ first' = "none" /\ got' = 0 /\ between' = "nothing"
  /\ UNCHANGED allVars

ActiveNext ==
  \/ \E t \in Threads : InsertBeside(t)
  \/ \E lab \in Markable : MarkBeside(lab) \/ UnmarkBeside(lab)
  \/ QueryOnly
  \/ \E c \in Counters : ReadFirst(c)
  \/ ReadSecond

ActiveSpec == ActiveInit /\ [][ActiveNext]_activeVars

-----------------------------------------------------------------------------
(* Properties.                                                             *)

\* The nodes a caller would count: inserted, and not deleted.
Alive == {t \in Threads : pc[t] = "ok" /\ Node(t) \notin deleted}

(* activeSize() wraps round only if count_ is read first and a node is     *)
(* deleted before numDeleted_ is read: otherwise it is no more than the    *)
(* count it read, whatever inserts and undeletes come in between.  And if  *)
(* all inserts have returned and nothing comes in between, it is the       *)
(* number of live nodes.                                                   *)
ActiveSizeRight ==
  first # "none" =>
    /\ first = "numDeleted" \/ between # "mark" => ActiveSize <= Counted
    /\ between = "nothing" /\ (\A t \in Threads : Done(t)) => ActiveSize = Cardinality(Alive)

(* What Stats reports as active_vectors, the vectors without the           *)
(* tombstoned ones, is never more than the vectors there were, tombstoned  *)
(* ones included.                                                          *)
ActiveNeverMore == first # "none" => ActiveSize <= Counted
=============================================================================
