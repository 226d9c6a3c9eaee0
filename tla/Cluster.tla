------------------------------ MODULE Cluster ------------------------------
(***************************************************************************)
(* The coordinator (go/coordinator) in front of its shards (go/shard).     *)
(*                                                                         *)
(* A shard is its index as concurrent requests find it: slots that are     *)
(* filled once and never reused, and an Insert that looks the key up in    *)
(* one critical section and publishes it in a later one, so that two       *)
(* Inserts of one key may both get a slot (HnswInsert has the steps in     *)
(* between).  A shard does not come back after a crash: what a restart     *)
(* brings back is the subject of Durable, and a shard that is down shows   *)
(* as calls that fail.  A call may fail at any moment, before or after the *)
(* shard has served it, and one the caller gave up may still be served.    *)
(* Nothing obliges a shard to answer.                                      *)
(*                                                                         *)
(* The coordinator keeps no state between calls.  Searches share nothing,  *)
(* so one search at a time stands for all; writers run beside it.          *)
(*                                                                         *)
(* A vector is its distance from the query.  A shard's local search is     *)
(* taken to be exact: the recall of HNSW is not the business of this       *)
(* module.                                                                 *)
(***************************************************************************)
EXTENDS KeyTable, Sequences

CONSTANTS
  NumShards,  \* Router.numShards
  HashKey,    \* HashKey[k]: the FNV-1a hash of the key
  Restored,   \* Restored[s]: the slots of shard s that its Open brings back
  Requests,   \* what writers send: inserts and deletes
  Writers,    \* clients that write
  Ks,         \* the k a client asks for
  MaxLate     \* bound: calls that were given up and may still be served

Shards == 0 .. (NumShards - 1)

\* labels_, the vector and deleted_ of one slot.
Slot == [key : Keys, vec : Vecs, deleted : BOOLEAN]

ASSUME ClusterAssumption ==
  /\ NumShards \in Nat \ {0}
  /\ HashKey \in [Keys -> Nat]
  /\ Restored \in [Shards -> Seq(Slot)] /\ \A s \in Shards : Len(Restored[s]) <= Capacity
  /\ Requests \subseteq {r \in Record : r.op # "undel"}
  /\ Vecs \subseteq Nat
  /\ Ks \subseteq Nat \ {0}
  /\ MaxLate \in Nat

VARIABLES
  slots,    \* slots[s]: the slots of shard s's index filled so far
  wr,       \* wr[w]: the call of writer w in progress
  late,     \* calls whose caller is gone and that may still be served (a
            \* set: of two equal ones at one stage only one is kept)
  (* coordinator.Search *)
  phase,    \* no search, shards being asked, search answered
  ask,      \* its k and allow_partial
  rpc,      \* rpc[s]: where the call to shard s is
  reply,    \* reply[s]: what shard s answered
  all,      \* the candidates collected so far
  failed,   \* the shards counted as failed
  err,      \* the first error, kept by the errgroup
  expired,  \* the caller's deadline has passed
  answer,   \* what the client gets
  (* history *)
  must,     \* the live slots that have been there since the search began
  acked,    \* the inserts a client was told OK
  sure,     \* those of them from before the search began
  gone      \* the keys of which a client ever asked the deletion

shardVars  == <<slots, must>>
writeVars  == <<wr, late, acked, gone>>
searchVars == <<phase, ask, rpc, reply, all, failed, err, expired, answer,
                sure>>
vars == <<slots, wr, late, phase, ask, rpc, reply, all, failed, err, expired, answer,
          must, acked, sure, gone>>

NoCall == [st |-> "idle"]
NoAsk  == [k |-> 0, partial |-> FALSE]
NoAnswer == [code |-> "none", results |-> {}, failed |-> 0]

\* One element of the list of candidates; the slot tells apart two elements
\* with the same key and distance.
Candidates == [key : Keys, dist : Nat, shard : Shards, slot : Nat]
SearchErrors == {"unavailable", "canceled", "deadline"}

\* Mutant of Status: a duplicate falls through to the default.
StatusDefault(code) ==
  CASE code = "ok"        -> "OK"
    [] code = "notfound"  -> "NOT_FOUND"
    [] code = "full"      -> "RESOURCE_EXHAUSTED"
    [] OTHER              -> "INTERNAL"

\* Mutant of Status: an insert of a stored key is taken as done.
StatusIdempotent(code) ==
  CASE code \in {"ok", "duplicate"} -> "OK"
    [] code = "notfound"  -> "NOT_FOUND"
    [] code = "full"      -> "RESOURCE_EXHAUSTED"

\* toStatus.
Status(code) ==
  CASE code = "ok"        -> "OK"
    [] code = "duplicate" -> "ALREADY_EXISTS"
    [] code = "notfound"  -> "NOT_FOUND"
    [] code = "full"      -> "RESOURCE_EXHAUSTED"
Statuses == {"OK", "ALREADY_EXISTS", "NOT_FOUND", "RESOURCE_EXHAUSTED"}

\* A call on its way: sent to the shard, or an Insert that has found its
\* key absent and has not stored it yet.
Running == [st : {"sent"}, req : Requests]
             \cup [st : {"checked"}, req : {r \in Requests : r.op = "add"}]
Calls == {NoCall} \cup Running
                  \cup [st : {"answered"}, req : Requests, code : Statuses]

TypeOK ==
  /\ slots \in [Shards -> Seq(Slot)] /\ \A s \in Shards : Len(slots[s]) <= Capacity
  /\ wr \in [Writers -> Calls]
  /\ late \subseteq Running
  /\ phase \in {"idle", "asking", "answered"}
  /\ ask \in [k : Ks \cup {0}, partial : BOOLEAN]
  /\ rpc \in [Shards -> {"sent", "replied", "done", "failed"}]
  /\ reply \in [Shards -> SUBSET Candidates]
  /\ all \subseteq Candidates
  /\ failed \in Nat
  /\ err \in SearchErrors \cup {"none"}
  /\ expired \in BOOLEAN
  /\ answer \in [code : SearchErrors \cup {"OK", "none"},
                 results : SUBSET Candidates, failed : Nat]
  /\ must \subseteq Shards \X Nat
  /\ acked \subseteq Requests /\ sure \subseteq Requests /\ gone \subseteq Keys

ShardFor(k) == HashKey[k] % NumShards

\* The slots of shard s that a search may return.
Live(s) == {i \in DOMAIN slots[s] : ~ slots[s][i].deleted}

Init ==
  /\ slots = Restored
  /\ wr = [w \in Writers |-> NoCall] /\ late = {}
  /\ phase = "idle" /\ ask = NoAsk
  /\ rpc = [s \in Shards |-> "done"] /\ reply = [s \in Shards |-> {}]
  /\ all = {} /\ failed = 0 /\ err = "none" /\ expired = FALSE
  /\ answer = NoAnswer
  /\ must = {} /\ acked = {} /\ sure = {} /\ gone = {}

-----------------------------------------------------------------------------
(* Insert and Delete: validated, routed to one shard, and the shard's      *)
(* status passed through.                                                  *)

WriteCall(w, r) ==
  /\ wr[w] = NoCall
  /\ wr' = [wr EXCEPT ![w] = [st |-> "sent", req |-> r]]
  /\ gone' = IF r.op = "del" THEN gone \cup {r.key} ELSE gone
  /\ UNCHANGED <<shardVars, late, acked, searchVars>>

\* labelToId_: the slot that was stored last under the key.  (Slots count in
\* the order in which they are published.)
Published(s, k, i) ==
  /\ i \in DOMAIN slots[s] /\ slots[s][i].key = k
  /\ \A j \in DOMAIN slots[s] : slots[s][j].key = k => j <= i

Known(s, k) == \E i \in DOMAIN slots[s] : slots[s][i].key = k

(* The shard's handlers run durable.Index.Add and MarkDeleted.  Add: the   *)
(* key is looked up, ...                                                   *)
Duplicate(c) ==
  /\ c.st = "sent" /\ c.req.op = "add" /\ Known(ShardFor(c.req.key), c.req.key)
  /\ UNCHANGED shardVars

Absent(c) ==
  c.st = "sent" /\ c.req.op = "add" /\ ~ Known(ShardFor(c.req.key), c.req.key)

\* ... a slot is taken, unless there is none, filled and published.
Full(c) ==
  /\ c.st = "checked" /\ Len(slots[ShardFor(c.req.key)]) >= Capacity
  /\ UNCHANGED shardVars

Store(c) ==
  LET s == ShardFor(c.req.key) IN
  /\ c.st = "checked" /\ Len(slots[s]) < Capacity
  /\ slots' = [slots EXCEPT ![s] =
                 Append(@, [key |-> c.req.key, vec |-> c.req.vec, deleted |-> FALSE])]
  /\ UNCHANGED must

\* MarkDeleted: the slot published for the key gets its tombstone.
MarkDeleted(c) ==
  LET s == ShardFor(c.req.key) IN
  /\ c.st = "sent" /\ c.req.op = "del"
  /\ \E i \in Live(s) :
       /\ Published(s, c.req.key, i)
       /\ slots' = [slots EXCEPT ![s][i].deleted = TRUE]
       /\ must' = must \ {<<s, i>>}

NotFound(c) ==
  /\ c.st = "sent" /\ c.req.op = "del"
  /\ \A i \in Live(ShardFor(c.req.key)) : ~ Published(ShardFor(c.req.key), c.req.key, i)
  /\ UNCHANGED shardVars

\* The last step of a handler, with the code it ends in.
Served(c, code) ==
  \/ Duplicate(c) /\ code = "duplicate"
  \/ Full(c) /\ code = "full"
  \/ Store(c) /\ code = "ok"
  \/ MarkDeleted(c) /\ code = "ok"
  \/ NotFound(c) /\ code = "notfound"

WriteChecked(w) ==
  /\ wr[w] \in Running /\ Absent(wr[w])
  /\ wr' = [wr EXCEPT ![w].st = "checked"]
  /\ UNCHANGED <<shardVars, late, acked, gone, searchVars>>

WriteServed(w) ==
  /\ wr[w] \in Running
  /\ \E code \in Codes :
       /\ Served(wr[w], code)
       /\ wr' = [wr EXCEPT ![w] = [st |-> "answered", req |-> wr[w].req, code |-> Status(code)]]
  /\ UNCHANGED <<late, acked, gone, searchVars>>

\* The client gets wr[w].code.
WriteReturns(w) ==
  /\ wr[w].st = "answered"
  /\ acked' = IF wr[w].code = "OK" /\ wr[w].req.op = "add" THEN acked \cup {wr[w].req} ELSE acked
  /\ wr' = [wr EXCEPT ![w] = NoCall]
  /\ UNCHANGED <<shardVars, late, gone, searchVars>>

\* The connection breaks or the deadline passes: the client gets an error.
\* Whether the shard has served the request, will, or never does is open.
WriteFails(w) ==
  /\ wr[w] # NoCall
  /\ \/ UNCHANGED late
     \/ /\ wr[w] \in Running /\ Cardinality(late) < MaxLate
        /\ late' = late \cup {wr[w]}
  /\ wr' = [wr EXCEPT ![w] = NoCall]
  /\ UNCHANGED <<shardVars, acked, gone, searchVars>>

\* The shard's write handlers do not look at the context: a request that
\* got through is served although nobody waits for it.
LateChecked(c) ==
  /\ Absent(c)
  /\ late' = (late \ {c}) \cup {[c EXCEPT !.st = "checked"]}
  /\ UNCHANGED <<shardVars, wr, acked, gone, searchVars>>

LateServed(c) ==
  /\ \E code \in Codes : Served(c, code)
  /\ late' = late \ {c}
  /\ UNCHANGED <<wr, acked, gone, searchVars>>

-----------------------------------------------------------------------------
(* Search: every shard is asked for the full k, by a goroutine each.       *)

SearchCall(k, partial) ==
  /\ phase # "asking"
  /\ phase' = "asking" /\ ask' = [k |-> k, partial |-> partial]
  /\ rpc' = [s \in Shards |-> "sent"] /\ reply' = [s \in Shards |-> {}]
  /\ all' = {} /\ failed' = 0 /\ err' = "none" /\ expired' = FALSE
  /\ answer' = NoAnswer
  /\ must' = {m \in Shards \X (1 .. Capacity) : m[2] \in Live(m[1])}
  /\ sure' = acked
  /\ UNCHANGED <<slots, writeVars>>

\* The n nearest of a set of candidates; equal distances leave a choice.
Nearest(n, S) ==
  {T \in SUBSET S :
     /\ Cardinality(T) = IF Cardinality(S) < n THEN Cardinality(S) ELSE n
     /\ \A x \in T, y \in S \ T : x.dist <= y.dist}

\* What a shard's Search chooses from.
Local(s) ==
  {[key |-> slots[s][i].key, dist |-> slots[s][i].vec, shard |-> s, slot |-> i] : i \in Live(s)}

\* Mutant of SearchServed: a shard is asked for its share of k only.
SearchServedShare(s) ==
  /\ phase = "asking" /\ rpc[s] = "sent"
  /\ reply' \in {[reply EXCEPT ![s] = T] : T \in Nearest((ask.k + NumShards - 1) \div NumShards, Local(s))}
  /\ rpc' = [rpc EXCEPT ![s] = "replied"]
  /\ UNCHANGED <<shardVars, writeVars, phase, ask, all, failed, err, expired, answer, sure>>

\* The shard's handler searches its index.
SearchServed(s) ==
  /\ phase = "asking" /\ rpc[s] = "sent"
  /\ reply' \in {[reply EXCEPT ![s] = T] : T \in Nearest(ask.k, Local(s))}
  /\ rpc' = [rpc EXCEPT ![s] = "replied"]
  /\ UNCHANGED <<shardVars, writeVars, phase, ask, all, failed, err, expired, answer, sure>>

\* The goroutine of shard s adds the reply to the candidates under mu.
Collect(s) ==
  /\ phase = "asking" /\ rpc[s] = "replied"
  /\ all' = all \cup reply[s]
  /\ rpc' = [rpc EXCEPT ![s] = "done"]
  /\ UNCHANGED <<shardVars, writeVars, phase, ask, reply, failed, err, expired, answer, sure>>

\* Mutant of GroupCanceled: an error does not cancel the group's context.
GroupNotCanceled == FALSE

\* The errgroup cancels its context with the first error it records.
GroupCanceled == err # "none"

\* How a call to a shard can fail now.
Failures ==
  {"unavailable"} \cup (IF GroupCanceled THEN {"canceled"} ELSE {})
                  \cup (IF expired THEN {"deadline"} ELSE {})

\* Mutant of RecordError: the last error is kept.
RecordLastError(code) == err' = code

\* errgroup.Group.Go: the first error wins.
RecordError(code) == err' = IF err = "none" THEN code ELSE err

\* The call to shard s fails: counted, or an error for the whole search.
CallFails(s) ==
  /\ phase = "asking" /\ rpc[s] \in {"sent", "replied"}
  /\ rpc' = [rpc EXCEPT ![s] = "failed"] /\ reply' = [reply EXCEPT ![s] = {}]
  /\ \E code \in Failures :
       IF ask.partial
       THEN failed' = failed + 1 /\ UNCHANGED err
       ELSE RecordError(code) /\ UNCHANGED failed
  /\ UNCHANGED <<shardVars, writeVars, phase, ask, all, expired, answer, sure>>

\* The caller's deadline passes; its context is the parent of the group's.
\* (A client that cancels instead is not there for the answer.)
Expire ==
  /\ phase = "asking" /\ ~ expired
  /\ expired' = TRUE
  /\ UNCHANGED <<shardVars, writeVars, phase, ask, rpc, reply, all, failed, err, answer, sure>>

\* g.Wait: all goroutines are back.  Sort by distance, keep k.
SearchReturns ==
  /\ phase = "asking" /\ \A s \in Shards : rpc[s] \in {"done", "failed"}
  /\ phase' = "answered"
  /\ IF err # "none"
     THEN answer' = [NoAnswer EXCEPT !.code = err]
     ELSE answer' \in {[code |-> "OK", results |-> T, failed |-> failed] : T \in Nearest(ask.k, all)}
  /\ reply' = [s \in Shards |-> {}] /\ all' = {}
  /\ UNCHANGED <<shardVars, writeVars, ask, rpc, failed, err, expired, sure>>

-----------------------------------------------------------------------------
WriteStep ==
  \/ \E w \in Writers : \/ \E r \in Requests : WriteCall(w, r)
                        \/ WriteChecked(w) \/ WriteServed(w)
                        \/ WriteReturns(w) \/ WriteFails(w)
  \/ \E c \in late : LateChecked(c) \/ LateServed(c)

SearchStep ==
  \/ \E k \in Ks, partial \in BOOLEAN : SearchCall(k, partial)
  \/ \E s \in Shards : SearchServed(s) \/ Collect(s) \/ CallFails(s)
  \/ Expire \/ SearchReturns

Next == WriteStep \/ SearchStep

Spec == Init /\ [][Next]_vars

(* The goroutine of a shard goes on when it has the reply, or when its     *)
(* context is done, because gRPC then returns.  Whether a shard ever       *)
(* answers is left open.                                                   *)
Fairness ==
  /\ \A s \in Shards : WF_vars(Collect(s) \/ (GroupCanceled /\ CallFails(s)))
  /\ WF_vars(SearchReturns)

FairSpec == Spec /\ Fairness

-----------------------------------------------------------------------------
(* Properties.                                                             *)

(* shard.proto: a Key identifies a vector, and inserting it again answers  *)
(* ALREADY_EXISTS.  So no answer names a key twice, although neither the   *)
(* shard nor the merge looks for duplicates.                               *)
NoKeyTwice == \A x, y \in answer.results : x.key = y.key => x = y

(* What a successful search may leave out.  Unless the client allowed it,  *)
(* no shard; if the client did, the shards counted in shards_failed and no *)
(* others.  Of the slots the other shards have held, and not deleted,      *)
(* since before the search began, only those that k better ones displace.  *)
SearchComplete ==
  answer.code = "OK" =>
    /\ answer.failed = Cardinality({s \in Shards : rpc[s] = "failed"})
    /\ ~ ask.partial => answer.failed = 0
    /\ \A m \in must :
         rpc[m[1]] = "done" =>
           \/ \E x \in answer.results : x.shard = m[1] /\ x.slot = m[2]
           \/ /\ Cardinality(answer.results) = ask.k
              /\ \A x \in answer.results : x.dist <= slots[m[1]][m[2]].vec

(* A client finds what it was told is stored.  The vector of an Insert that *)
(* was answered OK before the search began, of whose key nobody ever asked  *)
(* the deletion, is in the answer or displaced by k better ones, unless its *)
(* shard is counted as failed: whatever other clients sent for the key, and *)
(* whatever was retried, served late or lost.                               *)
AckedAreFound ==
  answer.code = "OK" =>
    \A r \in sure :
      r.key \notin gone /\ rpc[ShardFor(r.key)] = "done" =>
        \/ \E x \in answer.results : x.key = r.key /\ x.dist = r.vec
        \/ /\ Cardinality(answer.results) = ask.k
           /\ \A x \in answer.results : x.dist <= r.vec

(* A failed search reports why the first shard failed, never the           *)
(* cancellation of the others that this failure caused, and reports a      *)
(* deadline only when there was one.                                       *)
ErrorIsGenuine ==
  /\ answer.code # "canceled"
  /\ answer.code = "deadline" => expired
  /\ answer.code \in SearchErrors => ~ ask.partial

(* One failing shard ends a search that does not allow partial results,    *)
(* even while another shard never answers.                                 *)
FailsFast == (phase = "asking" /\ err # "none") ~> phase = "answered"
=============================================================================
