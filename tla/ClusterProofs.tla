--------------------------- MODULE ClusterProofs ---------------------------
(***************************************************************************)
(* Proofs about Cluster, for every number of shards, keys, writers and     *)
(* results asked for.                                                      *)
(***************************************************************************)
EXTENDS Cluster, TLAPS, FiniteSetTheorems, FunctionTheorems, SequenceTheorems

-----------------------------------------------------------------------------
(* Choosing the nearest.                                                   *)

(* How many Nearest keeps.                                                 *)
LEMMA NearestFacts ==
  ASSUME NEW S, IsFiniteSet(S), NEW n \in Nat, NEW T \in Nearest(n, S)
  PROVE  /\ T \subseteq S /\ IsFiniteSet(T)
         /\ Cardinality(S) \in Nat /\ Cardinality(T) \in Nat
         /\ Cardinality(S) < n => T = S
         /\ ~ (Cardinality(S) < n) => Cardinality(T) = n
         /\ \A x \in T, y \in S \ T : x.dist <= y.dist
<1>1. T \in SUBSET S
  BY DEF Nearest
<1>2. IsFiniteSet(T) /\ (Cardinality(S) = Cardinality(T) => S = T)
  BY <1>1, FS_Subset
<1>3. Cardinality(S) \in Nat /\ Cardinality(T) \in Nat
  BY <1>2, FS_CardinalityType
<1> QED
  BY <1>1, <1>2, <1>3 DEF Nearest

(* A candidate that is not kept was displaced by n that are no farther.    *)
LEMMA Displaced ==
  ASSUME NEW S, IsFiniteSet(S), NEW n \in Nat, NEW T \in Nearest(n, S), NEW c \in S
  PROVE  \/ c \in T
         \/ Cardinality(T) = n /\ \A x \in T : x.dist <= c.dist
  BY NearestFacts

(* If n candidates lie within distance d, so do all that are kept.         *)
LEMMA Within ==
  ASSUME NEW S \in SUBSET Candidates, IsFiniteSet(S), NEW n \in Nat, NEW T \in Nearest(n, S),
         NEW d \in Nat, NEW R \in SUBSET S, Cardinality(R) = n, \A x \in R : x.dist <= d
  PROVE  Cardinality(T) = n /\ \A x \in T : x.dist <= d
<1>1. IsFiniteSet(R) /\ Cardinality(R) <= Cardinality(S)
  BY FS_Subset
<1>2. Cardinality(T) = n /\ IsFiniteSet(T)
  BY <1>1, NearestFacts
<1>3. ASSUME NEW x \in T, ~ (x.dist <= d)
      PROVE  FALSE
  <2>1. x \in S /\ x \notin R
    BY <1>3, NearestFacts
  <2>2. \A y \in S : y.dist \in Nat
    BY DEF Candidates
  <2>3. ~ (R \subseteq T)
    <3>1. R \subseteq T => R = T
      BY <1>2, FS_Subset
    <3> QED
      BY <1>3, <2>1, <3>1
  <2>4. PICK y \in R : y \notin T
    BY <2>3
  <2>5. x.dist <= y.dist
    BY <1>3, <2>4, NearestFacts
  <2> QED
    BY <1>3, <2>1, <2>2, <2>4, <2>5
<1> QED
  BY <1>2, <1>3

-----------------------------------------------------------------------------
(* Shards.                                                                 *)

(* The router names a shard.                                               *)
LEMMA ShardForType ==
  ASSUME NEW k \in Keys
  PROVE  ShardFor(k) \in Shards
<1>1. HashKey[k] \in Nat /\ NumShards \in Nat /\ NumShards > 0
  BY ClusterAssumption DEF ClusterAssumption
<1> QED
  BY <1>1 DEF ShardFor, Shards

(* The fields of a request.                                                *)
LEMMA RequestFields ==
  ASSUME NEW r \in Requests
  PROVE  /\ r.op \in {"add", "del"} /\ r.key \in Keys /\ ShardFor(r.key) \in Shards
         /\ r.op = "add" => r.vec \in Vecs
<1>1. r \in Record /\ r.op # "undel"
  BY ClusterAssumption DEF ClusterAssumption
<1>2. r.op \in {"add", "del"} /\ r.key \in Keys /\ (r.op = "add" => r.vec \in Vecs)
  BY <1>1 DEF Record, Adds, Marks
<1> QED
  BY <1>2, ShardForType

\* Slot i of shard s holds vector v under key k.
Holds(s, i, k, v) == i \in DOMAIN slots[s] /\ slots[s][i].key = k /\ slots[s][i].vec = v

(* What the slots are made of.                                             *)
LEMMA SlotFacts ==
  ASSUME TypeOK, NEW s \in Shards
  PROVE  /\ slots[s] \in Seq(Slot) /\ Len(slots[s]) \in Nat /\ Len(slots[s]) <= Capacity
         /\ DOMAIN slots[s] = 1 .. Len(slots[s]) /\ Live(s) \subseteq DOMAIN slots[s]
         /\ \A i \in DOMAIN slots[s] :
              /\ i \in Nat /\ i \in 1 .. Capacity
              /\ slots[s][i] \in Slot /\ slots[s][i].key \in Keys /\ slots[s][i].vec \in Nat
<1>1. slots[s] \in Seq(Slot) /\ Len(slots[s]) \in Nat /\ Len(slots[s]) <= Capacity
  BY DEF TypeOK
<1>2. Capacity \in Nat /\ Vecs \subseteq Nat
  BY KeyTableAssumption, ClusterAssumption DEF KeyTableAssumption, ClusterAssumption
<1>3. DOMAIN slots[s] = 1 .. Len(slots[s])
  BY <1>1
<1>4. \A i \in DOMAIN slots[s] : slots[s][i] \in Slot
  BY <1>1, <1>3
<1>5. \A x \in Slot : x.key \in Keys /\ x.vec \in Nat
  BY <1>2 DEF Slot
<1> QED
  BY <1>1, <1>2, <1>3, <1>4, <1>5 DEF Live

(* A shard's candidates are candidates, and finitely many.                 *)
LEMMA LocalFacts ==
  ASSUME TypeOK, NEW s \in Shards
  PROVE  Local(s) \subseteq Candidates /\ IsFiniteSet(Local(s))
<1> DEFINE f == [i \in Live(s) |-> [key |-> slots[s][i].key, dist |-> slots[s][i].vec,
                                    shard |-> s, slot |-> i]]
<1>1. IsFiniteSet(Live(s))
  <2>1. IsFiniteSet(1 .. Len(slots[s]))
    <3>1. 1 \in Int /\ Len(slots[s]) \in Int
      BY SlotFacts
    <3> QED
      BY <3>1, FS_Interval
  <2> QED
    BY <2>1, SlotFacts, FS_Subset
<1>2. f \in Surjection(Live(s), Local(s))
  BY DEF Surjection, Local
<1>3. IsFiniteSet(Local(s))
  BY <1>1, <1>2, FS_Surjection
<1>4. ASSUME NEW i \in Live(s)
      PROVE  [key |-> slots[s][i].key, dist |-> slots[s][i].vec, shard |-> s, slot |-> i]
               \in Candidates
  BY SlotFacts DEF Candidates
<1> QED
  BY <1>3, <1>4 DEF Local

(* What a handler does to the slots: it fills at most one more, changes no *)
(* key and no vector, and only a delete takes a slot of its key out of     *)
(* sight.                                                                  *)
LEMMA ServedForward ==
  ASSUME TypeOK, NEW c \in Running, NEW code, Served(c, code)
  PROVE  /\ slots' \in [Shards -> Seq(Slot)] /\ \A s \in Shards : Len(slots'[s]) <= Capacity
         /\ must' \subseteq must
         /\ \A s \in Shards : \A i \in DOMAIN slots[s] :
              /\ i \in DOMAIN slots'[s]
              /\ slots'[s][i].key = slots[s][i].key /\ slots'[s][i].vec = slots[s][i].vec
              /\ \/ slots'[s][i].deleted = slots[s][i].deleted
                 \/ c.req.op = "del" /\ c.req.key = slots[s][i].key /\ <<s, i>> \notin must'
              /\ \/ <<s, i>> \in must' <=> <<s, i>> \in must
                 \/ c.req.op = "del" /\ c.req.key = slots[s][i].key
<1>1. c.req \in Requests /\ (c.st = "checked" => c.req.op = "add")
  BY DEF Running
<1> DEFINE r == c.req
           h == ShardFor(r.key)
<1>2. r.op \in {"add", "del"} /\ r.key \in Keys /\ h \in Shards /\ (r.op = "add" => r.vec \in Vecs)
  BY <1>1, RequestFields
<1>3. slots \in [Shards -> Seq(Slot)] /\ \A s \in Shards : Len(slots[s]) <= Capacity
  BY DEF TypeOK
<1>4. CASE Duplicate(c) \/ Full(c) \/ NotFound(c)
  BY <1>3, <1>4 DEF Duplicate, Full, NotFound, shardVars
<1>5. CASE Store(c)
  <2> DEFINE x == [key |-> r.key, vec |-> r.vec, deleted |-> FALSE]
  <2>1. /\ slots' = [slots EXCEPT ![h] = Append(slots[h], x)] /\ must' = must
        /\ Len(slots[h]) < Capacity /\ r.op = "add"
    BY <1>1, <1>5 DEF Store
  <2>2. x \in Slot
    BY <1>2, <2>1 DEF Slot
  <2>3. PICK p, q : p = slots[h] /\ q = Append(p, x)
    OBVIOUS
  <2>4. p \in Seq(Slot) /\ Len(p) < Capacity /\ Len(p) \in Nat /\ Capacity \in Nat
    BY <1>2, <1>3, <2>1, <2>3, KeyTableAssumption DEF KeyTableAssumption
  <2>5. /\ q \in Seq(Slot) /\ Len(q) <= Capacity /\ DOMAIN p \subseteq DOMAIN q
        /\ \A j \in DOMAIN p : q[j] = p[j]
    BY <2>2, <2>3, <2>4
  <2>6. slots' = [slots EXCEPT ![h] = q]
    BY <2>1, <2>3
  <2> QED
    BY <1>2, <1>3, <2>1, <2>3, <2>5, <2>6
<1>6. CASE MarkDeleted(c)
  <2>1. PICK i \in Live(h) : /\ Published(h, r.key, i)
                             /\ slots' = [slots EXCEPT ![h][i].deleted = TRUE]
                             /\ must' = must \ {<<h, i>>}
    BY <1>6 DEF MarkDeleted
  <2>2. r.op = "del" /\ i \in DOMAIN slots[h] /\ slots[h][i].key = r.key
    BY <1>6, <2>1 DEF MarkDeleted, Published
  <2>3. PICK y, q : y = [slots[h][i] EXCEPT !.deleted = TRUE] /\ q = [slots[h] EXCEPT ![i] = y]
    OBVIOUS
  <2>4. /\ slots[h][i] \in Slot
        /\ y \in Slot /\ y.key = slots[h][i].key /\ y.vec = slots[h][i].vec
    <3>1. PICK z : z = slots[h][i]
      OBVIOUS
    <3>2. z \in Slot /\ y = [z EXCEPT !.deleted = TRUE]
      BY <1>2, <2>2, <2>3, <3>1, SlotFacts
    <3> QED
      BY <3>1, <3>2 DEF Slot
  <2>5. slots' = [slots EXCEPT ![h] = q]
    BY <2>1, <2>3
  <2>6. q \in Seq(Slot) /\ Len(q) = Len(slots[h]) /\ DOMAIN q = DOMAIN slots[h]
    BY <1>2, <1>3, <2>2, <2>3, <2>4, ExceptSeq
  <2>7. q[i] = y /\ \A j \in DOMAIN slots[h] : j # i => q[j] = slots[h][j]
    BY <1>2, <1>3, <2>2, <2>3
  <2> QED
    BY <1>2, <1>3, <2>1, <2>2, <2>4, <2>5, <2>6, <2>7
<1> QED
  BY <1>4, <1>5, <1>6 DEF Served

-----------------------------------------------------------------------------
(* Types.                                                                  *)

(* An Insert that found its key absent is still a call.                    *)
LEMMA CheckedCall ==
  ASSUME NEW c \in Running, Absent(c)
  PROVE  [c EXCEPT !.st = "checked"] \in Running
<1>1. c \in [st : {"sent"}, req : Requests] /\ c.req.op = "add"
  BY DEF Running, Absent
<1> QED
  BY <1>1 DEF Running

(* Every step keeps the types.                                             *)
LEMMA TypeStep == TypeOK /\ [Next]_vars => TypeOK'
<1> SUFFICES ASSUME TypeOK, [Next]_vars PROVE TypeOK'
  OBVIOUS
<1> USE DEF TypeOK
<1>1. CASE UNCHANGED vars
  BY <1>1 DEF vars
<1>2. ASSUME NEW w \in Writers, NEW r \in Requests, WriteCall(w, r) PROVE TypeOK'
  <2>1. [st |-> "sent", req |-> r] \in Calls /\ r.key \in Keys
    BY RequestFields DEF Calls, Running
  <2> QED
    BY <1>2, <2>1 DEF WriteCall, shardVars, searchVars
<1>3. ASSUME NEW w \in Writers, WriteChecked(w) PROVE TypeOK'
  <2>1. [wr[w] EXCEPT !.st = "checked"] \in Calls
    BY <1>3, CheckedCall DEF WriteChecked, Calls
  <2> QED
    BY <1>3, <2>1 DEF WriteChecked, shardVars, searchVars
<1>4. ASSUME NEW w \in Writers, WriteServed(w) PROVE TypeOK'
  <2>1. PICK code \in Codes :
          /\ Served(wr[w], code)
          /\ wr' = [wr EXCEPT ![w] = [st |-> "answered", req |-> wr[w].req, code |-> Status(code)]]
    BY <1>4 DEF WriteServed
  <2>2. wr[w] \in Running /\ wr[w].req \in Requests
    BY <1>4 DEF WriteServed, Running
  <2>3. Status(code) \in Statuses
    BY DEF Codes, Status, Statuses
  <2>4. wr' \in [Writers -> Calls]
    BY <2>1, <2>2, <2>3 DEF Calls
  <2>5. /\ slots' \in [Shards -> Seq(Slot)] /\ \A s \in Shards : Len(slots'[s]) <= Capacity
        /\ must' \subseteq must
    BY <2>1, <2>2, ServedForward
  <2> QED
    BY <1>4, <2>4, <2>5 DEF WriteServed, searchVars
<1>5. ASSUME NEW w \in Writers, WriteReturns(w) \/ WriteFails(w) PROVE TypeOK'
  <2>1. wr[w].st = "answered" => wr[w].req \in Requests
    BY DEF Calls, Running, NoCall
  <2>2. wr' \in [Writers -> Calls]
    BY <1>5 DEF WriteReturns, WriteFails, Calls
  <2> QED
    BY <1>5, <2>1, <2>2 DEF WriteReturns, WriteFails, shardVars, searchVars
<1>6. ASSUME NEW c \in late, LateChecked(c) \/ LateServed(c) PROVE TypeOK'
  <2>1. c \in Running
    OBVIOUS
  <2>2. CASE LateChecked(c)
    BY <2>1, <2>2, CheckedCall DEF LateChecked, shardVars, searchVars
  <2>3. CASE LateServed(c)
    <3>1. /\ slots' \in [Shards -> Seq(Slot)] /\ \A s \in Shards : Len(slots'[s]) <= Capacity
          /\ must' \subseteq must
      BY <2>1, <2>3, ServedForward DEF LateServed
    <3> QED
      BY <2>3, <3>1 DEF LateServed, searchVars
  <2> QED
    BY <1>6, <2>2, <2>3
<1>7. ASSUME NEW k \in Ks, NEW partial \in BOOLEAN, SearchCall(k, partial) PROVE TypeOK'
  <2>1. must' \subseteq Shards \X Nat
    <3>1. Capacity \in Nat
      BY KeyTableAssumption DEF KeyTableAssumption
    <3> QED
      BY <1>7, <3>1 DEF SearchCall
  <2> QED
    BY <1>7, <2>1 DEF SearchCall, writeVars, NoAnswer
<1>8. ASSUME NEW s \in Shards, SearchServed(s) PROVE TypeOK'
  <2>1. \A T \in Nearest(ask.k, Local(s)) : T \subseteq Candidates
    BY LocalFacts DEF Nearest
  <2> QED
    BY <1>8, <2>1 DEF SearchServed, shardVars, writeVars
<1>9. ASSUME NEW s \in Shards, Collect(s) PROVE TypeOK'
  BY <1>9 DEF Collect, shardVars, writeVars
<1>10. ASSUME NEW s \in Shards, CallFails(s) PROVE TypeOK'
  BY <1>10 DEF CallFails, Failures, RecordError, SearchErrors, shardVars, writeVars
<1>11. CASE Expire
  BY <1>11 DEF Expire, shardVars, writeVars
<1>12. CASE SearchReturns
  <2>1. \A T \in Nearest(ask.k, all) : T \subseteq Candidates
    BY DEF Nearest
  <2>2. answer' \in [code : SearchErrors \cup {"OK", "none"}, results : SUBSET Candidates, failed : Nat]
    <3>1. CASE err # "none"
      <4>1. answer' = [code |-> err, results |-> {}, failed |-> 0]
        BY <1>12, <3>1 DEF SearchReturns, NoAnswer
      <4> QED
        BY <3>1, <4>1
    <3>2. CASE err = "none"
      <4>1. PICK T \in Nearest(ask.k, all) :
              answer' = [code |-> "OK", results |-> T, failed |-> failed]
        BY <1>12, <3>2 DEF SearchReturns
      <4> QED
        BY <2>1, <4>1
    <3> QED
      BY <3>1, <3>2
  <2> QED
    BY <1>12, <2>2 DEF SearchReturns, shardVars, writeVars
<1> QED
  BY <1>1, <1>2, <1>3, <1>4, <1>5, <1>6, <1>7, <1>8, <1>9, <1>10, <1>11, <1>12
  DEF Next, WriteStep, SearchStep

(* Type correctness of the coordinator and its shards.                     *)
THEOREM TypeCorrect == Spec => []TypeOK
<1>1. ASSUME Init PROVE TypeOK
  <2> USE <1>1 DEF Init
  <2>1. NoCall \in Calls
    BY DEF Calls
  <2>2. /\ slots \in [Shards -> Seq(Slot)] /\ \A s \in Shards : Len(slots[s]) <= Capacity
        /\ wr \in [Writers -> Calls]
    BY <2>1, ClusterAssumption DEF ClusterAssumption
  <2>3. /\ ask \in [k : Ks \cup {0}, partial : BOOLEAN]
        /\ answer \in [code : SearchErrors \cup {"OK", "none"},
                       results : SUBSET Candidates, failed : Nat]
    BY DEF NoAsk, NoAnswer
  <2>4. /\ rpc \in [Shards -> {"sent", "replied", "done", "failed"}]
        /\ reply \in [Shards -> SUBSET Candidates]
    OBVIOUS
  <2> QED
    BY <2>2, <2>3, <2>4 DEF TypeOK
<1> QED
  BY <1>1, TypeStep, PTL DEF Spec

-----------------------------------------------------------------------------
(* What a search returns was stored.                                       *)

\* A candidate is a filled slot, with its key and its vector.
StoredInv ==
  LET Stored(x) == Holds(x.shard, x.slot, x.key, x.dist) IN
  /\ \A s \in Shards : \A x \in reply[s] : Stored(x)
  /\ \A x \in all : Stored(x)
  /\ \A x \in answer.results : Stored(x)

(* A step is the search's, or leaves the search alone and ends at most one *)
(* handler.                                                                *)
LEMMA ServedOrNot ==
  ASSUME TypeOK, [Next]_vars
  PROVE  \/ SearchStep /\ UNCHANGED slots
         \/ UNCHANGED searchVars /\ UNCHANGED shardVars
         \/ UNCHANGED searchVars /\ \E c \in Running, code \in Codes : Served(c, code)
<1>1. CASE UNCHANGED vars
  BY <1>1 DEF vars, searchVars, shardVars
<1>2. ASSUME NEW w \in Writers, NEW r \in Requests, WriteCall(w, r)
      PROVE  UNCHANGED searchVars /\ UNCHANGED shardVars
  BY <1>2 DEF WriteCall
<1>3. ASSUME NEW w \in Writers, WriteServed(w)
      PROVE  UNCHANGED searchVars /\ \E c \in Running, code \in Codes : Served(c, code)
  BY <1>3 DEF WriteServed
<1>4. ASSUME NEW w \in Writers, WriteChecked(w) \/ WriteReturns(w) \/ WriteFails(w)
      PROVE  UNCHANGED searchVars /\ UNCHANGED shardVars
  BY <1>4 DEF WriteChecked, WriteReturns, WriteFails
<1>5. ASSUME NEW c \in late, LateServed(c)
      PROVE  UNCHANGED searchVars /\ \E d \in Running, code \in Codes : Served(d, code)
  <2>1. c \in Running
    BY DEF TypeOK
  <2> QED
    BY <1>5, <2>1 DEF LateServed
<1>6. ASSUME NEW c \in late, LateChecked(c)
      PROVE  UNCHANGED searchVars /\ UNCHANGED shardVars
  BY <1>6 DEF LateChecked
<1>7. SearchStep => UNCHANGED slots
  BY DEF SearchStep, SearchCall, SearchServed, Collect, CallFails, Expire, SearchReturns, shardVars
<1> QED
  BY <1>1, <1>2, <1>3, <1>4, <1>5, <1>6, <1>7 DEF Next, WriteStep

(* A filled slot keeps its key and its vector.                             *)
LEMMA HoldsStays ==
  ASSUME TypeOK, [Next]_vars, NEW s \in Shards, NEW i, NEW k, NEW v, Holds(s, i, k, v)
  PROVE  Holds(s, i, k, v)'
<1>1. CASE UNCHANGED slots
  BY <1>1 DEF Holds
<1>2. ASSUME NEW c \in Running, NEW code, Served(c, code)
      PROVE  Holds(s, i, k, v)'
  BY <1>2, ServedForward DEF Holds
<1> QED
  BY <1>1, <1>2, ServedOrNot DEF shardVars

(* Replies, candidates and answers are slots that were filled.             *)
LEMMA StoredStep == TypeOK /\ StoredInv /\ [Next]_vars => StoredInv'
<1> SUFFICES ASSUME TypeOK, StoredInv, [Next]_vars PROVE StoredInv'
  OBVIOUS
<1> DEFINE Stored(x) == Holds(x.shard, x.slot, x.key, x.dist)
           Old(x) == (\E s \in Shards : x \in reply[s]) \/ x \in all \/ x \in answer.results
           New(x) == (\E s \in Shards : x \in reply'[s]) \/ x \in all' \/ x \in answer'.results
<1>1. ASSUME NEW x, Old(x) PROVE Stored(x)'
  <2>1. x \in Candidates /\ Stored(x) /\ x.shard \in Shards
    BY <1>1 DEF TypeOK, StoredInv, Candidates
  <2> QED
    BY <2>1, HoldsStays
<1>2. ASSUME NEW s \in Shards, NEW x \in Local(s), UNCHANGED slots
      PROVE  Stored(x)'
  BY <1>2 DEF Local, Live, Holds
<1>3. SUFFICES \A x : New(x) => Old(x) \/ Stored(x)'
  BY <1>1 DEF StoredInv
<1>4. CASE UNCHANGED searchVars
  BY <1>4 DEF searchVars
<1>5. ASSUME NEW k \in Ks, NEW partial \in BOOLEAN, SearchCall(k, partial) PROVE \A x : ~ New(x)
  BY <1>5 DEF SearchCall, NoAnswer
<1>6. ASSUME NEW s \in Shards, SearchServed(s) PROVE \A x : New(x) => Old(x) \/ Stored(x)'
  <2>1. PICK T \in Nearest(ask.k, Local(s)) : reply' = [reply EXCEPT ![s] = T]
    BY <1>6 DEF SearchServed
  <2>2. \A x \in T : Stored(x)'
    BY <1>2, <1>6 DEF Nearest, SearchServed, shardVars
  <2> QED
    BY <1>6, <2>1, <2>2 DEF SearchServed, TypeOK
<1>7. ASSUME NEW s \in Shards, Collect(s) PROVE \A x : New(x) => Old(x)
  BY <1>7 DEF Collect
<1>8. ASSUME NEW s \in Shards, CallFails(s) PROVE \A x : New(x) => Old(x)
  BY <1>8 DEF CallFails, TypeOK
<1>9. CASE Expire
  BY <1>9 DEF Expire
<1>10. CASE SearchReturns
  BY <1>10 DEF SearchReturns, NoAnswer, Nearest
<1> QED
  BY <1>4, <1>5, <1>6, <1>7, <1>8, <1>9, <1>10, ServedOrNot DEF SearchStep

-----------------------------------------------------------------------------
(* The errors of a search.                                                 *)

\* The error kept is one a shard's failure gave, and ends the search.
ErrInv ==
  /\ phase = "asking" => answer.code = "none"
  /\ err # "canceled"
  /\ err = "deadline" => expired
  /\ err # "none" => ~ ask.partial
  /\ answer.code \in SearchErrors => answer.code = err

(* Cancellation follows an error, so it is never the first.                *)
LEMMA ErrStep == TypeOK /\ ErrInv /\ [Next]_vars => ErrInv'
<1> SUFFICES ASSUME TypeOK, ErrInv, [Next]_vars PROVE ErrInv'
  OBVIOUS
<1>1. CASE UNCHANGED searchVars
  BY <1>1 DEF searchVars, ErrInv
<1>2. ASSUME NEW k \in Ks, NEW partial \in BOOLEAN, SearchCall(k, partial) PROVE ErrInv'
  BY <1>2 DEF SearchCall, ErrInv, NoAnswer, SearchErrors
<1>3. ASSUME NEW s \in Shards, SearchServed(s) \/ Collect(s) PROVE ErrInv'
  BY <1>3 DEF SearchServed, Collect, ErrInv
<1>4. ASSUME NEW s \in Shards, CallFails(s) PROVE ErrInv'
  BY <1>4 DEF CallFails, Failures, GroupCanceled, RecordError, ErrInv, SearchErrors
<1>5. CASE Expire
  BY <1>5 DEF Expire, ErrInv
<1>6. CASE SearchReturns
  BY <1>6 DEF SearchReturns, NoAnswer, ErrInv, SearchErrors
<1> QED
  BY <1>1, <1>2, <1>3, <1>4, <1>5, <1>6, ServedOrNot DEF SearchStep

(* A failed search tells why a shard failed.                               *)
THEOREM GenuineErrors == Spec => []ErrorIsGenuine
<1>1. Init => ErrInv
  BY DEF Init, ErrInv, NoAnswer, SearchErrors
<1>2. ErrInv => ErrorIsGenuine
  BY DEF ErrInv, ErrorIsGenuine, SearchErrors
<1> QED
  BY <1>1, <1>2, TypeCorrect, ErrStep, PTL DEF Spec

-----------------------------------------------------------------------------
(* What a search leaves out.                                               *)

FailedShards == {s \in Shards : rpc[s] = "failed"}

\* While no error is kept, every failed call has been counted.
CountInv ==
  /\ err = "none" => failed = Cardinality(FailedShards)
  /\ ~ ask.partial => failed = 0
  /\ answer.code = "OK" => answer.failed = failed /\ err = "none"

FiniteInv == (\A s \in Shards : IsFiniteSet(reply[s])) /\ IsFiniteSet(all)

\* S has slot i of shard s, or n candidates within distance v.
Enough(n, v, S, s, i) ==
  \/ \E x \in S : x.shard = s /\ x.slot = i
  \/ \E R \in SUBSET S : Cardinality(R) = n /\ \A x \in R : x.dist <= v

\* T has slot i of shard s, or is full of candidates within distance v.
Kept(n, v, T, s, i) ==
  \/ \E x \in T : x.shard = s /\ x.slot = i
  \/ Cardinality(T) = n /\ \A x \in T : x.dist <= v

\* A slot that counts for the search is live, and is accounted for at each
\* stage: in its shard's reply, among the candidates, in the answer.
Accounted(s, i) ==
  LET v == slots[s][i].vec IN
  /\ i \in Live(s)
  /\ phase = "asking" /\ rpc[s] = "replied" => Enough(ask.k, v, reply[s], s, i)
  /\ phase = "asking" /\ rpc[s] = "done" => Enough(ask.k, v, all, s, i)
  /\ answer.code = "OK" /\ rpc[s] = "done" => Kept(ask.k, v, answer.results, s, i)

FoundInv == \A s \in Shards, i \in Nat : <<s, i>> \in must => Accounted(s, i)

(* The shards are finitely many.                                           *)
LEMMA ShardsFinite == IsFiniteSet(Shards)
<1>1. NumShards \in Nat
  BY ClusterAssumption DEF ClusterAssumption
<1> QED
  BY <1>1, FS_Interval DEF Shards

(* Every failed call is counted once.                                      *)
LEMMA CountStep == TypeOK /\ ErrInv /\ CountInv /\ [Next]_vars => CountInv'
<1> SUFFICES ASSUME TypeOK, ErrInv, CountInv, [Next]_vars PROVE CountInv'
  OBVIOUS
<1>1. CASE UNCHANGED searchVars
  BY <1>1 DEF searchVars, CountInv, FailedShards
<1>2. ASSUME NEW k \in Ks, NEW partial \in BOOLEAN, SearchCall(k, partial) PROVE CountInv'
  <2>1. FailedShards' = {}
    BY <1>2 DEF SearchCall, FailedShards
  <2> QED
    BY <1>2, <2>1, FS_EmptySet DEF SearchCall, CountInv, NoAnswer
<1>3. ASSUME NEW s \in Shards, SearchServed(s) \/ Collect(s) PROVE CountInv'
  <2>1. FailedShards' = FailedShards
    BY <1>3 DEF SearchServed, Collect, FailedShards, TypeOK
  <2> QED
    BY <1>3, <2>1 DEF SearchServed, Collect, CountInv
<1>4. ASSUME NEW s \in Shards, CallFails(s) PROVE CountInv'
  <2>1. FailedShards' = FailedShards \cup {s} /\ s \notin FailedShards
    BY <1>4 DEF CallFails, FailedShards, TypeOK
  <2>2. IsFiniteSet(FailedShards)
    BY ShardsFinite, FS_Subset DEF FailedShards
  <2>3. Cardinality(FailedShards') = Cardinality(FailedShards) + 1
    BY <2>1, <2>2, FS_AddElement
  <2>4. answer' = answer /\ ask' = ask /\ answer.code = "none"
    BY <1>4 DEF CallFails, ErrInv
  <2>5. CASE ask.partial
    BY <1>4, <2>3, <2>4, <2>5 DEF CallFails, CountInv
  <2>6. CASE ~ ask.partial
    <3>1. err' # "none" /\ failed' = failed
      BY <1>4, <2>6 DEF CallFails, Failures, RecordError
    <3> QED
      BY <2>4, <3>1 DEF CountInv
  <2> QED
    BY <2>5, <2>6
<1>5. CASE Expire
  BY <1>5 DEF Expire, CountInv, FailedShards
<1>6. CASE SearchReturns
  <2>1. answer'.code = "OK" => answer'.failed = failed /\ err = "none"
    BY <1>6 DEF SearchReturns, NoAnswer, TypeOK, SearchErrors
  <2> QED
    BY <1>6, <2>1 DEF SearchReturns, CountInv, FailedShards
<1> QED
  BY <1>1, <1>2, <1>3, <1>4, <1>5, <1>6, ServedOrNot DEF SearchStep

(* Replies and candidates are finitely many.                               *)
LEMMA FiniteStep == TypeOK /\ FiniteInv /\ [Next]_vars => FiniteInv'
<1> SUFFICES ASSUME TypeOK, FiniteInv, [Next]_vars PROVE FiniteInv'
  OBVIOUS
<1>1. CASE UNCHANGED searchVars
  BY <1>1 DEF searchVars, FiniteInv
<1>2. ASSUME (\E k \in Ks, partial \in BOOLEAN : SearchCall(k, partial)) \/ SearchReturns
      PROVE  FiniteInv'
  BY <1>2, FS_EmptySet DEF SearchCall, SearchReturns, FiniteInv
<1>3. ASSUME NEW s \in Shards, SearchServed(s) PROVE FiniteInv'
  <2>1. PICK T \in Nearest(ask.k, Local(s)) : reply' = [reply EXCEPT ![s] = T]
    BY <1>3 DEF SearchServed
  <2>2. IsFiniteSet(T)
    BY LocalFacts, FS_Subset DEF Nearest
  <2> QED
    BY <1>3, <2>1, <2>2 DEF SearchServed, FiniteInv, TypeOK
<1>4. ASSUME NEW s \in Shards, Collect(s) PROVE FiniteInv'
  <2>1. IsFiniteSet(all \cup reply[s])
    BY FS_Union DEF FiniteInv
  <2> QED
    BY <1>4, <2>1 DEF Collect, FiniteInv
<1>5. ASSUME NEW s \in Shards, CallFails(s) PROVE FiniteInv'
  BY <1>5, FS_EmptySet DEF CallFails, FiniteInv, TypeOK
<1>6. CASE Expire
  BY <1>6 DEF Expire, FiniteInv
<1> QED
  BY <1>1, <1>2, <1>3, <1>4, <1>5, <1>6, ServedOrNot DEF SearchStep

(* A slot with enough candidates about it is in the merged answer, or the  *)
(* answer is full without it.                                              *)
LEMMA EnoughKept ==
  ASSUME NEW S \in SUBSET Candidates, IsFiniteSet(S), NEW n \in Nat, NEW T \in Nearest(n, S),
         NEW v \in Nat, NEW s, NEW i, Enough(n, v, S, s, i),
         \A x \in S : x.shard = s /\ x.slot = i => x.dist = v
  PROVE  Kept(n, v, T, s, i)
<1>1. ASSUME NEW x \in S, x.shard = s, x.slot = i
      PROVE  x \in T \/ (Cardinality(T) = n /\ \A y \in T : y.dist <= v)
  <2>1. x.dist = v
    BY <1>1
  <2> QED
    BY <2>1, Displaced
<1>2. ASSUME NEW R \in SUBSET S, Cardinality(R) = n, \A x \in R : x.dist <= v
      PROVE  Cardinality(T) = n /\ \A x \in T : x.dist <= v
  BY <1>2, Within
<1> QED
  BY <1>1, <1>2 DEF Enough, Kept

(* What a search asks for is a number.                                     *)
LEMMA AskNat == TypeOK => ask.k \in Nat
<1>1. Ks \cup {0} \subseteq Nat
  BY ClusterAssumption DEF ClusterAssumption
<1> QED
  BY <1>1 DEF TypeOK

(* Ending a handler, or nothing, keeps every slot accounted for.           *)
LEMMA FoundWrite ==
  ASSUME TypeOK, FoundInv, UNCHANGED searchVars,
         UNCHANGED shardVars \/ \E c \in Running, code \in Codes : Served(c, code)
  PROVE  FoundInv'
<1>1. ASSUME NEW s \in Shards, NEW i \in Nat, <<s, i>> \in must'
      PROVE  <<s, i>> \in must /\ i \in Live(s)' /\ slots'[s][i].vec = slots[s][i].vec
  <2>1. CASE UNCHANGED shardVars
    BY <1>1, <2>1 DEF FoundInv, Accounted, Live, shardVars
  <2>2. ASSUME NEW c \in Running, NEW code \in Codes, Served(c, code)
        PROVE  <<s, i>> \in must /\ i \in Live(s)' /\ slots'[s][i].vec = slots[s][i].vec
    <3>1. <<s, i>> \in must
      BY <1>1, <2>2, ServedForward
    <3>2. i \in DOMAIN slots[s] /\ ~ slots[s][i].deleted
      BY <3>1 DEF FoundInv, Accounted, Live
    <3> QED
      BY <1>1, <2>2, <3>1, <3>2, ServedForward DEF Live
  <2> QED
    BY <2>1, <2>2
<1>2. UNCHANGED <<phase, ask, rpc, reply, all, answer>>
  BY DEF searchVars
<1> QED
  BY <1>1, <1>2 DEF FoundInv, Accounted

(* Every slot is accounted for from its shard to the answer.               *)
LEMMA FoundStep ==
  TypeOK /\ ErrInv /\ FiniteInv /\ StoredInv /\ FoundInv /\ [Next]_vars => FoundInv'
<1> SUFFICES ASSUME TypeOK, ErrInv, FiniteInv, StoredInv, FoundInv, [Next]_vars PROVE FoundInv'
  OBVIOUS
<1>1. CASE /\ UNCHANGED searchVars
           /\ UNCHANGED shardVars \/ \E c \in Running, code \in Codes : Served(c, code)
  BY <1>1, FoundWrite
<1>2. ASSUME NEW k \in Ks, NEW partial \in BOOLEAN, SearchCall(k, partial) PROVE FoundInv'
  <2>1. ASSUME NEW s \in Shards, NEW i \in Nat, <<s, i>> \in must'
        PROVE  i \in Live(s)'
    BY <1>2, <2>1 DEF SearchCall, Live
  <2>2. answer'.code # "OK" /\ \A s \in Shards : rpc'[s] = "sent"
    BY <1>2 DEF SearchCall, NoAnswer
  <2> QED
    BY <2>1, <2>2 DEF FoundInv, Accounted
<1>3. ASSUME NEW s \in Shards, SearchServed(s) PROVE FoundInv'
  <2>1. PICK T \in Nearest(ask.k, Local(s)) : reply' = [reply EXCEPT ![s] = T]
    BY <1>3 DEF SearchServed
  <2>2. /\ UNCHANGED <<slots, must, phase, ask, all, answer>> /\ phase = "asking"
        /\ rpc' = [rpc EXCEPT ![s] = "replied"] /\ answer.code = "none"
    BY <1>3 DEF SearchServed, shardVars, ErrInv
  <2>3. ASSUME NEW i \in Nat, <<s, i>> \in must PROVE Enough(ask.k, slots[s][i].vec, T, s, i)
    <3>1. i \in Live(s)
      BY <2>3 DEF FoundInv, Accounted
    <3> DEFINE c == [key |-> slots[s][i].key, dist |-> slots[s][i].vec, shard |-> s, slot |-> i]
    <3>2. c \in Local(s)
      BY <3>1 DEF Local
    <3>3. c \in T \/ (Cardinality(T) = ask.k /\ \A x \in T : x.dist <= c.dist)
      BY <3>2, AskNat, LocalFacts, Displaced
    <3> QED
      BY <3>3 DEF Enough
  <2> QED
    BY <2>1, <2>2, <2>3 DEF FoundInv, Accounted, Live, TypeOK
<1>4. ASSUME NEW s \in Shards, Collect(s) PROVE FoundInv'
  <2>1. /\ UNCHANGED <<slots, must, phase, ask, reply, answer>> /\ phase = "asking"
        /\ rpc[s] = "replied" /\ rpc' = [rpc EXCEPT ![s] = "done"] /\ answer.code = "none"
        /\ all' = all \cup reply[s]
    BY <1>4 DEF Collect, shardVars, ErrInv
  <2>2. ASSUME NEW v, NEW t, NEW i, Enough(ask.k, v, all, t, i) \/ Enough(ask.k, v, reply[s], t, i)
        PROVE  Enough(ask.k, v, all', t, i)
    BY <2>1, <2>2 DEF Enough
  <2>3. ASSUME NEW t \in Shards, NEW i \in Nat, <<t, i>> \in must
        PROVE  Accounted(t, i)'
    <3>1. Accounted(t, i) /\ Live(t)' = Live(t)
      BY <2>1, <2>3 DEF FoundInv, Live
    <3>2. rpc'[t] = "done" => t = s \/ rpc[t] = "done"
      BY <2>1, <2>3 DEF TypeOK
    <3>3. rpc'[t] = "replied" => rpc[t] = "replied"
      BY <2>1, <2>3 DEF TypeOK
    <3>4. rpc'[t] = "done" => Enough(ask.k, slots[t][i].vec, all', t, i)
      BY <2>1, <2>2, <3>1, <3>2 DEF Accounted
    <3> QED
      BY <2>1, <3>1, <3>3, <3>4 DEF Accounted
  <2> QED
    BY <2>1, <2>3 DEF FoundInv
<1>5. ASSUME NEW s \in Shards, CallFails(s) PROVE FoundInv'
  <2>1. /\ UNCHANGED <<slots, must, phase, ask, all, answer>>
        /\ rpc' = [rpc EXCEPT ![s] = "failed"] /\ reply' = [reply EXCEPT ![s] = {}]
    BY <1>5 DEF CallFails, shardVars
  <2>2. ASSUME NEW t \in Shards
        PROVE  /\ rpc'[t] = "failed" \/ (rpc'[t] = rpc[t] /\ reply'[t] = reply[t])
               /\ Live(t)' = Live(t)
    BY <2>1 DEF TypeOK, Live
  <2> QED
    BY <2>1, <2>2 DEF FoundInv, Accounted
<1>6. CASE Expire
  <2>1. UNCHANGED <<slots, must, phase, ask, rpc, reply, all, answer>>
    BY <1>6 DEF Expire, shardVars
  <2> QED
    BY <2>1 DEF FoundInv, Accounted, Live
<1>7. CASE SearchReturns
  <2>1. /\ UNCHANGED <<slots, must, ask, rpc>> /\ phase = "asking" /\ phase' = "answered"
    BY <1>7 DEF SearchReturns, shardVars
  <2>2. ASSUME NEW s \in Shards, NEW i \in Nat, <<s, i>> \in must, answer'.code = "OK",
               rpc[s] = "done"
        PROVE  Kept(ask.k, slots[s][i].vec, answer'.results, s, i)
    <3>1. PICK T \in Nearest(ask.k, all) : answer'.results = T
      BY <1>7, <2>2 DEF SearchReturns, NoAnswer, TypeOK, SearchErrors
    <3>2. Enough(ask.k, slots[s][i].vec, all, s, i) /\ i \in Live(s)
      BY <2>1, <2>2 DEF FoundInv, Accounted
    <3>3. slots[s][i].vec \in Nat
      BY <3>2, SlotFacts
    <3>4. ask.k \in Nat /\ all \in SUBSET Candidates /\ IsFiniteSet(all)
      BY AskNat DEF TypeOK, FiniteInv
    <3>5. \A x \in all : x.shard = s /\ x.slot = i => x.dist = slots[s][i].vec
      BY DEF StoredInv, Holds
    <3> QED
      BY <3>1, <3>2, <3>3, <3>4, <3>5, EnoughKept
  <2>3. \A s : Live(s)' = Live(s)
    BY <2>1 DEF Live
  <2> QED
    BY <2>1, <2>2, <2>3 DEF FoundInv, Accounted
<1> QED
  BY <1>1, <1>2, <1>3, <1>4, <1>5, <1>6, <1>7, ServedOrNot DEF SearchStep

\* What a search of the coordinator rests on.
SearchInv == ErrInv /\ CountInv /\ FiniteInv /\ StoredInv /\ FoundInv

(* It holds at the start.                                                  *)
LEMMA SearchInit == Init => SearchInv
<1> SUFFICES ASSUME Init PROVE SearchInv
  OBVIOUS
<1>1. FailedShards = {}
  BY DEF Init, FailedShards
<1> QED
  BY <1>1, FS_EmptySet DEF Init, SearchInv, ErrInv, CountInv, FiniteInv, StoredInv, FoundInv,
                           NoAnswer, SearchErrors

(* Every step keeps it.                                                    *)
LEMMA SearchInvStep == TypeOK /\ SearchInv /\ [Next]_vars => SearchInv'
  BY ErrStep, CountStep, FiniteStep, StoredStep, FoundStep DEF SearchInv

(* Asking every shard for the full k is enough: what a successful search   *)
(* leaves out was displaced by k that are as near, or sits on a shard that *)
(* is counted as failed.                                                   *)
THEOREM CompleteSearch == Spec => []SearchComplete
<1>1. TypeOK /\ SearchInv => SearchComplete
  <2> SUFFICES ASSUME TypeOK, SearchInv, answer.code = "OK" PROVE SearchComplete
    BY DEF SearchComplete
  <2>1. /\ answer.failed = Cardinality({s \in Shards : rpc[s] = "failed"})
        /\ ~ ask.partial => answer.failed = 0
    BY DEF SearchInv, CountInv, FailedShards
  <2>2. ASSUME NEW m \in must, rpc[m[1]] = "done"
        PROVE  Kept(ask.k, slots[m[1]][m[2]].vec, answer.results, m[1], m[2])
    <3>1. PICK s \in Shards, i \in Nat : m = <<s, i>>
      BY DEF TypeOK
    <3>2. m[1] = s /\ m[2] = i /\ Accounted(s, i)
      BY <3>1 DEF SearchInv, FoundInv
    <3> QED
      BY <2>2, <3>2 DEF Accounted
  <2> QED
    BY <2>1, <2>2 DEF SearchComplete, Kept
<1> QED
  BY <1>1, TypeCorrect, SearchInit, SearchInvStep, PTL DEF Spec

-----------------------------------------------------------------------------
(* A client finds what it was told is stored.                              *)

\* Insert r has a live slot on the shard of its key.
Lives(r) ==
  \E i \in Live(ShardFor(r.key)) : Holds(ShardFor(r.key), i, r.key, r.vec)

\* Insert r has a slot that the search must account for.
Awaited(r) ==
  \E i \in Nat : <<ShardFor(r.key), i>> \in must /\ Holds(ShardFor(r.key), i, r.key, r.vec)

\* A delete on its way is remembered in gone; an insert that was answered OK
\* lives unless its key is in gone, and so does one a client was told OK.
DeletesKnown ==
  /\ \A w \in Writers : wr[w] \in Running /\ wr[w].req.op = "del" => wr[w].req.key \in gone
  /\ \A c \in late : c.req.op = "del" => c.req.key \in gone

Stays(r) == r.key \notin gone => Lives(r)

AckInv ==
  /\ \A w \in Writers :
       wr[w].st = "answered" /\ wr[w].code = "OK" /\ wr[w].req.op = "add" => Stays(wr[w].req)
  /\ \A r \in acked : Stays(r)

SureInv == \A r \in sure : r.key \notin gone => Awaited(r)

(* Only a delete takes a slot out of sight, and out of the search's        *)
(* account, and gone knows of it.                                          *)
LEMMA ServedKeepsLive ==
  ASSUME TypeOK, NEW c \in Running, NEW code, Served(c, code), gone' = gone,
         c.req.op = "del" => c.req.key \in gone, NEW r \in Requests
  PROVE  /\ Stays(r) => Stays(r)'
         /\ r.key \notin gone /\ Awaited(r) => Awaited(r)'
<1> SUFFICES ASSUME r.key \notin gone
             PROVE  (Lives(r) => Lives(r)') /\ (Awaited(r) => Awaited(r)')
  BY DEF Stays
<1> DEFINE h == ShardFor(r.key)
<1>1. h \in Shards /\ ShardFor(r.key)' = h
  BY RequestFields DEF ShardFor
<1>2. ASSUME NEW i, Holds(h, i, r.key, r.vec)
      PROVE  /\ Holds(h, i, r.key, r.vec)'
             /\ i \in Live(h) => i \in Live(h)'
             /\ <<h, i>> \in must => <<h, i>> \in must'
  <2>1. i \in DOMAIN slots[h] /\ ~ (c.req.op = "del" /\ c.req.key = slots[h][i].key)
    BY <1>2 DEF Holds
  <2> QED
    BY <1>1, <1>2, <2>1, ServedForward DEF Holds, Live
<1> QED
  BY <1>1, <1>2 DEF Lives, Awaited

(* An insert that succeeds has a live slot.                                *)
LEMMA StoredLives ==
  ASSUME TypeOK, NEW c \in Running, Served(c, "ok"), c.req.op = "add"
  PROVE  Lives(c.req)'
<1> DEFINE h == ShardFor(c.req.key)
           x == [key |-> c.req.key, vec |-> c.req.vec, deleted |-> FALSE]
<1>1. c.req \in Requests /\ Store(c)
  BY DEF Running, Served, MarkDeleted
<1>2. h \in Shards /\ ShardFor(c.req.key)' = h /\ slots[h] \in Seq(Slot)
  BY <1>1, RequestFields DEF ShardFor, TypeOK
<1>3. slots' = [slots EXCEPT ![h] = Append(slots[h], x)]
  BY <1>1 DEF Store
<1>4. slots'[h] = Append(slots[h], x)
  BY <1>2, <1>3 DEF TypeOK
<1>5. PICK n : n = Len(slots[h]) + 1
  OBVIOUS
<1>6. n \in DOMAIN slots'[h] /\ slots'[h][n] = x
  BY <1>2, <1>4, <1>5
<1> QED
  BY <1>2, <1>6 DEF Lives, Live, Holds

(* A delete is in gone from the moment it is sent.                         *)
LEMMA DeletesStep == TypeOK /\ DeletesKnown /\ [Next]_vars => DeletesKnown'
<1> SUFFICES ASSUME TypeOK, DeletesKnown, [Next]_vars PROVE DeletesKnown'
  OBVIOUS
<1> USE DEF DeletesKnown
<1>0. NoCall \notin Running /\ \A c \in Running : c.st # "answered"
  BY DEF NoCall, Running
<1>1. CASE UNCHANGED <<wr, late, gone>>
  BY <1>1
<1>2. ASSUME NEW w \in Writers, NEW r \in Requests, WriteCall(w, r) PROVE DeletesKnown'
  <2>1. /\ wr' = [wr EXCEPT ![w] = [st |-> "sent", req |-> r]] /\ late' = late /\ gone \subseteq gone'
        /\ r.op = "del" => r.key \in gone'
    BY <1>2 DEF WriteCall
  <2> QED
    BY <2>1 DEF TypeOK
<1>3. ASSUME NEW w \in Writers, WriteChecked(w) PROVE DeletesKnown'
  <2>1. /\ wr' = [wr EXCEPT ![w].st = "checked"] /\ late' = late /\ gone' = gone
        /\ wr[w].req.op = "add"
    BY <1>3 DEF WriteChecked, Absent
  <2>2. wr[w] \in Running /\ wr'[w].req = wr[w].req
    BY <1>3, <2>1 DEF WriteChecked, TypeOK, Running
  <2> QED
    BY <2>1, <2>2 DEF TypeOK
<1>4. ASSUME NEW w \in Writers, WriteServed(w) PROVE DeletesKnown'
  <2>1. wr'[w].st = "answered" /\ late' = late /\ gone' = gone
        /\ \A v \in Writers \ {w} : wr'[v] = wr[v]
    BY <1>4 DEF WriteServed, TypeOK
  <2> QED
    BY <1>0, <2>1
<1>5. ASSUME NEW w \in Writers, WriteReturns(w) \/ WriteFails(w) PROVE DeletesKnown'
  <2>1. /\ wr' = [wr EXCEPT ![w] = NoCall] /\ gone' = gone
        /\ late' = late \/ (wr[w] \in Running /\ late' = late \cup {wr[w]})
    BY <1>5 DEF WriteReturns, WriteFails
  <2> QED
    BY <1>0, <2>1 DEF TypeOK
<1>6. ASSUME NEW c \in late, LateChecked(c) PROVE DeletesKnown'
  <2>1. c.req.op = "add" /\ wr' = wr /\ gone' = gone
        /\ late' = (late \ {c}) \cup {[c EXCEPT !.st = "checked"]}
    BY <1>6 DEF LateChecked, Absent
  <2>2. [c EXCEPT !.st = "checked"].req = c.req
    BY DEF TypeOK, Running
  <2> QED
    BY <2>1, <2>2
<1>7. ASSUME NEW c \in late, LateServed(c) PROVE DeletesKnown'
  BY <1>7 DEF LateServed
<1>8. SearchStep \/ UNCHANGED vars => UNCHANGED <<wr, late, gone>>
  BY DEF SearchStep, SearchCall, SearchServed, Collect, CallFails, Expire, SearchReturns,
         writeVars, vars
<1> QED
  BY <1>1, <1>2, <1>3, <1>4, <1>5, <1>6, <1>7, <1>8 DEF Next, WriteStep

(* What the clients were told is kept.                                     *)
LEMMA AckStep == TypeOK /\ DeletesKnown /\ AckInv /\ [Next]_vars => AckInv'
<1> SUFFICES ASSUME TypeOK, DeletesKnown, AckInv, [Next]_vars PROVE AckInv'
  OBVIOUS
<1>0. NoCall.st = "idle" /\ \A c \in Running : c.st # "answered" /\ c.req \in Requests
  BY DEF NoCall, Running
<1> DEFINE Told(c) == c.st = "answered" /\ c.code = "OK" /\ c.req.op = "add"
<1>1. ASSUME UNCHANGED slots, gone \subseteq gone', NEW r PROVE Stays(r) => Stays(r)'
  BY <1>1 DEF Stays, Lives, Live, Holds, ShardFor
<1>2. ASSUME NEW w \in Writers, Told(wr[w]) PROVE wr[w].req \in Requests
  BY <1>0, <1>2 DEF TypeOK, Calls
<1>3. ASSUME UNCHANGED slots, gone \subseteq gone',
             \A w \in Writers : Told(wr'[w]) => wr'[w] = wr[w],
             \A r \in acked' : r \in acked \/ \E w \in Writers : Told(wr[w]) /\ r = wr[w].req
      PROVE  AckInv'
  BY <1>1, <1>3 DEF AckInv
<1>4. ASSUME NEW c \in Running, NEW code \in Codes, Served(c, code),
             c.req.op = "del" => c.req.key \in gone, gone' = gone, acked' = acked,
             \A w \in Writers :
               Told(wr'[w]) => wr'[w] = wr[w] \/ (wr'[w].req = c.req /\ code = "ok")
      PROVE  AckInv'
  <2>1. ASSUME NEW w \in Writers, Told(wr'[w]), NEW r, r = wr'[w].req PROVE Stays(r)'
    <3>1. CASE wr'[w] = wr[w]
      BY <1>2, <1>4, <2>1, <3>1, ServedKeepsLive DEF AckInv
    <3>2. CASE wr'[w].req = c.req /\ code = "ok"
      <4>1. Lives(c.req)'
        BY <1>4, <2>1, <3>2, StoredLives
      <4> QED
        BY <2>1, <3>2, <4>1 DEF Stays
    <3> QED
      BY <1>4, <2>1, <3>1, <3>2
  <2>2. ASSUME NEW r \in acked PROVE Stays(r)'
    BY <1>4, ServedKeepsLive DEF AckInv, TypeOK
  <2> QED
    BY <1>4, <2>1, <2>2 DEF AckInv
<1>5. ASSUME NEW w \in Writers, NEW r \in Requests, WriteCall(w, r) PROVE AckInv'
  <2>1. wr' = [wr EXCEPT ![w] = [st |-> "sent", req |-> r]] /\ acked' = acked
        /\ slots' = slots /\ gone \subseteq gone'
    BY <1>5 DEF WriteCall, shardVars
  <2> QED
    BY <1>3, <2>1 DEF TypeOK
<1>6. ASSUME NEW w \in Writers, WriteChecked(w) PROVE AckInv'
  <2>1. wr' = [wr EXCEPT ![w].st = "checked"] /\ acked' = acked /\ slots' = slots /\ gone' = gone
        /\ wr[w] \in Running
    BY <1>6 DEF WriteChecked, shardVars
  <2>2. wr'[w].st = "checked" /\ \A v \in Writers \ {w} : wr'[v] = wr[v]
    BY <2>1 DEF TypeOK, Running
  <2> QED
    BY <1>3, <2>1, <2>2
<1>7. ASSUME NEW w \in Writers, WriteServed(w) PROVE AckInv'
  <2>1. PICK code \in Codes :
          /\ Served(wr[w], code)
          /\ wr' = [wr EXCEPT ![w] = [st |-> "answered", req |-> wr[w].req, code |-> Status(code)]]
    BY <1>7 DEF WriteServed
  <2>2. wr[w] \in Running /\ gone' = gone /\ acked' = acked
    BY <1>7 DEF WriteServed
  <2>3. Status(code) = "OK" => code = "ok"
    BY DEF Status, Codes
  <2>4. /\ wr'[w].req = wr[w].req /\ wr'[w].code = Status(code)
        /\ \A v \in Writers \ {w} : wr'[v] = wr[v]
    BY <2>1 DEF TypeOK
  <2>5. wr[w].req.op = "del" => wr[w].req.key \in gone
    BY <2>2 DEF DeletesKnown
  <2> QED
    BY <1>4, <2>1, <2>2, <2>3, <2>4, <2>5
<1>8. ASSUME NEW w \in Writers, WriteReturns(w) PROVE AckInv'
  <2>1. /\ wr' = [wr EXCEPT ![w] = NoCall] /\ slots' = slots /\ gone' = gone
        /\ wr[w].st = "answered"
        /\ acked' = acked \/ (Told(wr[w]) /\ acked' = acked \cup {wr[w].req})
    BY <1>8 DEF WriteReturns, shardVars
  <2> QED
    BY <1>0, <1>3, <2>1 DEF TypeOK
<1>9. ASSUME NEW w \in Writers, WriteFails(w) PROVE AckInv'
  <2>1. wr' = [wr EXCEPT ![w] = NoCall] /\ slots' = slots /\ gone' = gone /\ acked' = acked
    BY <1>9 DEF WriteFails, shardVars
  <2> QED
    BY <1>0, <1>3, <2>1 DEF TypeOK
<1>10. ASSUME NEW c \in late, LateServed(c) PROVE AckInv'
  <2>1. c \in Running /\ (c.req.op = "del" => c.req.key \in gone)
    BY DEF TypeOK, DeletesKnown
  <2>2. wr' = wr /\ gone' = gone /\ acked' = acked /\ \E code \in Codes : Served(c, code)
    BY <1>10 DEF LateServed
  <2> QED
    BY <1>4, <2>1, <2>2
<1>11. ASSUME (\E c \in late : LateChecked(c)) \/ SearchStep \/ UNCHANGED vars PROVE AckInv'
  <2>1. UNCHANGED <<slots, wr, gone, acked>>
    BY <1>11 DEF LateChecked, SearchStep, SearchCall, SearchServed, Collect, CallFails, Expire,
                 SearchReturns, writeVars, shardVars, vars
  <2> QED
    BY <1>3, <2>1
<1> QED
  BY <1>5, <1>6, <1>7, <1>8, <1>9, <1>10, <1>11 DEF Next, WriteStep

(* What clients had been told when the search began, it must account for.  *)
LEMMA SureStep ==
  TypeOK /\ DeletesKnown /\ AckInv /\ SureInv /\ [Next]_vars => SureInv'
<1> SUFFICES ASSUME TypeOK, DeletesKnown, AckInv, SureInv, [Next]_vars,
                    NEW r \in sure', r.key \notin gone'
             PROVE  Awaited(r)'
  BY DEF SureInv
<1>1. ASSUME UNCHANGED <<shardVars, sure>>, gone \subseteq gone' PROVE Awaited(r)'
  BY <1>1 DEF SureInv, Awaited, Holds, ShardFor, shardVars
<1>2. ASSUME NEW c \in Running, NEW code, Served(c, code), UNCHANGED <<gone, sure>>,
             c.req.op = "del" => c.req.key \in gone
      PROVE  Awaited(r)'
  BY <1>2, ServedKeepsLive DEF SureInv, TypeOK
<1>3. ASSUME NEW k \in Ks, NEW partial \in BOOLEAN, SearchCall(k, partial) PROVE Awaited(r)'
  <2>1. /\ sure' = acked /\ slots' = slots /\ gone' = gone
        /\ must' = {m \in Shards \X (1 .. Capacity) : m[2] \in Live(m[1])}
    BY <1>3 DEF SearchCall, writeVars
  <2>2. r \in Requests /\ Lives(r)
    BY <2>1 DEF TypeOK, AckInv, Stays
  <2>3. PICK i \in Live(ShardFor(r.key)) : Holds(ShardFor(r.key), i, r.key, r.vec)
    BY <2>2 DEF Lives
  <2>4. ShardFor(r.key) \in Shards
    BY <2>2, RequestFields
  <2>5. i \in Nat /\ i \in 1 .. Capacity
    BY <2>3, <2>4, SlotFacts
  <2>6. <<ShardFor(r.key), i>> \in must'
    BY <2>1, <2>3, <2>4, <2>5
  <2> QED
    BY <2>1, <2>3, <2>5, <2>6 DEF Awaited, Holds, ShardFor
<1>4. ASSUME NEW s \in Shards, SearchServed(s) \/ Collect(s) \/ CallFails(s) PROVE Awaited(r)'
  BY <1>1, <1>4 DEF SearchServed, Collect, CallFails, writeVars
<1>5. CASE Expire \/ SearchReturns \/ UNCHANGED vars
  BY <1>1, <1>5 DEF Expire, SearchReturns, writeVars, shardVars, vars
<1>6. ASSUME NEW w \in Writers,
             \/ \E q \in Requests : WriteCall(w, q)
             \/ WriteChecked(w) \/ WriteReturns(w) \/ WriteFails(w)
      PROVE  Awaited(r)'
  BY <1>1, <1>6 DEF WriteCall, WriteChecked, WriteReturns, WriteFails, searchVars
<1>7. ASSUME NEW w \in Writers, WriteServed(w) PROVE Awaited(r)'
  <2>1. wr[w] \in Running /\ UNCHANGED <<gone, sure>> /\ \E code \in Codes : Served(wr[w], code)
    BY <1>7 DEF WriteServed, searchVars
  <2> QED
    BY <1>2, <2>1 DEF DeletesKnown
<1>8. ASSUME NEW c \in late, LateChecked(c) PROVE Awaited(r)'
  BY <1>1, <1>8 DEF LateChecked, searchVars
<1>9. ASSUME NEW c \in late, LateServed(c) PROVE Awaited(r)'
  <2>1. UNCHANGED <<gone, sure>> /\ (\E code \in Codes : Served(c, code)) /\ c \in Running
    BY <1>9 DEF LateServed, searchVars, TypeOK
  <2> QED
    BY <1>2, <2>1 DEF DeletesKnown
<1> QED
  BY <1>3, <1>4, <1>5, <1>6, <1>7, <1>8, <1>9 DEF Next, WriteStep, SearchStep

(* A client finds what it was told is stored, whatever is retried, served  *)
(* late or lost, and although two Inserts of one key may both be served.   *)
THEOREM AckedFound == Spec => []AckedAreFound
<1>1. Init => DeletesKnown /\ AckInv /\ SureInv
  BY DEF Init, DeletesKnown, AckInv, SureInv, NoCall, Running
<1>2. TypeOK /\ SearchInv /\ SureInv => AckedAreFound
  <2> SUFFICES ASSUME TypeOK, SearchInv, SureInv, answer.code = "OK", NEW r \in sure,
                      r.key \notin gone, rpc[ShardFor(r.key)] = "done"
               PROVE  \/ \E x \in answer.results : x.key = r.key /\ x.dist = r.vec
                      \/ /\ Cardinality(answer.results) = ask.k
                         /\ \A x \in answer.results : x.dist <= r.vec
    BY DEF AckedAreFound
  <2> DEFINE h == ShardFor(r.key)
  <2>1. PICK i \in Nat : <<h, i>> \in must /\ Holds(h, i, r.key, r.vec)
    BY DEF SureInv, Awaited
  <2>2. h \in Shards
    BY RequestFields DEF TypeOK
  <2>3. Kept(ask.k, r.vec, answer.results, h, i)
    BY <2>1, <2>2 DEF SearchInv, FoundInv, Accounted, Holds
  <2>4. \A x \in answer.results : x.shard = h /\ x.slot = i => x.key = r.key /\ x.dist = r.vec
    BY <2>1 DEF SearchInv, StoredInv, Holds
  <2> QED
    BY <2>3, <2>4 DEF Kept
<1> QED
  BY <1>1, <1>2, TypeCorrect, SearchInit, SearchInvStep, DeletesStep, AckStep, SureStep, PTL DEF Spec
=============================================================================
