----------------------------- MODULE MCCluster -----------------------------
(***************************************************************************)
(* Instances of Cluster for TLC: two shards.  Writes go on at the first,   *)
(* which starts empty.  The second starts full, with a key twice and one   *)
(* of the two deleted, as two racing inserts and a delete leave it.        *)
(***************************************************************************)
EXTENDS Cluster, TLC

CONSTANTS a, b, c

Hash == (a :> 4 @@ b :> 5 @@ c :> 7)

Start == (0 :> << >> @@ 1 :> <<[key |-> c, vec |-> 3, deleted |-> FALSE],
                               [key |-> c, vec |-> 2, deleted |-> TRUE]>>)

Insert(k, v) == [op |-> "add", key |-> k, vec |-> v]
Delete(k) == [op |-> "del", key |-> k, vec |-> NoVec]

\* Two vectors for one key, its deletion, and a key there is no room for.
Rivals == {Insert(a, 1), Insert(a, 2), Delete(a), Insert(b, 1)}

\* One client that sends one Insert, again and again.
Retried == {Insert(a, 1)}
=============================================================================
