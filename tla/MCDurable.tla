----------------------------- MODULE MCDurable -----------------------------
(***************************************************************************)
(* Instances of Durable for TLC.                                           *)
(***************************************************************************)
EXTENDS Durable, TLC

CONSTANTS c1, c2, k1, k2

\* One writer per key.
OwnKeys == (c1 :> {k1} @@ c2 :> {k2})

\* Every writer writes every key.
SharedKeys == [c \in Clients |-> Keys]

\* Swapping the clients together with their keys, and swapping the vectors,
\* changes nothing.
Swap == (c1 :> c2 @@ c2 :> c1 @@ k1 :> k2 @@ k2 :> k1)
Symmetry == Permutations(Vecs) \cup {Swap}
=============================================================================
