---------------------------- MODULE MCHnswQuery ----------------------------
(***************************************************************************)
(* Instances of HnswActive for TLC: vectors 0, 1 and 3, a query at 2 and  *)
(* a half (all doubled).                                                   *)
(***************************************************************************)
EXTENDS HnswActive

CONSTANTS t1, t2, t3

Points == (t1 :> 0 @@ t2 :> 2 @@ t3 :> 6)
Vectors == [t \in Threads |-> Points[t]]
OwnLabels == [t \in Threads |-> t]
=============================================================================
