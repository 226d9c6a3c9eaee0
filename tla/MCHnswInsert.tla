---------------------------- MODULE MCHnswInsert ----------------------------
(***************************************************************************)
(* Instances of HnswInsert for TLC.  The vectors are 0, 1, 3 and 7: all    *)
(* distances between them differ.                                          *)
(***************************************************************************)
EXTENDS HnswInsert

CONSTANTS t1, t2, t3, t4

Points == (t1 :> 0 @@ t2 :> 1 @@ t3 :> 3 @@ t4 :> 7)
Vectors == [t \in Threads |-> Points[t]]

OwnLabels == [t \in Threads |-> t]
OneLabel  == [t \in Threads |-> "a"]
=============================================================================
