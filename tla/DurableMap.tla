----------------------------- MODULE DurableMap -----------------------------
(***************************************************************************)
(* What durable.Index promises its clients, with no file, no lock and no   *)
(* log in sight: a map that survives crashes.  A request takes effect at   *)
(* one instant between its call and its return, its answer is the one the  *)
(* map gave at that instant, an answer other than "error" is given only    *)
(* after that instant, and a crash loses no effect: it only breaks off the *)
(* calls in progress.                                                      *)
(***************************************************************************)
EXTENDS KeyTable

CONSTANT Clients

VARIABLES
  tab,   \* the durable map
  pend   \* pend[c]: the request of client c in progress

NoCall == [st |-> "idle"]

MapInit ==
  /\ tab = EmptyTable
  /\ pend = [c \in Clients |-> NoCall]

Begin(c, r) ==
  /\ pend[c] = NoCall
  /\ pend' = [pend EXCEPT ![c] = [st |-> "called", req |-> r]]
  /\ UNCHANGED tab

Commit(c) ==
  /\ pend[c].st = "called"
  /\ tab' = Applied(tab, pend[c].req)
  /\ pend' = [pend EXCEPT ![c] = [st |-> "done", ans |-> Code(tab, pend[c].req)]]

\* The client gets pend[c].ans.
Answer(c) ==
  /\ pend[c].st = "done"
  /\ pend' = [pend EXCEPT ![c] = NoCall]
  /\ UNCHANGED tab

\* The client gets an error: the request has no effect.
Refuse(c) ==
  /\ pend[c].st = "called"
  /\ pend' = [pend EXCEPT ![c] = NoCall]
  /\ UNCHANGED tab

BreakOff ==
  /\ pend' = [c \in Clients |-> NoCall]
  /\ UNCHANGED tab

MapNext ==
  \/ \E c \in Clients : \/ \E r \in Record : Begin(c, r)
                        \/ Commit(c) \/ Answer(c) \/ Refuse(c)
  \/ BreakOff

MapSpec == MapInit /\ [][MapNext]_<<tab, pend>>
=============================================================================
