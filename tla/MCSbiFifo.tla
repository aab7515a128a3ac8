------------------------------ MODULE MCSbiFifo ------------------------------
(* Four entries and three requests, with a callback that keeps, drops and  *)
(* merges: requests are numbered by the extent they flush, a request falls *)
(* under a waiting one that is larger, replaces one that is smaller, and   *)
(* request 3 never merges.                                                 *)
EXTENDS SbiFifo

MCCallback ==
  [d \in Data |-> [e \in Data |->
     CASE d = 3 \/ e = 3 -> [verdict |-> "unchanged", entry |-> e]
       [] d <= e /\ e < 3 -> [verdict |-> "skip", entry |-> e]
       [] e < d /\ d < 3 -> [verdict |-> "updated", entry |-> d]]]
=============================================================================
