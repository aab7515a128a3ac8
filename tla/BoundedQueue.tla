----------------------------- MODULE BoundedQueue -----------------------------
(***************************************************************************)
(* What struct sbi_fifo promises its users: a bounded queue of requests,   *)
(* with an operation that lets a new request be merged into a waiting one. *)
(* Every operation is one step, and ret is what it returned.               *)
(***************************************************************************)
EXTENDS Naturals, Sequences

CONSTANTS
  Capacity,   \* how many requests the queue holds
  Data,       \* the requests
  NoData,     \* returned by the operations that deliver no request
  Callback    \* the merge function: a verdict and the waiting request as merged

VARIABLES queue, ret

Results ==
  [code  : {"ok", "ENOSPC", "ENOENT", "true", "false", "skip", "updated", "unchanged"},
   count : 0 .. Capacity,
   data  : Data \cup {NoData}]

Return(code, count, data) == ret' = [code |-> code, count |-> count, data |-> data]

Init ==
  /\ queue = << >>
  /\ ret = [code |-> "ok", count |-> 0, data |-> NoData]

Enqueue(d) ==
  IF Len(queue) = Capacity
  THEN Return("ENOSPC", 0, NoData) /\ UNCHANGED queue
  ELSE Return("ok", 0, NoData) /\ queue' = Append(queue, d)

Dequeue ==
  IF queue = << >>
  THEN Return("ENOENT", 0, NoData) /\ UNCHANGED queue
  ELSE Return("ok", 0, Head(queue)) /\ queue' = Tail(queue)

(* The oldest request that the callback does not leave alone is replaced   *)
(* by what the callback makes of it.                                       *)
Merge(d) ==
  LET hits == {i \in DOMAIN queue : Callback[d][queue[i]].verdict # "unchanged"}
  IN  \/ /\ hits = {}
         /\ Return("unchanged", 0, NoData)
         /\ UNCHANGED queue
      \/ \E i \in hits :
           /\ \A j \in hits : i <= j
           /\ Return(Callback[d][queue[i]].verdict, 0, NoData)
           /\ queue' = [queue EXCEPT ![i] = Callback[d][queue[i]].entry]

Reset == queue' = << >> /\ Return("true", 0, NoData)

Truth(b) == IF b THEN "true" ELSE "false"

Inquire ==
  /\ \/ Return("ok", Len(queue), NoData)
     \/ Return(Truth(Len(queue) = Capacity), 0, NoData)
     \/ Return(Truth(queue = << >>), 0, NoData)
  /\ UNCHANGED queue

Next ==
  \/ \E d \in Data : Enqueue(d) \/ Merge(d)
  \/ Dequeue
  \/ Reset
  \/ Inquire

Spec == Init /\ [][Next]_<<queue, ret>>
=============================================================================
