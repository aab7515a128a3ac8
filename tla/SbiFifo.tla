------------------------------- MODULE SbiFifo -------------------------------
(***************************************************************************)
(* The ring buffer of lib/sbi/sbi_fifo.c.  An operation runs under         *)
(* fifo->qlock from its first access to its last and is one step here;     *)
(* TicketLock shows that the lock gives that.  A NULL argument returns     *)
(* before the lock is taken and is not modelled.                           *)
(***************************************************************************)
EXTENDS Integers, Sequences

CONSTANTS
  Entries,    \* fifo->num_entries, a u16
  Data,       \* contents an entry may be given
  Zero,       \* contents of an entry cleared by sbi_memset; also: no data
  Callback    \* fptr of sbi_fifo_inplace_update, as a function of in and data

ASSUME EntriesAssumption == Entries \in Nat \ {0} /\ Entries < 65536

Verdicts == {"skip", "updated", "unchanged"}

(* The callbacks change the entry they are called on only when they return *)
(* SBI_FIFO_SKIP or SBI_FIFO_UPDATED (tlb_update_cb of sbi_tlb.c).         *)
ASSUME CallbackAssumption ==
  /\ Zero \notin Data
  /\ Callback \in [Data -> [Data -> [verdict : Verdicts, entry : Data]]]
  /\ \A d, e \in Data : Callback[d][e].verdict = "unchanged" => Callback[d][e].entry = e

VARIABLES
  tail,    \* fifo->tail, the oldest entry
  avail,   \* fifo->avail, the number of entries in use
  slots,   \* fifo->queue
  ret      \* what the last operation returned

vars == <<tail, avail, slots, ret>>

Return(code, count, data) == ret' = [code |-> code, count |-> count, data |-> data]

(* __sbi_fifo_is_full, __sbi_fifo_is_empty *)
IsFull == avail = Entries
IsEmpty == avail = 0

(* The slot of the i-th entry counted from slot t, and from tail.          *)
Slot(t, i) == IF t + i >= Entries THEN t + i - Entries ELSE t + i
Index(i) == Slot(tail, i)

(* sbi_fifo_init *)
Init ==
  /\ tail = 0
  /\ avail = 0
  /\ slots = [i \in 0 .. Entries - 1 |-> Zero]
  /\ ret = [code |-> "ok", count |-> 0, data |-> Zero]

(* sbi_fifo_enqueue, with __sbi_fifo_enqueue *)
Enqueue(d) ==
  IF IsFull
  THEN Return("ENOSPC", 0, Zero) /\ UNCHANGED <<tail, avail, slots>>
  ELSE /\ slots' = [slots EXCEPT ![Index(avail)] = d]
       /\ avail' = avail + 1
       /\ Return("ok", 0, Zero)
       /\ UNCHANGED tail

(* Variant of Dequeue: tail runs one past the end before it wraps.         *)
Dequeue_LateWrap ==
  IF IsEmpty
  THEN Return("ENOENT", 0, Zero) /\ UNCHANGED <<tail, avail, slots>>
  ELSE /\ Return("ok", 0, slots[tail])
       /\ avail' = avail - 1
       /\ tail' = IF tail + 1 > Entries THEN 0 ELSE tail + 1
       /\ UNCHANGED slots

(* sbi_fifo_dequeue *)
Dequeue ==
  IF IsEmpty
  THEN Return("ENOENT", 0, Zero) /\ UNCHANGED <<tail, avail, slots>>
  ELSE /\ Return("ok", 0, slots[tail])
       /\ avail' = avail - 1
       /\ tail' = IF tail + 1 >= Entries THEN 0 ELSE tail + 1
       /\ UNCHANGED slots

(* Variant of InplaceUpdate: the loop does not stop at the first hit.      *)
InplaceUpdate_NoBreak(d) ==
  LET new(i) == Callback[d][slots[Index(i)]]
  IN  /\ slots' = [s \in 0 .. Entries - 1 |->
                     IF \E i \in 0 .. avail - 1 : s = Index(i)
                     THEN Callback[d][slots[s]].entry ELSE slots[s]]
      /\ Return(IF IsEmpty THEN "unchanged" ELSE new(avail - 1).verdict, 0, Zero)
      /\ UNCHANGED <<tail, avail>>

(* sbi_fifo_inplace_update: the loop over the entries in use, oldest       *)
(* first, ends at the first one for which the callback returns anything    *)
(* but SBI_FIFO_UNCHANGED.                                                 *)
InplaceUpdate(d) ==
  LET verdict(i) == Callback[d][slots[Index(i)]].verdict
      hits == {i \in 0 .. avail - 1 : verdict(i) # "unchanged"}
  IN  /\ \/ /\ hits = {}
            /\ Return("unchanged", 0, Zero)
            /\ UNCHANGED slots
         \/ \E i \in hits :
              /\ \A j \in hits : i <= j
              /\ Return(verdict(i), 0, Zero)
              /\ slots' = [slots EXCEPT ![Index(i)] = Callback[d][slots[Index(i)]].entry]
      /\ UNCHANGED <<tail, avail>>

(* sbi_fifo_reset *)
Reset ==
  /\ avail' = 0
  /\ tail' = 0
  /\ slots' = [i \in 0 .. Entries - 1 |-> Zero]
  /\ Return("true", 0, Zero)

Truth(b) == IF b THEN "true" ELSE "false"

(* sbi_fifo_avail, sbi_fifo_is_full, sbi_fifo_is_empty *)
Inquire ==
  /\ \/ Return("ok", avail, Zero)
     \/ Return(Truth(IsFull), 0, Zero)
     \/ Return(Truth(IsEmpty), 0, Zero)
  /\ UNCHANGED <<tail, avail, slots>>

Next ==
  \/ \E d \in Data : Enqueue(d) \/ InplaceUpdate(d)
  \/ Dequeue
  \/ Reset
  \/ Inquire

Spec == Init /\ [][Next]_vars
-----------------------------------------------------------------------------
(* The requests in the ring, oldest first.                                 *)
Contents == [i \in 1 .. avail |-> slots[Index(i - 1)]]

RingTypeOK ==
  /\ tail \in 0 .. Entries - 1
  /\ avail \in 0 .. Entries
  /\ slots \in [0 .. Entries - 1 -> Data \cup {Zero}]

(* Every index the code computes is within the queue memory, no u16 field  *)
(* exceeds num_entries, and the entries in use were all written by a       *)
(* caller of sbi_fifo_enqueue, not cleared by sbi_memset.                  *)
RingInv ==
  /\ RingTypeOK
  /\ \A i \in 0 .. avail - 1 : slots[Index(i)] \in Data

Queue == INSTANCE BoundedQueue WITH Capacity <- Entries, NoData <- Zero, queue <- Contents

(* Through every wrap-around of tail the ring is a bounded queue: requests *)
(* leave in the order they came, none is lost, duplicated or overwritten,  *)
(* a merge reaches the oldest candidate, and each operation returns what   *)
(* the queue's contents call for.                                          *)
IsBoundedQueue == Queue!Spec
=============================================================================
