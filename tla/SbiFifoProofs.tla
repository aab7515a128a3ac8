---------------------------- MODULE SbiFifoProofs ----------------------------
(***************************************************************************)
(* Proofs about the ring buffer of lib/sbi/sbi_fifo.c, for any number of   *)
(* entries that fits the u16 field, any contents and any callback.         *)
(***************************************************************************)
EXTENDS SbiFifo, SequenceTheorems, TLAPS

-----------------------------------------------------------------------------
(* The slots of the entries in use lie in the ring and are distinct.       *)
LEMMA SlotProps ==
  ASSUME NEW t \in 0 .. Entries - 1
  PROVE  /\ \A i \in 0 .. Entries - 1 : Slot(t, i) \in 0 .. Entries - 1
         /\ \A i, j \in 0 .. Entries - 1 : Slot(t, i) = Slot(t, j) => i = j
         /\ Slot(t, 0) = t
<1>1. Entries \in Nat
  BY EntriesAssumption
<1>2. \A i \in 0 .. Entries - 1 : Slot(t, i) \in 0 .. Entries - 1
  BY <1>1 DEF Slot
<1>3. \A i, j \in 0 .. Entries - 1 : Slot(t, i) = Slot(t, j) => i = j
  BY <1>1 DEF Slot
<1>4. Slot(t, 0) = t
  BY <1>1 DEF Slot
<1> QED
  BY <1>2, <1>3, <1>4

(* The callback's results.                                                 *)
LEMMA CallbackType ==
  ASSUME NEW d \in Data, NEW e \in Data
  PROVE  Callback[d][e].verdict \in Verdicts /\ Callback[d][e].entry \in Data
BY CallbackAssumption

(* One operation keeps the ring's invariant.                               *)
LEMMA NextRingInv == RingInv /\ [Next]_vars => RingInv'
<1> SUFFICES ASSUME RingInv, [Next]_vars PROVE RingInv'
  OBVIOUS
<1>t. RingTypeOK /\ Entries \in Nat
  BY EntriesAssumption DEF RingInv, Index
<1>w. \A i \in 0 .. avail - 1 : slots[Slot(tail, i)] \in Data
  BY DEF RingInv, Index
<1>1. ASSUME NEW d \in Data, Enqueue(d) PROVE RingInv'
  <2>1. CASE IsFull
    BY <1>1, <2>1 DEF Enqueue, RingInv, RingTypeOK, Index
  <2>2. CASE ~IsFull
    <3>1. avail \in 0 .. Entries - 1 /\ avail' = avail + 1 /\ tail' = tail
      BY <1>1, <1>t, <2>2 DEF Enqueue, IsFull, RingTypeOK
    <3>2. /\ slots' = [slots EXCEPT ![Slot(tail, avail)] = d]
          /\ Slot(tail, avail) \in 0 .. Entries - 1
      BY <1>1, <1>t, <2>2, <3>1, SlotProps DEF Enqueue, RingTypeOK, Index
    <3>3. \A i \in 0 .. avail : Slot(tail', i) = Slot(tail, i)
      BY <3>1
    <3>4. \A i \in 0 .. avail : slots'[Slot(tail, i)] \in Data
      <4> SUFFICES ASSUME NEW i \in 0 .. avail PROVE slots'[Slot(tail, i)] \in Data
        OBVIOUS
      <4>1. i \in 0 .. Entries - 1 /\ Slot(tail, i) \in 0 .. Entries - 1
        <5>1. i \in 0 .. Entries - 1
          BY <3>1, <1>t
        <5> QED
          BY <5>1, <1>t, SlotProps DEF RingTypeOK
      <4>2. CASE i = avail
        BY <1>t, <3>2, <4>2 DEF RingTypeOK
      <4>3. CASE i # avail
        <5>1. i \in 0 .. avail - 1
          BY <3>1, <1>t, <4>3
        <5>2. Slot(tail, i) # Slot(tail, avail)
          BY <3>1, <1>t, <4>1, <4>3, SlotProps DEF RingTypeOK
        <5> QED
          BY <1>t, <1>w, <3>2, <4>1, <5>1, <5>2 DEF RingTypeOK
      <4> QED
        BY <4>2, <4>3
    <3>5. \A i \in 0 .. avail' - 1 : slots'[Slot(tail', i)] \in Data
      BY <3>1, <3>3, <3>4
    <3>6. RingTypeOK'
      BY <1>t, <3>1, <3>2 DEF RingTypeOK
    <3> QED
      BY <3>5, <3>6 DEF RingInv, Index
  <2> QED
    BY <2>1, <2>2
<1>2. ASSUME NEW d \in Data, InplaceUpdate(d) PROVE RingInv'
  <2>1. CASE UNCHANGED slots
    BY <1>2, <2>1 DEF InplaceUpdate, RingInv, RingTypeOK, Index
  <2>2. ASSUME NEW i \in 0 .. avail - 1,
               slots' = [slots EXCEPT ![Slot(tail, i)] = Callback[d][slots[Slot(tail, i)]].entry]
        PROVE  RingInv'
    <3>1. tail' = tail /\ avail' = avail
      BY <1>2 DEF InplaceUpdate, Index
    <3>2. Callback[d][slots[Slot(tail, i)]].entry \in Data
      BY <1>w, CallbackType
    <3>3. \A j \in 0 .. avail - 1 : Slot(tail, j) \in 0 .. Entries - 1
      BY <1>t, SlotProps DEF RingTypeOK
    <3>4. \A j \in 0 .. avail - 1 : Slot(tail', j) = Slot(tail, j)
      BY <3>1
    <3>5. RingTypeOK'
      BY <1>t, <2>2, <3>1, <3>2 DEF RingTypeOK
    <3>6. \A j \in 0 .. avail - 1 : slots'[Slot(tail, j)] \in Data
      BY <1>t, <1>w, <2>2, <3>2, <3>3 DEF RingTypeOK
    <3> QED
      BY <3>1, <3>4, <3>5, <3>6 DEF RingInv, Index
  <2> QED
    BY <1>2, <2>1, <2>2 DEF InplaceUpdate, Index
<1>3. CASE Dequeue
  <2>1. CASE IsEmpty
    BY <1>3, <2>1 DEF Dequeue, RingInv, RingTypeOK, Index
  <2>2. CASE ~IsEmpty
    <3>1. /\ avail' = avail - 1 /\ slots' = slots /\ avail \in 1 .. Entries
          /\ tail' = IF tail + 1 >= Entries THEN 0 ELSE tail + 1
      BY <1>3, <1>t, <2>2 DEF Dequeue, IsEmpty, RingTypeOK
    <3>2. RingTypeOK'
      BY <1>t, <3>1 DEF RingTypeOK
    <3>3. \A i \in 0 .. avail' - 1 : Slot(tail', i) = Slot(tail, i + 1) /\ i + 1 \in 0 .. avail - 1
      BY <1>t, <3>1 DEF Slot, RingTypeOK
    <3> QED
      BY <1>w, <3>1, <3>2, <3>3 DEF RingInv, Index
  <2> QED
    BY <2>1, <2>2
<1>4. CASE Reset
  <2>1. RingTypeOK'
    BY <1>4, <1>t DEF Reset, RingTypeOK
  <2>2. avail' = 0
    BY <1>4 DEF Reset
  <2> QED
    BY <2>1, <2>2 DEF RingInv, Index
<1>5. CASE Inquire \/ UNCHANGED vars
  BY <1>5 DEF Inquire, vars, RingInv, RingTypeOK, Index
<1> QED
  BY <1>1, <1>2, <1>3, <1>4, <1>5 DEF Next

(* No operation of sbi_fifo.c indexes outside the queue memory or counts   *)
(* an entry that no caller wrote.                                          *)
THEOREM RingInvariance == Spec => []RingInv
<1>1. Init => RingInv
  BY EntriesAssumption DEF Init, RingInv, RingTypeOK, Index
<1> QED
  BY <1>1, NextRingInv, PTL DEF Spec
-----------------------------------------------------------------------------
(* The ring implements the bounded queue.                                  *)

(* The contents of the ring, read from slot t on, form a sequence.         *)
LEMMA RingSequence ==
  ASSUME NEW t, NEW n \in Nat, NEW m,
         \A i \in 0 .. n - 1 : m[Slot(t, i)] \in Data,
         NEW c, c = [i \in 1 .. n |-> m[Slot(t, i - 1)]]
  PROVE  /\ c \in Seq(Data)
         /\ Len(c) = n
         /\ DOMAIN c = 1 .. n
         /\ \A i \in 1 .. n : c[i] = m[Slot(t, i - 1)]
<1>1. \A i \in 1 .. n : i - 1 \in 0 .. n - 1
  OBVIOUS
<1>2. \A i \in 1 .. n : m[Slot(t, i - 1)] \in Data
  BY <1>1
<1> QED
  BY <1>2

(* The requests in the ring form a sequence of length avail, before ...    *)
LEMMA ContentsShape ==
  ASSUME RingInv
  PROVE  /\ Contents \in Seq(Data)
         /\ Len(Contents) = avail
         /\ DOMAIN Contents = 1 .. avail
         /\ \A i \in 1 .. avail : Contents[i] = slots[Slot(tail, i - 1)]
<1>1. avail \in 0 .. Entries /\ \A i \in 0 .. avail - 1 : slots[Slot(tail, i)] \in Data
  BY DEF RingInv, RingTypeOK, Index
<1>2. avail \in Nat
  BY <1>1, EntriesAssumption
<1>3. Contents = [i \in 1 .. avail |-> slots[Slot(tail, i - 1)]]
  BY DEF Contents, Index
<1> QED
  BY <1>1, <1>2, <1>3, RingSequence

(* ... and after an operation.                                             *)
LEMMA ContentsShapeNext ==
  ASSUME RingInv'
  PROVE  /\ Contents' \in Seq(Data)
         /\ Len(Contents') = avail'
         /\ \A i \in 1 .. avail' : Contents'[i] = slots'[Slot(tail', i - 1)]
<1>1. avail' \in 0 .. Entries /\ \A i \in 0 .. avail' - 1 : slots'[Slot(tail', i)] \in Data
  BY DEF RingInv, RingTypeOK, Index
<1>2. Contents' = [i \in 1 .. avail' |-> slots'[Slot(tail', i - 1)]]
  BY DEF Contents, Index
<1>3. ASSUME NEW n, n = avail', NEW m, m = slots', NEW t, t = tail', NEW c, c = Contents'
      PROVE  c \in Seq(Data) /\ Len(c) = n /\ \A i \in 1 .. n : c[i] = m[Slot(t, i - 1)]
  <2>1. n \in 0 .. Entries /\ \A i \in 0 .. n - 1 : m[Slot(t, i)] \in Data
    BY <1>1, <1>3
  <2>2. n \in Nat
    BY <2>1, EntriesAssumption
  <2>3. c = [i \in 1 .. n |-> m[Slot(t, i - 1)]]
    BY <1>2, <1>3
  <2> HIDE <1>3
  <2> QED
    BY <2>1, <2>2, <2>3, RingSequence
<1> QED
  BY <1>3

(* sbi_fifo_enqueue appends, or reports a full queue.                      *)
LEMMA EnqueueRefines ==
  ASSUME RingInv, RingInv', NEW d \in Data, Enqueue(d)
  PROVE  Queue!Enqueue(d)
<1>n. Entries \in Nat
  BY EntriesAssumption
<1>t. /\ tail \in 0 .. Entries - 1 /\ avail \in 0 .. Entries /\ Entries \in Nat
      /\ slots \in [0 .. Entries - 1 -> Data \cup {Zero}]
  BY <1>n DEF RingInv, RingTypeOK
<1>1. CASE IsFull
  <2>1. Contents' = Contents
    BY <1>1 DEF Enqueue, Contents, Index
  <2>2. Len(Contents) = Entries
    BY <1>1, ContentsShape DEF IsFull
  <2> QED
    BY <1>1, <2>1, <2>2 DEF Enqueue, Return, Queue!Enqueue, Queue!Return
<1>2. CASE ~IsFull
  <2>1. /\ avail \in 0 .. Entries - 1 /\ avail' = avail + 1 /\ tail' = tail
        /\ slots' = [slots EXCEPT ![Slot(tail, avail)] = d]
    BY <1>2, <1>t DEF Enqueue, IsFull, Index
  <2>2. \A i \in 0 .. avail : Slot(tail', i) = Slot(tail, i)
    BY <2>1
  <2>3. \A i \in 1 .. avail : Contents'[i] = Contents[i]
    <3> SUFFICES ASSUME NEW i \in 1 .. avail PROVE Contents'[i] = Contents[i]
      OBVIOUS
    <3>1. i - 1 \in 0 .. Entries - 1 /\ i - 1 # avail /\ avail \in 0 .. Entries - 1
      BY <1>t, <2>1
    <3>2. Slot(tail, i - 1) # Slot(tail, avail) /\ Slot(tail, i - 1) \in 0 .. Entries - 1
      BY <1>t, <3>1, SlotProps
    <3>3. slots'[Slot(tail, i - 1)] = slots[Slot(tail, i - 1)]
      BY <1>t, <2>1, <3>2
    <3>4. Contents'[i] = slots'[Slot(tail', i - 1)]
      BY <1>t, <2>1, ContentsShapeNext
    <3>5. Slot(tail', i - 1) = Slot(tail, i - 1)
      BY <1>t, <2>2
    <3> QED
      BY <3>3, <3>4, <3>5, ContentsShape
  <2>4. Contents'[avail + 1] = d
    <3>1. Contents'[avail + 1] = slots'[Slot(tail', avail)]
      <4>1. avail + 1 \in 1 .. avail' /\ (avail + 1) - 1 = avail
        BY <1>t, <2>1
      <4> QED
        BY <4>1, ContentsShapeNext
    <3>2. Slot(tail', avail) = Slot(tail, avail) /\ Slot(tail, avail) \in 0 .. Entries - 1
      BY <1>t, <2>1, <2>2, SlotProps
    <3> QED
      BY <1>t, <2>1, <3>1, <3>2
  <2>5. Contents' = Append(Contents, d)
    <3>1. /\ Append(Contents, d) \in Seq(Data)
          /\ Len(Append(Contents, d)) = avail + 1
          /\ \A i \in 1 .. avail : Append(Contents, d)[i] = Contents[i]
          /\ Append(Contents, d)[avail + 1] = d
      BY ContentsShape, AppendProperties
    <3>2. \A i \in 1 .. avail + 1 : i \in 1 .. avail \/ i = avail + 1
      BY <1>t
    <3>3. \A i \in 1 .. avail + 1 : Contents'[i] = Append(Contents, d)[i]
      BY <2>3, <2>4, <3>1, <3>2
    <3>4. Contents' \in Seq(Data) /\ Len(Contents') = avail + 1
      BY <2>1, ContentsShapeNext
    <3> QED
      BY <3>1, <3>3, <3>4, SeqEqual
  <2>6. Len(Contents) # Entries
    BY <1>2, ContentsShape DEF IsFull
  <2> QED
    BY <1>2, <2>5, <2>6 DEF Enqueue, Return, Queue!Enqueue, Queue!Return
<1> QED
  BY <1>1, <1>2

(* sbi_fifo_dequeue delivers the oldest request.                           *)
LEMMA DequeueRefines ==
  ASSUME RingInv, RingInv', Dequeue
  PROVE  Queue!Dequeue
<1>n. Entries \in Nat
  BY EntriesAssumption
<1>t. tail \in 0 .. Entries - 1 /\ avail \in 0 .. Entries /\ Entries \in Nat
  BY <1>n DEF RingInv, RingTypeOK
<1>1. CASE IsEmpty
  <2>1. Contents' = Contents
    BY <1>1 DEF Dequeue, Contents, Index
  <2>2. Contents = << >>
    BY <1>1, ContentsShape, EmptySeq DEF IsEmpty
  <2> QED
    BY <1>1, <2>1, <2>2 DEF Dequeue, Return, Queue!Dequeue, Queue!Return
<1>2. CASE ~IsEmpty
  <2>1. /\ avail \in 1 .. Entries /\ avail' = avail - 1 /\ slots' = slots
        /\ tail' = IF tail + 1 >= Entries THEN 0 ELSE tail + 1
    BY <1>2, <1>t DEF Dequeue, IsEmpty
  <2>2. Contents # << >> /\ Contents \in Seq(Data) /\ Len(Contents) = avail
    BY <2>1, ContentsShape, EmptySeq
  <2>3. Head(Contents) = slots[tail]
    <3>1. Head(Contents) = Contents[1]
      BY <2>2
    <3>2. Slot(tail, 0) = tail
      BY <1>t, SlotProps
    <3> QED
      BY <2>1, <3>1, <3>2, ContentsShape
  <2>4. \A i \in 0 .. avail - 2 : Slot(tail', i) = Slot(tail, i + 1)
    BY <1>t, <2>1 DEF Slot
  <2>5. \A i \in 1 .. avail - 1 : Contents'[i] = Contents[i + 1]
    <3> SUFFICES ASSUME NEW i \in 1 .. avail - 1 PROVE Contents'[i] = Contents[i + 1]
      OBVIOUS
    <3>1. Contents'[i] = slots'[Slot(tail', i - 1)]
      BY <1>t, <2>1, ContentsShapeNext
    <3>2. i - 1 \in 0 .. avail - 2 /\ (i - 1) + 1 = i /\ (i + 1) - 1 = i /\ i + 1 \in 1 .. avail
      BY <2>1
    <3>3. Slot(tail', i - 1) = Slot(tail, i)
      BY <2>4, <3>2
    <3>4. Contents[i + 1] = slots[Slot(tail, i)]
      BY <3>2, ContentsShape
    <3> QED
      BY <2>1, <3>1, <3>3, <3>4
  <2>6. Contents' = Tail(Contents)
    <3>1. /\ Tail(Contents) \in Seq(Data)
          /\ Len(Tail(Contents)) = avail - 1
          /\ \A i \in 1 .. avail - 1 : Tail(Contents)[i] = Contents[i + 1]
      BY <2>2, HeadTailProperties
    <3>2. Contents' \in Seq(Data) /\ Len(Contents') = avail - 1
      BY <2>1, ContentsShapeNext
    <3>3. \A i \in 1 .. avail - 1 : Contents'[i] = Tail(Contents)[i]
      BY <2>5, <3>1
    <3> QED
      BY <3>1, <3>2, <3>3, SeqEqual
  <2> QED
    BY <1>2, <2>2, <2>3, <2>6 DEF Dequeue, Return, Queue!Dequeue, Queue!Return
<1> QED
  BY <1>1, <1>2

(* sbi_fifo_inplace_update merges into the oldest candidate.               *)
LEMMA InplaceUpdateRefines ==
  ASSUME RingInv, RingInv', NEW d \in Data, InplaceUpdate(d)
  PROVE  Queue!Merge(d)
<1>n. Entries \in Nat
  BY EntriesAssumption
<1>t. /\ tail \in 0 .. Entries - 1 /\ avail \in 0 .. Entries /\ avail \in Nat
      /\ slots \in [0 .. Entries - 1 -> Data \cup {Zero}]
  BY <1>n DEF RingInv, RingTypeOK
<1>k. tail' = tail /\ avail' = avail
  BY DEF InplaceUpdate
<1> DEFINE hit(e) == Callback[d][e].verdict # "unchanged"
           ringHits == {i \in 0 .. avail - 1 : hit(slots[Slot(tail, i)])}
           hits == {i \in DOMAIN Contents : hit(Contents[i])}
<1>c. /\ Contents \in Seq(Data) /\ Len(Contents) = avail
      /\ DOMAIN Contents = 1 .. avail
      /\ \A i \in 1 .. avail : Contents[i] = slots[Slot(tail, i - 1)]
  BY ContentsShape
<1>h. \A i \in 1 .. avail : i \in hits <=> i - 1 \in ringHits
  <2> SUFFICES ASSUME NEW i \in 1 .. avail PROVE i \in hits <=> i - 1 \in ringHits
    OBVIOUS
  <2>1. i - 1 \in 0 .. avail - 1
    BY <1>t
  <2>2. Contents[i] = slots[Slot(tail, i - 1)]
    BY <1>c
  <2> QED
    BY <1>c, <2>1, <2>2
<1>1. CASE ringHits = {} /\ Return("unchanged", 0, Zero) /\ UNCHANGED slots
  <2>1. hits = {}
    BY <1>1, <1>c, <1>h
  <2>2. Contents' = Contents
    BY <1>1, <1>k DEF Contents, Index
  <2> QED
    BY <1>1, <2>1, <2>2 DEF Return, Queue!Merge, Queue!Return
<1>2. ASSUME NEW k \in ringHits, \A j \in ringHits : k <= j,
             Return(Callback[d][slots[Slot(tail, k)]].verdict, 0, Zero),
             slots' = [slots EXCEPT ![Slot(tail, k)] = Callback[d][slots[Slot(tail, k)]].entry]
      PROVE  Queue!Merge(d)
  <2> DEFINE new == Callback[d][Contents[k + 1]].entry
  <2>1. /\ k \in 0 .. avail - 1 /\ k + 1 \in 1 .. avail /\ (k + 1) - 1 = k
        /\ k \in 0 .. Entries - 1
    BY <1>t, <1>n
  <2>2. k + 1 \in hits /\ Contents[k + 1] = slots[Slot(tail, k)]
    BY <1>2, <1>c, <1>h, <2>1
  <2>3. \A j \in hits : k + 1 <= j
    <3> SUFFICES ASSUME NEW j \in hits PROVE k + 1 <= j
      OBVIOUS
    <3>1. j \in 1 .. avail /\ j - 1 \in ringHits
      BY <1>c, <1>h
    <3>2. k <= j - 1
      BY <1>2, <3>1
    <3> QED
      BY <2>1, <3>1, <3>2
  <2>4. new \in Data
    BY <1>c, <2>1, <2>2, CallbackType, ElementOfSeq
  <2>5. Contents' = [Contents EXCEPT ![k + 1] = new]
    <3> HIDE DEF new
    <3>1. /\ [Contents EXCEPT ![k + 1] = new] \in Seq(Data)
          /\ Len([Contents EXCEPT ![k + 1] = new]) = avail
          /\ \A j \in 1 .. avail : [Contents EXCEPT ![k + 1] = new][j]
                                   = IF j = k + 1 THEN new ELSE Contents[j]
      BY <1>c, <2>1, <2>4, ExceptSeq
    <3>2. /\ Contents' \in Seq(Data) /\ Len(Contents') = avail
          /\ \A j \in 1 .. avail : Contents'[j] = slots'[Slot(tail, j - 1)]
      BY <1>k, ContentsShapeNext
    <3>3. slots' = [slots EXCEPT ![Slot(tail, k)] = new]
      BY <1>2, <2>2 DEF new
    <3>4. \A j \in 1 .. avail : Contents'[j] = IF j = k + 1 THEN new ELSE Contents[j]
      <4> SUFFICES ASSUME NEW j \in 1 .. avail
                   PROVE  Contents'[j] = IF j = k + 1 THEN new ELSE Contents[j]
        OBVIOUS
      <4>1. j - 1 \in 0 .. Entries - 1
        BY <1>t, <1>n
      <4>2. /\ Slot(tail, j - 1) \in 0 .. Entries - 1
            /\ Slot(tail, k) \in 0 .. Entries - 1
            /\ Slot(tail, j - 1) = Slot(tail, k) => j - 1 = k
        BY <1>t, <2>1, <4>1, SlotProps
      <4>3. CASE j = k + 1
        BY <1>t, <2>1, <3>2, <3>3, <4>2, <4>3
      <4>4. CASE j # k + 1
        <5>1. Slot(tail, j - 1) # Slot(tail, k)
          BY <2>1, <4>2, <4>4
        <5> QED
          BY <1>t, <1>c, <3>2, <3>3, <4>2, <4>4, <5>1
      <4> QED
        BY <4>3, <4>4
    <3>5. \A j \in 1 .. avail : Contents'[j] = [Contents EXCEPT ![k + 1] = new][j]
      BY <3>1, <3>4
    <3> QED
      BY <3>1, <3>2, <3>5, SeqEqual
  <2>6. Queue!Return(Callback[d][Contents[k + 1]].verdict, 0, Zero)
    BY <1>2, <2>2 DEF Return, Queue!Return
  <2> QED
    BY <2>2, <2>3, <2>5, <2>6 DEF Queue!Merge
<1> QED
  BY <1>1, <1>2 DEF InplaceUpdate, Index

(* sbi_fifo_reset empties the queue.                                       *)
LEMMA ResetRefines ==
  ASSUME RingInv', Reset
  PROVE  Queue!Reset
<1>1. avail' = 0
  BY DEF Reset
<1>2. Contents' = << >>
  BY <1>1, ContentsShapeNext, EmptySeq
<1> QED
  BY <1>2 DEF Reset, Return, Queue!Reset, Queue!Return

(* The inquiries report the queue's length.                                *)
LEMMA InquireRefines ==
  ASSUME RingInv, Inquire
  PROVE  Queue!Inquire
<1>1. Contents' = Contents
  BY DEF Inquire, Contents, Index
<1>2. Len(Contents) = avail /\ Contents \in Seq(Data)
  BY ContentsShape
<1>3. (Contents = << >>) <=> avail = 0
  BY <1>2, EmptySeq
<1> QED
  BY <1>1, <1>2, <1>3
  DEF Inquire, Return, Truth, IsFull, IsEmpty, Queue!Inquire, Queue!Return, Queue!Truth

(* The ring of sbi_fifo.c is a bounded FIFO queue.                         *)
THEOREM IsBoundedQueueHolds == Spec => IsBoundedQueue
<1>1. Init => Queue!Init
  BY DEF Init, Queue!Init, Contents
<1>2. RingInv /\ RingInv' /\ [Next]_vars => [Queue!Next]_<<Contents, ret>>
  <2> SUFFICES ASSUME RingInv, RingInv', [Next]_vars
               PROVE  [Queue!Next]_<<Contents, ret>>
    OBVIOUS
  <2>1. ASSUME NEW d \in Data, Enqueue(d) PROVE Queue!Next
    BY <2>1, EnqueueRefines DEF Queue!Next
  <2>2. ASSUME NEW d \in Data, InplaceUpdate(d) PROVE Queue!Next
    BY <2>2, InplaceUpdateRefines DEF Queue!Next
  <2>3. CASE Dequeue
    BY <2>3, DequeueRefines DEF Queue!Next
  <2>4. CASE Reset
    BY <2>4, ResetRefines DEF Queue!Next
  <2>5. CASE Inquire
    BY <2>5, InquireRefines DEF Queue!Next
  <2>6. CASE UNCHANGED vars
    BY <2>6 DEF vars, Contents, Index
  <2> QED
    BY <2>1, <2>2, <2>3, <2>4, <2>5, <2>6 DEF Next
<1> QED
  BY <1>1, <1>2, RingInvariance, PTL DEF Spec, IsBoundedQueue, Queue!Spec
=============================================================================
