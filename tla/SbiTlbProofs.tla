----------------------------- MODULE SbiTlbProofs -----------------------------
EXTENDS SbiTlb, WellFoundedInduction, TLAPS

(* What the lowest hart of a set is: the order in which sbi_ipi_send_many  *)
(* and tlb_entry_process go through their masks.                           *)
LEMMA MinIn ==
  ASSUME NEW S \in SUBSET Nat, S # {}
  PROVE  Min(S) \in S
  <1> DEFINE R == {ss \in Nat \X Nat : ss[1] < ss[2]}
  <1>1. IsWellFoundedOn(R, Nat)
    BY NatLessThanWellFounded, Zenon DEF OpToRel
  <1> HIDE DEF R
  <1>2. PICK x \in S : \A y \in S : ~(<<y, x>> \in R)
    BY <1>1, WFMin
  <1>3. ASSUME NEW y \in S PROVE x <= y
    <2>1. x \in Nat /\ y \in Nat
      OBVIOUS
    <2>2. y < x => <<y, x>> \in R
      BY <2>1, Zenon DEF R
    <2> QED
      BY <1>2, <2>1, <2>2
  <1> QED
    BY <1>3 DEF Min

LEMMA TargetIn ==
  ASSUME TypeOK, NEW h \in Harts, todo[h] # {}
  PROVE  Target(h) \in todo[h] /\ Target(h) \in Harts
  <1>1. todo[h] \in SUBSET Harts /\ todo[h] \in SUBSET Nat
    BY TlbAssumption DEF TypeOK
  <1> QED
    BY <1>1, MinIn DEF Target

(* Requests, widened and merged entries are entries.                       *)
LEMMA TlbInfoType ==
  ASSUME NEW q \in Infos, NEW h \in Harts
  PROVE  TlbInfo(q, h) \in Entry
  <1>1. /\ q.fn \in Fns /\ q.start \in 0 .. Space - 1 /\ q.size \in 0 .. Space - 1
        /\ q.asid \in Asids /\ q.vmid \in Vmids
    BY DEF Infos
  <1>2. {h} \in (SUBSET Harts) \ {{}}
    OBVIOUS
  <1> QED
    BY <1>1, <1>2 DEF TlbInfo, Entry

LEMMA UpgradeType ==
  ASSUME NEW e \in Entry
  PROVE  Upgrade(e) \in Entry
  <1>1. 0 \in 0 .. Space - 1 /\ FlushAll \in 0 .. Space - 1
    BY TlbAssumption DEF FlushAll
  <1>2. [e EXCEPT !.start = 0, !.size = FlushAll] \in Entry
    BY <1>1 DEF Entry
  <1> QED
    BY <1>2 DEF Upgrade

LEMMA UpdateCbType ==
  ASSUME NEW curr \in Entry, NEW next \in Entry
  PROVE  UpdateCb(curr, next).entry \in Entry
  <1>1. /\ curr.smask \cup next.smask \in (SUBSET Harts) \ {{}}
        /\ next.start \in 0 .. Space - 1 /\ next.size \in 0 .. Space - 1
    BY DEF Entry
  <1>2. /\ [curr EXCEPT !.smask = @ \cup next.smask] \in Entry
        /\ [curr EXCEPT !.start = next.start, !.size = next.size, !.smask = @ \cup next.smask] \in Entry
    BY <1>1 DEF Entry
  <1> QED
    BY <1>2 DEF UpdateCb, RangeCheck

LEMMA UpdatedType ==
  ASSUME NEW q \in Seq(Entry), NEW e \in Entry, Hits(q, e) # {}
  PROVE  /\ Updated(q, e) \in Seq(Entry)
         /\ Len(Updated(q, e)) = Len(q)
         /\ q # << >>
  <1> DEFINE i == Min(Hits(q, e))
  <1>1. Hits(q, e) \in SUBSET Nat /\ \A j \in Hits(q, e) : j \in DOMAIN q
    BY DEF Hits
  <1>2. i \in DOMAIN q
    BY <1>1, MinIn
  <1>3. UpdateCb(q[i], e).entry \in Entry
    BY <1>2, UpdateCbType
  <1>4. Updated(q, e) = [q EXCEPT ![i] = UpdateCb(q[i], e).entry]
    BY <1>2 DEF Updated
  <1> HIDE DEF i
  <1> QED
    BY <1>2, <1>3, <1>4
-----------------------------------------------------------------------------
LEMMA StepCases ==
  ASSUME [Next]_vars
  PROVE  \/ UNCHANGED vars
         \/ \E h \in Harts :
              \/ Run(h) \/ TakeSsip(h) \/ Stop(h) \/ Corrupt(h) \/ \E g \in Harts : HartStart(h, g)
              \/ \E q \in Infos, mask \in SUBSET Harts : Request(h, q, mask)
              \/ \E mask \in SUBSET Harts : SendSmode(h, mask)
  <1>1. \A h \in Harts : \A a \in Asks[h] : a[1] \in Infos /\ a[2] \in SUBSET Harts
    BY TlbAssumption
  <1>2. \A h \in Harts : \A mask \in Ipis[h] : mask \in SUBSET Harts
    BY TlbAssumption
  <1> QED
    BY <1>1, <1>2 DEF Next, Choose

LEMMA TypeInit == Init => TypeOK
  BY TlbAssumption DEF Init, TypeOK, PCs, Count

LEMMA TypeNext ==
  ASSUME TypeOK, SendInv, [Next]_vars
  PROVE  TypeOK'
  <1> USE DEF TypeOK, PCs, SendPCs, WorkPCs, Goto, sendVars, workVars
  <1>1. ASSUME UNCHANGED vars PROVE TypeOK'
    BY <1>1 DEF vars
  <1>2. ASSUME NEW h \in Harts, NEW q \in Infos, NEW mask \in SUBSET Harts, Request(h, q, mask)
        PROVE  TypeOK'
    <2>1. TlbInfo(q, h) \in Entry
      BY TlbInfoType
    <2> QED
      BY <1>2, <2>1 DEF Request, SendMany
  <1>3. ASSUME NEW h \in Harts, NEW mask \in SUBSET Harts, SendSmode(h, mask) PROVE TypeOK'
    BY <1>3 DEF SendSmode, SendMany
  <1>4a. ASSUME NEW h \in Harts, SendDone(h) PROVE TypeOK'
    BY <1>4a DEF SendDone
  <1>4b. ASSUME NEW h \in Harts, NoUpdate(h) PROVE TypeOK'
    BY <1>4b DEF NoUpdate
  <1>5. ASSUME NEW h \in Harts, UpdateSelf(h) PROVE TypeOK'
    <2>1. info[h] \in Entry
      BY <1>5 DEF UpdateSelf, SendInv
    <2>2. Upgrade(info[h]) \in Entry
      BY <2>1, UpgradeType
    <2> QED
      BY <1>5, <2>2 DEF UpdateSelf
  <1>6. ASSUME NEW h \in Harts, Merge(h) PROVE TypeOK'
    <2> DEFINE e == Upgrade(info[h])
    <2>1. info[h] \in Entry /\ Target(h) \in Harts
      BY <1>6, TargetIn DEF Merge, SendInv
    <2>2. e \in Entry
      BY <2>1, UpgradeType
    <2>3. /\ Updated(fifo[Target(h)], e) \in Seq(Entry)
          /\ Len(Updated(fifo[Target(h)], e)) <= Entries
      BY <1>6, <2>1, <2>2, UpdatedType DEF Merge
    <2> QED
      BY <1>6, <2>1, <2>2, <2>3 DEF Merge
  <1>6a. ASSUME NEW h \in Harts, NoMerge(h) PROVE TypeOK'
    <2>1. info[h] \in Entry
      BY <1>6a DEF NoMerge, SendInv
    <2>2. Upgrade(info[h]) \in Entry
      BY <2>1, UpgradeType
    <2> QED
      BY <1>6a, <2>2 DEF NoMerge
  <1>7. ASSUME NEW h \in Harts, Enqueue(h) PROVE TypeOK'
    <2>1. info[h] \in Entry /\ Target(h) \in Harts
      BY <1>7, TargetIn DEF Enqueue, SendInv, Sending
    <2>2. /\ Append(fifo[Target(h)], info[h]) \in Seq(Entry)
          /\ Len(Append(fifo[Target(h)], info[h])) <= Entries
      <3>1. fifo[Target(h)] \in Seq(Entry)
        BY <2>1
      <3>2. /\ Append(fifo[Target(h)], info[h]) \in Seq(Entry)
            /\ Len(Append(fifo[Target(h)], info[h])) = Len(fifo[Target(h)]) + 1
            /\ Len(fifo[Target(h)]) \in Nat
        BY <2>1, <3>1
      <3> QED
        BY <1>7, <3>2, TlbAssumption DEF Enqueue
    <2> QED
      BY <1>7, <2>1, <2>2 DEF Enqueue
  <1>7a. ASSUME NEW h \in Harts, EnqueueFull(h) PROVE TypeOK'
    BY <1>7a DEF EnqueueFull, Serve, Count
  <1>8. ASSUME NEW h \in Harts, SetBit(h) PROVE TypeOK'
    BY <1>8 DEF SetBit
  <1>9. ASSUME NEW h \in Harts, Raise(h) PROVE TypeOK'
    <2>1. Target(h) \in Harts
      BY <1>9, TargetIn DEF Raise, SendInv, Sending
    <2> QED
      BY <1>9, <2>1 DEF Raise
  <1>10. ASSUME NEW h \in Harts, Sync(h) PROVE TypeOK'
    BY <1>10 DEF Sync
  <1>10a. ASSUME NEW h \in Harts, SyncWait(h) PROVE TypeOK'
    BY <1>10a DEF SyncWait, Serve, Count
  <1>11. ASSUME NEW h \in Harts, Dequeue(h) PROVE TypeOK'
    <2>1. fifo[h] \in Seq(Entry) /\ Len(fifo[h]) <= Entries
      OBVIOUS
    <2>2. Head(fifo[h]) \in Entry
      BY <1>11, <2>1 DEF Dequeue
    <2>3. Tail(fifo[h]) \in Seq(Entry) /\ Len(Tail(fifo[h])) = Len(fifo[h]) - 1
      BY <1>11, <2>1 DEF Dequeue
    <2>4. Head(fifo[h]).smask \in SUBSET Harts /\ Len(Tail(fifo[h])) <= Entries
      BY <2>1, <2>2, <2>3, TlbAssumption DEF Entry
    <2> QED
      BY <1>11, <2>3, <2>4 DEF Dequeue
  <1>11a. ASSUME NEW h \in Harts, DequeueEmpty(h) PROVE TypeOK'
    <2>1. ret[h] \in PCs
      OBVIOUS
    <2> QED
      BY <1>11a, <2>1, SMTT(30) DEF DequeueEmpty, ServiceDone, Count
  <1>12. ASSUME NEW h \in Harts, pc[h] = "ack" PROVE Min(acks[h]) \in Harts
    <2>1. acks[h] \in SUBSET Nat /\ acks[h] # {}
      BY <1>12, TlbAssumption DEF SendInv
    <2> QED
      BY <2>1, MinIn
  <1>12a. ASSUME NEW h \in Harts, Ack(h) PROVE TypeOK'
    BY <1>12, <1>12a DEF Ack, Acknowledge
  <1>12b. ASSUME NEW h \in Harts, AckLast(h) PROVE TypeOK'
    BY <1>12, <1>12b DEF AckLast, Acknowledge, Exceeded, Count
  <1>12c. ASSUME NEW h \in Harts, AckReturn(h) PROVE TypeOK'
    BY <1>12, <1>12c DEF AckReturn, Acknowledge, ServiceDone, Count
  <1>13a. ASSUME NEW h \in Harts, ClearIpi(h) PROVE TypeOK'
    BY <1>13a DEF ClearIpi
  <1>13b. ASSUME NEW h \in Harts, XchgType(h) PROVE TypeOK'
    BY <1>13b DEF XchgType
  <1>14a. ASSUME NEW h \in Harts, ProcessSmode(h) PROVE TypeOK'
    BY <1>14a DEF ProcessSmode
  <1>14b. ASSUME NEW h \in Harts, ProcessTlb(h) PROVE TypeOK'
    BY <1>14b DEF ProcessTlb, Serve, Count
  <1>14c. ASSUME NEW h \in Harts, ProcessDone(h) PROVE TypeOK'
    BY <1>14c DEF ProcessDone
  <1>15a. ASSUME NEW h \in Harts, TakeSsip(h) PROVE TypeOK'
    BY <1>15a DEF TakeSsip
  <1>15b. ASSUME NEW h \in Harts, Stop(h) PROVE TypeOK'
    BY <1>15b DEF Stop
  <1>16. ASSUME NEW h \in Harts, NEW g \in Harts, HartStart(h, g) PROVE TypeOK'
    BY <1>16 DEF HartStart
  <1>17a. ASSUME NEW h \in Harts, IpiInit(h) PROVE TypeOK'
    BY <1>17a DEF IpiInit
  <1>17b. ASSUME NEW h \in Harts, PlatformIpiInit(h) PROVE TypeOK'
    BY <1>17b DEF PlatformIpiInit
  <1>17c. ASSUME NEW h \in Harts, NextJump(h) PROVE TypeOK'
    BY <1>17c DEF NextJump
  <1>18. ASSUME NEW h \in Harts, TlbInit(h) PROVE TypeOK'
    BY <1>18 DEF TlbInit
  <1>19. \A q \in Debris \cup {<< >>} : q \in Seq(Entry) /\ Len(q) <= Entries
    <2>1. << >> \in Seq(Entry) /\ Len(<< >>) <= Entries
      BY TlbAssumption
    <2>2. \A q \in Debris : q \in Seq(Entry) /\ Len(q) <= Entries
      BY TlbAssumption
    <2> QED
      BY <2>1, <2>2, Zenon
  <1>20. ASSUME NEW h \in Harts, FifoInit(h) PROVE TypeOK'
    <2>1. \E q \in Debris \cup {<< >>} : fifo' = [fifo EXCEPT ![h] = q]
      BY <1>20 DEF FifoInit
    <2>2. fifo' \in [Harts -> Seq(Entry)] /\ \A g \in Harts : Len(fifo'[g]) <= Entries
      BY <1>19, <2>1
    <2> QED
      BY <1>20, <2>2 DEF FifoInit
  <1>21. ASSUME NEW h \in Harts, Corrupt(h) PROVE TypeOK'
    <2>1. fifo' \in [Harts -> Seq(Entry)] /\ \A g \in Harts : Len(fifo'[g]) <= Entries
      BY <1>19, <1>21 DEF Corrupt
    <2> QED
      BY <1>21, <2>1 DEF Corrupt
  <1> QED
    BY <1>1, <1>2, <1>3, <1>4a, <1>4b, <1>5, <1>6, <1>6a, <1>7, <1>7a, <1>8, <1>9, <1>10,
       <1>10a, <1>11, <1>11a, <1>12a, <1>12b, <1>12c, <1>13a, <1>13b, <1>14a, <1>14b, <1>14c,
       <1>15a, <1>15b, <1>16, <1>17a, <1>17b, <1>17c, <1>18, <1>20, <1>21, StepCases DEF Run
-----------------------------------------------------------------------------
(* Each part of the inductive invariant, action by action.                *)
LEMMA SendNext ==
  ASSUME TypeOK, SendInv, [Next]_vars
  PROVE  SendInv'
  <1> USE DEF TypeOK, SendInv, Sending, Serving, SendPCs, WorkPCs, Goto, sendVars, workVars
  <1>1. ASSUME UNCHANGED vars PROVE SendInv'
    BY <1>1 DEF vars
  <1>2. ASSUME NEW h \in Harts, NEW q \in Infos, NEW mask \in SUBSET Harts, Request(h, q, mask)
        PROVE  SendInv'
    <2>1. TlbInfo(q, h) # NoInfo
      BY TlbInfoType, NoInfoAssumption
    <2> QED
      BY <1>2, <2>1 DEF Request, SendMany
  <1>3. ASSUME NEW h \in Harts, NEW mask \in SUBSET Harts, SendSmode(h, mask) PROVE SendInv'
    BY <1>3 DEF SendSmode, SendMany
  <1>4. ASSUME NEW h \in Harts, SendDone(h) PROVE SendInv'
    BY <1>4 DEF SendDone
  <1>5. ASSUME NEW h \in Harts, NoUpdate(h) PROVE SendInv'
    BY <1>5 DEF NoUpdate
  <1>5a. ASSUME NEW h \in Harts, pc[h] = "send", event[h] = "tlb" PROVE Upgrade(info[h]) # NoInfo
    <2>1. info[h] \in Entry
      BY <1>5a
    <2> QED
      BY <2>1, UpgradeType, NoInfoAssumption
  <1>6. ASSUME NEW h \in Harts, UpdateSelf(h) PROVE SendInv'
    BY <1>5a, <1>6 DEF UpdateSelf
  <1>7. ASSUME NEW h \in Harts, Merge(h) PROVE SendInv'
    BY <1>5a, <1>7 DEF Merge
  <1>8. ASSUME NEW h \in Harts, NoMerge(h) PROVE SendInv'
    BY <1>5a, <1>8 DEF NoMerge
  <1>9. ASSUME NEW h \in Harts, Enqueue(h) PROVE SendInv'
    BY <1>9 DEF Enqueue
  <1>10. ASSUME NEW h \in Harts, EnqueueFull(h) PROVE SendInv'
    BY <1>10 DEF EnqueueFull, Serve
  <1>11. ASSUME NEW h \in Harts, SetBit(h) PROVE SendInv'
    BY <1>11 DEF SetBit
  <1>12. ASSUME NEW h \in Harts, Raise(h) PROVE SendInv'
    BY <1>12 DEF Raise
  <1>13. ASSUME NEW h \in Harts, Sync(h) PROVE SendInv'
    BY <1>13 DEF Sync
  <1>14. ASSUME NEW h \in Harts, SyncWait(h) PROVE SendInv'
    BY <1>14 DEF SyncWait, Serve
  <1>15. ASSUME NEW h \in Harts, Dequeue(h) PROVE SendInv'
    <2>1. Head(fifo[h]).smask # {}
      <3>1. fifo[h] \in Seq(Entry) /\ fifo[h] # << >>
        BY <1>15 DEF Dequeue
      <3>2. Head(fifo[h]) \in Entry
        BY <3>1
      <3> QED
        BY <3>2 DEF Entry
    <2> QED
      BY <1>15, <2>1 DEF Dequeue
  <1>16. ASSUME NEW h \in Harts, DequeueEmpty(h) PROVE SendInv'
    BY <1>16 DEF DequeueEmpty, ServiceDone
  <1>17. ASSUME NEW h \in Harts, Ack(h) PROVE SendInv'
    BY <1>17 DEF Ack, Acknowledge
  <1>18. ASSUME NEW h \in Harts, AckLast(h) PROVE SendInv'
    BY <1>18 DEF AckLast, Acknowledge
  <1>19. ASSUME NEW h \in Harts, AckReturn(h) PROVE SendInv'
    BY <1>19 DEF AckReturn, Acknowledge, ServiceDone, Exceeded
  <1>20. ASSUME NEW h \in Harts, ClearIpi(h) PROVE SendInv'
    BY <1>20 DEF ClearIpi
  <1>21. ASSUME NEW h \in Harts, XchgType(h) PROVE SendInv'
    BY <1>21 DEF XchgType
  <1>22. ASSUME NEW h \in Harts, ProcessSmode(h) PROVE SendInv'
    BY <1>22 DEF ProcessSmode
  <1>23. ASSUME NEW h \in Harts, ProcessTlb(h) PROVE SendInv'
    BY <1>23 DEF ProcessTlb, Serve
  <1>24. ASSUME NEW h \in Harts, ProcessDone(h) PROVE SendInv'
    BY <1>24 DEF ProcessDone
  <1>25. ASSUME NEW h \in Harts, TakeSsip(h) PROVE SendInv'
    BY <1>25 DEF TakeSsip
  <1>26. ASSUME NEW h \in Harts, Stop(h) PROVE SendInv'
    BY <1>26 DEF Stop
  <1>27. ASSUME NEW h \in Harts, IpiInit(h) PROVE SendInv'
    BY <1>27 DEF IpiInit
  <1>28. ASSUME NEW h \in Harts, PlatformIpiInit(h) PROVE SendInv'
    BY <1>28 DEF PlatformIpiInit
  <1>29. ASSUME NEW h \in Harts, TlbInit(h) PROVE SendInv'
    BY <1>29 DEF TlbInit
  <1>30. ASSUME NEW h \in Harts, NextJump(h) PROVE SendInv'
    BY <1>30 DEF NextJump
  <1>31. ASSUME NEW h \in Harts, NEW g \in Harts, HartStart(h, g) PROVE SendInv'
    BY <1>31 DEF HartStart
  <1>32. ASSUME NEW h \in Harts, FifoInit(h) PROVE SendInv'
    BY <1>32 DEF FifoInit
  <1>33. ASSUME NEW h \in Harts, Corrupt(h) PROVE SendInv'
    BY <1>33 DEF Corrupt
  <1> QED
    BY <1>1, <1>2, <1>3, <1>4, <1>5, <1>6, <1>7, <1>8, <1>9, <1>10, <1>11, <1>12, <1>13,
       <1>14, <1>15, <1>16, <1>17, <1>18, <1>19, <1>20, <1>21, <1>22, <1>23, <1>24, <1>25,
       <1>26, <1>27, <1>28, <1>29, <1>30, <1>31, <1>32, <1>33, StepCases DEF Run

LEMMA PendNext ==
  ASSUME TypeOK, SendInv, PendInv, [Next]_vars
  PROVE  PendInv'
  <1> USE DEF TypeOK, PendInv, Serving, WorkPCs, Goto, sendVars, workVars
  <1>1. ASSUME UNCHANGED vars PROVE PendInv'
    BY <1>1 DEF vars
  <1>2. ASSUME NEW h \in Harts, NEW q \in Infos, NEW mask \in SUBSET Harts, Request(h, q, mask)
        PROVE  PendInv'
    BY <1>2 DEF Request, SendMany
  <1>3. ASSUME NEW h \in Harts, NEW mask \in SUBSET Harts, SendSmode(h, mask) PROVE PendInv'
    BY <1>3 DEF SendSmode, SendMany
  <1>4. ASSUME NEW h \in Harts, SendDone(h) PROVE PendInv'
    BY <1>4 DEF SendDone
  <1>5. ASSUME NEW h \in Harts, NoUpdate(h) PROVE PendInv'
    BY <1>5 DEF NoUpdate
  <1>6. ASSUME NEW h \in Harts, UpdateSelf(h) PROVE PendInv'
    BY <1>6 DEF UpdateSelf
  <1>7. ASSUME NEW h \in Harts, Merge(h) PROVE PendInv'
    BY <1>7 DEF Merge
  <1>8. ASSUME NEW h \in Harts, NoMerge(h) PROVE PendInv'
    BY <1>8 DEF NoMerge
  <1>9. ASSUME NEW h \in Harts, Enqueue(h) PROVE PendInv'
    BY <1>9 DEF Enqueue
  <1>10. ASSUME NEW h \in Harts, EnqueueFull(h) PROVE PendInv'
    BY <1>10 DEF EnqueueFull, Serve
  <1>11. ASSUME NEW h \in Harts, SetBit(h) PROVE PendInv'
    BY <1>11 DEF SetBit
  <1>12. ASSUME NEW h \in Harts, Raise(h) PROVE PendInv'
    BY <1>12 DEF Raise
  <1>13. ASSUME NEW h \in Harts, Sync(h) PROVE PendInv'
    BY <1>13 DEF Sync
  <1>14. ASSUME NEW h \in Harts, SyncWait(h) PROVE PendInv'
    BY <1>14 DEF SyncWait, Serve
  <1>15. ASSUME NEW h \in Harts, Dequeue(h) PROVE PendInv'
    BY <1>15 DEF Dequeue
  <1>16. ASSUME NEW h \in Harts, DequeueEmpty(h) PROVE PendInv'
    BY <1>16 DEF DequeueEmpty, ServiceDone
  <1>17. ASSUME NEW h \in Harts, Ack(h) PROVE PendInv'
    BY <1>17 DEF Ack, Acknowledge
  <1>18. ASSUME NEW h \in Harts, AckLast(h) PROVE PendInv'
    BY <1>18 DEF AckLast, Acknowledge
  <1>19. ASSUME NEW h \in Harts, AckReturn(h) PROVE PendInv'
    BY <1>19 DEF AckReturn, Acknowledge, ServiceDone, Exceeded
  <1>20. ASSUME NEW h \in Harts, ClearIpi(h) PROVE PendInv'
    BY <1>20 DEF ClearIpi
  <1>21. ASSUME NEW h \in Harts, XchgType(h) PROVE PendInv'
    BY <1>21 DEF XchgType
  <1>22. ASSUME NEW h \in Harts, ProcessSmode(h) PROVE PendInv'
    BY <1>22 DEF ProcessSmode
  <1>23. ASSUME NEW h \in Harts, ProcessTlb(h) PROVE PendInv'
    BY <1>23 DEF ProcessTlb, Serve
  <1>24. ASSUME NEW h \in Harts, ProcessDone(h) PROVE PendInv'
    BY <1>24 DEF ProcessDone
  <1>25. ASSUME NEW h \in Harts, TakeSsip(h) PROVE PendInv'
    BY <1>25 DEF TakeSsip
  <1>26. ASSUME NEW h \in Harts, Stop(h) PROVE PendInv'
    BY <1>26 DEF Stop
  <1>27. ASSUME NEW h \in Harts, IpiInit(h) PROVE PendInv'
    BY <1>27 DEF IpiInit
  <1>28. ASSUME NEW h \in Harts, PlatformIpiInit(h) PROVE PendInv'
    BY <1>28 DEF PlatformIpiInit
  <1>29. ASSUME NEW h \in Harts, TlbInit(h) PROVE PendInv'
    BY <1>29 DEF TlbInit
  <1>30. ASSUME NEW h \in Harts, NextJump(h) PROVE PendInv'
    BY <1>30 DEF NextJump
  <1>31. ASSUME NEW h \in Harts, NEW g \in Harts, HartStart(h, g) PROVE PendInv'
    BY <1>31 DEF HartStart
  <1>32. ASSUME NEW h \in Harts, FifoInit(h) PROVE PendInv'
    BY <1>32 DEF FifoInit
  <1>33. ASSUME NEW h \in Harts, Corrupt(h) PROVE PendInv'
    BY <1>33 DEF Corrupt
  <1> QED
    BY <1>1, <1>2, <1>3, <1>4, <1>5, <1>6, <1>7, <1>8, <1>9, <1>10, <1>11, <1>12, <1>13,
       <1>14, <1>15, <1>16, <1>17, <1>18, <1>19, <1>20, <1>21, <1>22, <1>23, <1>24, <1>25,
       <1>26, <1>27, <1>28, <1>29, <1>30, <1>31, <1>32, <1>33, StepCases DEF Run
-----------------------------------------------------------------------------
(* A step of hart h ends nobody else's sending.                            *)
LEMMA SendersStay ==
  ASSUME NEW h \in Harts,
         \A s \in Harts : s # h => pc'[s] = pc[s] /\ todo'[s] = todo[s] /\ event'[s] = event[s],
         NEW t \in Harts
  PROVE  /\ Recording(t) => Recording(t)' \/ (pc[h] = "set_bit" /\ event[h] = "tlb" /\ Target(h) = t)
         /\ Interrupting(t) => Interrupting(t)' \/ (pc[h] = "raise" /\ Target(h) = t)
  BY DEF Recording, Interrupting, Target

LEMMA EntryNext ==
  ASSUME TypeOK, SendInv, PendInv, EntryInv, [Next]_vars
  PROVE  EntryInv'
  <1> USE DEF TypeOK, EntryInv, Serving, Booting, WorkPCs, Goto, sendVars, workVars
  <1>1. ASSUME UNCHANGED vars PROVE EntryInv'
    BY <1>1 DEF vars, Recording, Interrupting, Target
  <1>2. ASSUME NEW h \in Harts, NEW q, NEW mask, Request(h, q, mask) PROVE EntryInv'
    <2>1. \A t \in Harts : (Recording(t) => Recording(t)') /\ (Interrupting(t) => Interrupting(t)')
      BY <1>2, SendersStay DEF Request, SendMany
    <2> QED
      BY <1>2, <2>1 DEF Request, SendMany
  <1>3. ASSUME NEW h \in Harts, NEW mask, SendSmode(h, mask) PROVE EntryInv'
    <2>1. \A t \in Harts : (Recording(t) => Recording(t)') /\ (Interrupting(t) => Interrupting(t)')
      BY <1>3, SendersStay DEF SendSmode, SendMany
    <2> QED
      BY <1>3, <2>1 DEF SendSmode, SendMany
  <1>4. ASSUME NEW h \in Harts, SendDone(h) PROVE EntryInv'
    <2>1. \A t \in Harts : (Recording(t) => Recording(t)') /\ (Interrupting(t) => Interrupting(t)')
      BY <1>4, SendersStay DEF SendDone
    <2> QED
      BY <1>4, <2>1 DEF SendDone
  <1>5. ASSUME NEW h \in Harts, NoUpdate(h) PROVE EntryInv'
    <2>1. \A t \in Harts : (Recording(t) => Recording(t)') /\ (Interrupting(t) => Interrupting(t)')
      BY <1>5, SendersStay DEF NoUpdate
    <2> QED
      BY <1>5, <2>1 DEF NoUpdate
  <1>6. ASSUME NEW h \in Harts, UpdateSelf(h) PROVE EntryInv'
    <2>1. \A t \in Harts : (Recording(t) => Recording(t)') /\ (Interrupting(t) => Interrupting(t)')
      BY <1>6, SendersStay DEF UpdateSelf
    <2> QED
      BY <1>6, <2>1 DEF UpdateSelf
  <1>7. ASSUME NEW h \in Harts, Merge(h) PROVE EntryInv'
    <2>1. \A t \in Harts : (Recording(t) => Recording(t)') /\ (Interrupting(t) => Interrupting(t)')
      BY <1>7, SendersStay DEF Merge
    <2>2. pc'[h] = "set_bit" /\ event'[h] = "tlb" /\ todo'[h] = todo[h]
      BY <1>7 DEF Merge, SendInv, Sending, SendPCs
    <2>3. \A t \in Harts : t = Target(h) => Recording(t)'
      BY <2>2 DEF Recording, Target
    <2>4. \A t \in Harts : t # Target(h) => fifo'[t] = fifo[t]
      BY <1>7 DEF Merge
    <2> QED
      BY <1>7, <2>1, <2>3, <2>4 DEF Merge
  <1>8. ASSUME NEW h \in Harts, NoMerge(h) PROVE EntryInv'
    <2>1. \A t \in Harts : (Recording(t) => Recording(t)') /\ (Interrupting(t) => Interrupting(t)')
      BY <1>8, SendersStay DEF NoMerge
    <2> QED
      BY <1>8, <2>1 DEF NoMerge
  <1>9. ASSUME NEW h \in Harts, Enqueue(h) PROVE EntryInv'
    <2>1. \A t \in Harts : (Recording(t) => Recording(t)') /\ (Interrupting(t) => Interrupting(t)')
      BY <1>9, SendersStay DEF Enqueue
    <2>2. pc'[h] = "set_bit" /\ event'[h] = "tlb" /\ todo'[h] = todo[h]
      BY <1>9 DEF Enqueue, SendInv, Sending, SendPCs
    <2>3. \A t \in Harts : t = Target(h) => Recording(t)'
      BY <2>2 DEF Recording, Target
    <2>4. \A t \in Harts : t # Target(h) => fifo'[t] = fifo[t]
      BY <1>9 DEF Enqueue
    <2> QED
      BY <1>9, <2>1, <2>3, <2>4 DEF Enqueue
  <1>10. ASSUME NEW h \in Harts, EnqueueFull(h) PROVE EntryInv'
    <2>1. \A t \in Harts : (Recording(t) => Recording(t)') /\ (Interrupting(t) => Interrupting(t)')
      BY <1>10, SendersStay DEF EnqueueFull, Serve
    <2> QED
      BY <1>10, <2>1 DEF EnqueueFull, Serve
  <1>11. ASSUME NEW h \in Harts, SetBit(h) PROVE EntryInv'
    <2>1. \A t \in Harts : /\ Interrupting(t) => Interrupting(t)'
                           /\ Recording(t) => Recording(t)' \/ (t = Target(h) /\ event[h] = "tlb")
      BY <1>11, SendersStay DEF SetBit
    <2>2. pc'[h] = "raise" /\ todo'[h] = todo[h]
      BY <1>11 DEF SetBit
    <2>3. \A t \in Harts : t = Target(h) => Interrupting(t)' /\ event[h] \in events'[t]
      BY <1>11, <2>2 DEF SetBit, Interrupting, Target
    <2>4. \A t \in Harts : events[t] \subseteq events'[t]
      BY <1>11 DEF SetBit
    <2>5. \A t \in Harts : (pc[t] = "xchg" => pc'[t] = "xchg") /\ (Serving(t) => Serving(t)')
                           /\ (Booting(t) => Booting(t)')
      BY <1>11 DEF SetBit
    <2>6. UNCHANGED <<fifo, msip, pend, torn>>
      BY <1>11 DEF SetBit
    <2> HIDE DEF Serving, Booting
    <2> QED
      BY <2>1, <2>3, <2>4, <2>5, <2>6
  <1>12. ASSUME NEW h \in Harts, Raise(h) PROVE EntryInv'
    <2>1. \A t \in Harts : /\ Recording(t) => Recording(t)'
                           /\ Interrupting(t) => Interrupting(t)' \/ t = Target(h)
      BY <1>12, SendersStay DEF Raise
    <2> QED
      BY <1>12, <2>1 DEF Raise
  <1>13. ASSUME NEW h \in Harts, Sync(h) PROVE EntryInv'
    <2>1. \A t \in Harts : (Recording(t) => Recording(t)') /\ (Interrupting(t) => Interrupting(t)')
      BY <1>13, SendersStay DEF Sync
    <2> QED
      BY <1>13, <2>1 DEF Sync
  <1>14. ASSUME NEW h \in Harts, SyncWait(h) PROVE EntryInv'
    <2>1. \A t \in Harts : (Recording(t) => Recording(t)') /\ (Interrupting(t) => Interrupting(t)')
      BY <1>14, SendersStay DEF SyncWait, Serve
    <2> QED
      BY <1>14, <2>1 DEF SyncWait, Serve
  <1>15. ASSUME NEW h \in Harts, Dequeue(h) PROVE EntryInv'
    <2>1. \A t \in Harts : (Recording(t) => Recording(t)') /\ (Interrupting(t) => Interrupting(t)')
      BY <1>15, SendersStay DEF Dequeue
    <2> QED
      BY <1>15, <2>1 DEF Dequeue
  <1>16. ASSUME NEW h \in Harts, DequeueEmpty(h) PROVE EntryInv'
    <2>1. \A t \in Harts : (Recording(t) => Recording(t)') /\ (Interrupting(t) => Interrupting(t)')
      BY <1>16, SendersStay DEF DequeueEmpty, ServiceDone
    <2> QED
      BY <1>16, <2>1 DEF DequeueEmpty, ServiceDone
  <1>17. ASSUME NEW h \in Harts, Ack(h) PROVE EntryInv'
    <2>1. \A t \in Harts : (Recording(t) => Recording(t)') /\ (Interrupting(t) => Interrupting(t)')
      BY <1>17, SendersStay DEF Ack, Acknowledge
    <2> QED
      BY <1>17, <2>1 DEF Ack, Acknowledge
  <1>18. ASSUME NEW h \in Harts, AckLast(h) PROVE EntryInv'
    <2>1. \A t \in Harts : (Recording(t) => Recording(t)') /\ (Interrupting(t) => Interrupting(t)')
      BY <1>18, SendersStay DEF AckLast, Acknowledge
    <2> QED
      BY <1>18, <2>1 DEF AckLast, Acknowledge
  <1>19. ASSUME NEW h \in Harts, AckReturn(h) PROVE EntryInv'
    <2>1. \A t \in Harts : (Recording(t) => Recording(t)') /\ (Interrupting(t) => Interrupting(t)')
      BY <1>19, SendersStay DEF AckReturn, Acknowledge, ServiceDone, Exceeded
    <2> QED
      BY <1>19, <2>1 DEF AckReturn, Acknowledge, ServiceDone, Exceeded
  <1>20. ASSUME NEW h \in Harts, ClearIpi(h) PROVE EntryInv'
    <2>1. \A t \in Harts : (Recording(t) => Recording(t)') /\ (Interrupting(t) => Interrupting(t)')
      BY <1>20, SendersStay DEF ClearIpi
    <2> QED
      BY <1>20, <2>1 DEF ClearIpi
  <1>21. ASSUME NEW h \in Harts, XchgType(h) PROVE EntryInv'
    <2>1. \A t \in Harts : (Recording(t) => Recording(t)') /\ (Interrupting(t) => Interrupting(t)')
      BY <1>21, SendersStay DEF XchgType
    <2> QED
      BY <1>21, <2>1 DEF XchgType, PendInv
  <1>22. ASSUME NEW h \in Harts, ProcessSmode(h) PROVE EntryInv'
    <2>1. \A t \in Harts : (Recording(t) => Recording(t)') /\ (Interrupting(t) => Interrupting(t)')
      BY <1>22, SendersStay DEF ProcessSmode
    <2> QED
      BY <1>22, <2>1 DEF ProcessSmode
  <1>23. ASSUME NEW h \in Harts, ProcessTlb(h) PROVE EntryInv'
    <2>1. \A t \in Harts : (Recording(t) => Recording(t)') /\ (Interrupting(t) => Interrupting(t)')
      BY <1>23, SendersStay DEF ProcessTlb, Serve
    <2> QED
      BY <1>23, <2>1 DEF ProcessTlb, Serve
  <1>24. ASSUME NEW h \in Harts, ProcessDone(h) PROVE EntryInv'
    <2>1. \A t \in Harts : (Recording(t) => Recording(t)') /\ (Interrupting(t) => Interrupting(t)')
      BY <1>24, SendersStay DEF ProcessDone
    <2> QED
      BY <1>24, <2>1 DEF ProcessDone, PendInv
  <1>25. ASSUME NEW h \in Harts, TakeSsip(h) PROVE EntryInv'
    <2>1. \A t \in Harts : (Recording(t) => Recording(t)') /\ (Interrupting(t) => Interrupting(t)')
      BY <1>25, SendersStay DEF TakeSsip
    <2> QED
      BY <1>25, <2>1 DEF TakeSsip
  <1>26. ASSUME NEW h \in Harts, Stop(h) PROVE EntryInv'
    <2>1. \A t \in Harts : (Recording(t) => Recording(t)') /\ (Interrupting(t) => Interrupting(t)')
      BY <1>26, SendersStay DEF Stop
    <2> QED
      BY <1>26, <2>1 DEF Stop
  <1>27. ASSUME NEW h \in Harts, IpiInit(h) PROVE EntryInv'
    <2>1. \A t \in Harts : (Recording(t) => Recording(t)') /\ (Interrupting(t) => Interrupting(t)')
      BY <1>27, SendersStay DEF IpiInit
    <2> QED
      BY <1>27, <2>1 DEF IpiInit
  <1>28. ASSUME NEW h \in Harts, PlatformIpiInit(h) PROVE EntryInv'
    <2>1. \A t \in Harts : (Recording(t) => Recording(t)') /\ (Interrupting(t) => Interrupting(t)')
      BY <1>28, SendersStay DEF PlatformIpiInit
    <2> QED
      BY <1>28, <2>1 DEF PlatformIpiInit
  <1>29. ASSUME NEW h \in Harts, TlbInit(h) PROVE EntryInv'
    <2>1. \A t \in Harts : (Recording(t) => Recording(t)') /\ (Interrupting(t) => Interrupting(t)')
      BY <1>29, SendersStay DEF TlbInit
    <2> QED
      BY <1>29, <2>1 DEF TlbInit
  <1>30. ASSUME NEW h \in Harts, NextJump(h) PROVE EntryInv'
    <2>1. \A t \in Harts : (Recording(t) => Recording(t)') /\ (Interrupting(t) => Interrupting(t)')
      BY <1>30, SendersStay DEF NextJump
    <2> QED
      BY <1>30, <2>1 DEF NextJump
  <1>31. ASSUME NEW h \in Harts, NEW g \in Harts, HartStart(h, g) PROVE EntryInv'
    <2>1. \A t \in Harts : (Recording(t) => Recording(t)') /\ (Interrupting(t) => Interrupting(t)')
      BY <1>31, SendersStay DEF HartStart
    <2> QED
      BY <1>31, <2>1 DEF HartStart
  <1>32. ASSUME NEW h \in Harts, FifoInit(h) PROVE EntryInv'
    <2>1. \A t \in Harts : (Recording(t) => Recording(t)') /\ (Interrupting(t) => Interrupting(t)')
      BY <1>32, SendersStay DEF FifoInit
    <2>2. /\ torn \subseteq torn'
          /\ fifo'[h] = << >> \/ h \in torn'
          /\ \A t \in Harts : t # h => fifo'[t] = fifo[t] /\ pc'[t] = pc[t]
      BY <1>32 DEF FifoInit
    <2>3. UNCHANGED <<events, msip, pend, ret>>
      BY <1>32 DEF FifoInit
    <2>4. ASSUME NEW t \in Harts, t # h
          PROVE  (Serving(t) => Serving(t)') /\ (Booting(t) => Booting(t)')
      BY <2>2, <2>3, <2>4
    <2> HIDE DEF Serving, Booting
    <2>5. ASSUME NEW t \in Harts \ torn', fifo'[t] # << >>
          PROVE  t # h /\ t \notin torn /\ fifo[t] # << >>
      BY <2>2, <2>5
    <2> QED
      BY <2>1, <2>2, <2>3, <2>4, <2>5
  <1>33. ASSUME NEW h \in Harts, Corrupt(h) PROVE EntryInv'
    <2>1. \A t \in Harts : (Recording(t) => Recording(t)') /\ (Interrupting(t) => Interrupting(t)')
      BY <1>33 DEF Corrupt, Recording, Interrupting, Target
    <2> QED
      BY <1>33, <2>1 DEF Corrupt
  <1> QED
    BY <1>1, <1>2, <1>3, <1>4, <1>5, <1>6, <1>7, <1>8, <1>9, <1>10, <1>11, <1>12, <1>13,
       <1>14, <1>15, <1>16, <1>17, <1>18, <1>19, <1>20, <1>21, <1>22, <1>23, <1>24, <1>25,
       <1>26, <1>27, <1>28, <1>29, <1>30, <1>31, <1>32, <1>33, StepCases DEF Run

LEMMA EventNext ==
  ASSUME TypeOK, SendInv, PendInv, EventNotLost, [Next]_vars
  PROVE  EventNotLost'
  <1> USE DEF TypeOK, EventNotLost, Interrupting, Goto, Target, sendVars, workVars
  <1>1. ASSUME UNCHANGED vars PROVE EventNotLost'
    BY <1>1 DEF vars
  <1>2. ASSUME NEW h \in Harts, NEW q \in Infos, NEW mask \in SUBSET Harts, Request(h, q, mask)
        PROVE  EventNotLost'
    BY <1>2 DEF Request, SendMany
  <1>3. ASSUME NEW h \in Harts, NEW mask \in SUBSET Harts, SendSmode(h, mask) PROVE EventNotLost'
    BY <1>3 DEF SendSmode, SendMany
  <1>4. ASSUME NEW h \in Harts, SendDone(h) PROVE EventNotLost'
    BY <1>4 DEF SendDone
  <1>5. ASSUME NEW h \in Harts, NoUpdate(h) PROVE EventNotLost'
    BY <1>5 DEF NoUpdate
  <1>6. ASSUME NEW h \in Harts, UpdateSelf(h) PROVE EventNotLost'
    BY <1>6 DEF UpdateSelf
  <1>7. ASSUME NEW h \in Harts, Merge(h) PROVE EventNotLost'
    BY <1>7 DEF Merge
  <1>8. ASSUME NEW h \in Harts, NoMerge(h) PROVE EventNotLost'
    BY <1>8 DEF NoMerge
  <1>9. ASSUME NEW h \in Harts, Enqueue(h) PROVE EventNotLost'
    BY <1>9 DEF Enqueue
  <1>10. ASSUME NEW h \in Harts, EnqueueFull(h) PROVE EventNotLost'
    BY <1>10 DEF EnqueueFull, Serve
  <1>11. ASSUME NEW h \in Harts, SetBit(h) PROVE EventNotLost'
    BY <1>11 DEF SetBit
  <1>12. ASSUME NEW h \in Harts, Raise(h) PROVE EventNotLost'
    BY <1>12 DEF Raise
  <1>13. ASSUME NEW h \in Harts, Sync(h) PROVE EventNotLost'
    BY <1>13 DEF Sync
  <1>14. ASSUME NEW h \in Harts, SyncWait(h) PROVE EventNotLost'
    BY <1>14 DEF SyncWait, Serve
  <1>15. ASSUME NEW h \in Harts, Dequeue(h) PROVE EventNotLost'
    BY <1>15 DEF Dequeue
  <1>16. ASSUME NEW h \in Harts, DequeueEmpty(h) PROVE EventNotLost'
    BY <1>16 DEF DequeueEmpty, ServiceDone
  <1>17. ASSUME NEW h \in Harts, Ack(h) PROVE EventNotLost'
    BY <1>17 DEF Ack, Acknowledge
  <1>18. ASSUME NEW h \in Harts, AckLast(h) PROVE EventNotLost'
    BY <1>18 DEF AckLast, Acknowledge
  <1>19. ASSUME NEW h \in Harts, AckReturn(h) PROVE EventNotLost'
    BY <1>19 DEF AckReturn, Acknowledge, ServiceDone, Exceeded
  <1>20. ASSUME NEW h \in Harts, ClearIpi(h) PROVE EventNotLost'
    BY <1>20 DEF ClearIpi
  <1>21. ASSUME NEW h \in Harts, XchgType(h) PROVE EventNotLost'
    BY <1>21 DEF XchgType
  <1>22. ASSUME NEW h \in Harts, ProcessSmode(h) PROVE EventNotLost'
    BY <1>22 DEF ProcessSmode
  <1>23. ASSUME NEW h \in Harts, ProcessTlb(h) PROVE EventNotLost'
    BY <1>23 DEF ProcessTlb, Serve
  <1>24. ASSUME NEW h \in Harts, ProcessDone(h) PROVE EventNotLost'
    BY <1>24 DEF ProcessDone
  <1>25. ASSUME NEW h \in Harts, TakeSsip(h) PROVE EventNotLost'
    BY <1>25 DEF TakeSsip
  <1>26. ASSUME NEW h \in Harts, Stop(h) PROVE EventNotLost'
    BY <1>26 DEF Stop
  <1>27. ASSUME NEW h \in Harts, IpiInit(h) PROVE EventNotLost'
    BY <1>27 DEF IpiInit
  <1>28. ASSUME NEW h \in Harts, PlatformIpiInit(h) PROVE EventNotLost'
    BY <1>28 DEF PlatformIpiInit
  <1>29. ASSUME NEW h \in Harts, TlbInit(h) PROVE EventNotLost'
    BY <1>29 DEF TlbInit
  <1>30. ASSUME NEW h \in Harts, NextJump(h) PROVE EventNotLost'
    BY <1>30 DEF NextJump
  <1>31. ASSUME NEW h \in Harts, NEW g \in Harts, HartStart(h, g) PROVE EventNotLost'
    BY <1>31 DEF HartStart
  <1>32. ASSUME NEW h \in Harts, FifoInit(h) PROVE EventNotLost'
    BY <1>32 DEF FifoInit
  <1>33. ASSUME NEW h \in Harts, Corrupt(h) PROVE EventNotLost'
    BY <1>33 DEF Corrupt
  <1> QED
    BY <1>1, <1>2, <1>3, <1>4, <1>5, <1>6, <1>7, <1>8, <1>9, <1>10, <1>11, <1>12, <1>13,
       <1>14, <1>15, <1>16, <1>17, <1>18, <1>19, <1>20, <1>21, <1>22, <1>23, <1>24, <1>25,
       <1>26, <1>27, <1>28, <1>29, <1>30, <1>31, <1>32, <1>33, StepCases DEF Run
-----------------------------------------------------------------------------
LEMMA WakeInit == Init => WakeInv
  BY TypeInit DEF Init, WakeInv, SendInv, PendInv, EntryInv, EventNotLost, Sending, Serving,
                  SendPCs, WorkPCs

LEMMA WakeNext == WakeInv /\ [Next]_vars => WakeInv'
  BY TypeNext, SendNext, PendNext, EntryNext, EventNext DEF WakeInv

(* Entries, events and interrupts agree: a hart that sends holds what it   *)
(* sends, events are in hand only in sbi_ipi_process, an entry in a fifo   *)
(* is followed by its event and its interrupt until it is served, and an   *)
(* event by its interrupt, for any harts, requests, stops and starts.      *)
THEOREM WakeInvariance == Spec => []WakeInv
  BY WakeInit, WakeNext, PTL DEF Spec

(* An event recorded in ipi_type by sbi_ipi_send always has an interrupt   *)
(* that is pending, about to come, or just taken, unless it was sent to a  *)
(* hart in sbi_ipi_init.                                                   *)
THEOREM EventNotLostHolds == Spec => []EventNotLost
  <1>1. WakeInv => EventNotLost
    BY DEF WakeInv
  <1> QED
    BY <1>1, WakeInvariance, PTL

(* A hart in S-mode with a remote fence in its fifo has its interrupt      *)
(* pending or about to come, also after stops and starts.                  *)
THEOREM EntryNotStrandedHolds == Spec => []EntryNotStranded
  <1>1. WakeInv => EntryNotStranded
    BY DEF WakeInv, PendInv, EntryInv, EntryNotStranded, Serving, Booting, WorkPCs
  <1> QED
    BY <1>1, WakeInvariance, PTL
-----------------------------------------------------------------------------
(* What a remote fence promises its caller: one acknowledgement for every  *)
(* hart that waits, and nothing left to flush when it has come.            *)

(* A hart waits for one hart only.                                         *)
LEMMA WaitsForOne ==
  ASSUME NEW r, NEW t, NEW u, Waits(r, t), Waits(r, u)
  PROVE  t = u
  BY DEF Waits

LEMMA CallNext ==
  ASSUME TypeOK, SendInv, CallInv, [Next]_vars
  PROVE  CallInv'
  <1> USE DEF TypeOK, SendInv, CallInv, InCall, Sending, Serving, SendPCs, WorkPCs, Goto, sendVars, workVars
  <1>1. ASSUME UNCHANGED vars PROVE CallInv'
    BY <1>1 DEF vars
  <1>2. ASSUME NEW h \in Harts, NEW q \in Infos, NEW mask \in SUBSET Harts, Request(h, q, mask)
        PROVE  CallInv'
    <2>1. TlbInfo(q, h).smask = {h}
      BY DEF TlbInfo
    <2> QED
      BY <1>2, <2>1 DEF Request, SendMany
  <1>3. ASSUME NEW h \in Harts, NEW mask \in SUBSET Harts, SendSmode(h, mask) PROVE CallInv'
    BY <1>3 DEF SendSmode, SendMany
  <1>4. ASSUME NEW h \in Harts, SendDone(h) PROVE CallInv'
    BY <1>4 DEF SendDone
  <1>5. ASSUME NEW h \in Harts, NoUpdate(h) PROVE CallInv'
    BY <1>5 DEF NoUpdate
  <1>5a. ASSUME NEW h \in Harts, pc[h] = "send", event[h] = "tlb" PROVE Upgrade(info[h]).smask = {h}
    <2>1. info[h] \in Entry
      BY <1>5a
    <2>2. [info[h] EXCEPT !.start = 0, !.size = FlushAll].smask = info[h].smask
      BY <2>1 DEF Entry
    <2> QED
      BY <1>5a, <2>2 DEF Upgrade
  <1>6. ASSUME NEW h \in Harts, UpdateSelf(h) PROVE CallInv'
    BY <1>5a, <1>6 DEF UpdateSelf
  <1>7. ASSUME NEW h \in Harts, Merge(h) PROVE CallInv'
    BY <1>5a, <1>7 DEF Merge
  <1>8. ASSUME NEW h \in Harts, NoMerge(h) PROVE CallInv'
    BY <1>5a, <1>8 DEF NoMerge
  <1>9. ASSUME NEW h \in Harts, Enqueue(h) PROVE CallInv'
    BY <1>9 DEF Enqueue
  <1>10. ASSUME NEW h \in Harts, EnqueueFull(h) PROVE CallInv'
    BY <1>10 DEF EnqueueFull, Serve
  <1>11. ASSUME NEW h \in Harts, SetBit(h) PROVE CallInv'
    BY <1>11 DEF SetBit
  <1>12. ASSUME NEW h \in Harts, Raise(h) PROVE CallInv'
    BY <1>12 DEF Raise
  <1>13. ASSUME NEW h \in Harts, Sync(h) PROVE CallInv'
    BY <1>13 DEF Sync
  <1>14. ASSUME NEW h \in Harts, SyncWait(h) PROVE CallInv'
    BY <1>14 DEF SyncWait, Serve
  <1>15. ASSUME NEW h \in Harts, Dequeue(h) PROVE CallInv'
    BY <1>15 DEF Dequeue
  <1>16. ASSUME NEW h \in Harts, DequeueEmpty(h) PROVE CallInv'
    BY <1>16 DEF DequeueEmpty, ServiceDone
  <1>17. ASSUME NEW h \in Harts, Ack(h) PROVE CallInv'
    BY <1>17 DEF Ack, Acknowledge
  <1>18. ASSUME NEW h \in Harts, AckLast(h) PROVE CallInv'
    BY <1>18 DEF AckLast, Acknowledge
  <1>19. ASSUME NEW h \in Harts, AckReturn(h) PROVE CallInv'
    BY <1>19 DEF AckReturn, Acknowledge, ServiceDone, Exceeded
  <1>20. ASSUME NEW h \in Harts, ClearIpi(h) PROVE CallInv'
    BY <1>20 DEF ClearIpi
  <1>21. ASSUME NEW h \in Harts, XchgType(h) PROVE CallInv'
    BY <1>21 DEF XchgType
  <1>22. ASSUME NEW h \in Harts, ProcessSmode(h) PROVE CallInv'
    BY <1>22 DEF ProcessSmode
  <1>23. ASSUME NEW h \in Harts, ProcessTlb(h) PROVE CallInv'
    BY <1>23 DEF ProcessTlb, Serve
  <1>24. ASSUME NEW h \in Harts, ProcessDone(h) PROVE CallInv'
    BY <1>24 DEF ProcessDone
  <1>25. ASSUME NEW h \in Harts, TakeSsip(h) PROVE CallInv'
    BY <1>25 DEF TakeSsip
  <1>26. ASSUME NEW h \in Harts, Stop(h) PROVE CallInv'
    BY <1>26 DEF Stop
  <1>27. ASSUME NEW h \in Harts, IpiInit(h) PROVE CallInv'
    BY <1>27 DEF IpiInit
  <1>28. ASSUME NEW h \in Harts, PlatformIpiInit(h) PROVE CallInv'
    BY <1>28 DEF PlatformIpiInit
  <1>29. ASSUME NEW h \in Harts, TlbInit(h) PROVE CallInv'
    BY <1>29 DEF TlbInit
  <1>30. ASSUME NEW h \in Harts, NextJump(h) PROVE CallInv'
    BY <1>30 DEF NextJump
  <1>31. ASSUME NEW h \in Harts, NEW g \in Harts, HartStart(h, g) PROVE CallInv'
    BY <1>31 DEF HartStart
  <1>32. ASSUME NEW h \in Harts, FifoInit(h) PROVE CallInv'
    BY <1>32 DEF FifoInit
  <1>33. ASSUME NEW h \in Harts, Corrupt(h) PROVE CallInv'
    BY <1>33 DEF Corrupt
  <1> QED
    BY <1>1, <1>2, <1>3, <1>4, <1>5, <1>6, <1>7, <1>8, <1>9, <1>10, <1>11, <1>12, <1>13,
       <1>14, <1>15, <1>16, <1>17, <1>18, <1>19, <1>20, <1>21, <1>22, <1>23, <1>24, <1>25,
       <1>26, <1>27, <1>28, <1>29, <1>30, <1>31, <1>32, <1>33, StepCases DEF Run
-----------------------------------------------------------------------------
(* Steps of hart h that neither start nor end its waiting and leave the    *)
(* fifos, tlb_sync and the acknowledgements in hand alone.                 *)
Quiet(h) ==
  /\ UNCHANGED <<fifo, sync>>
  /\ \A s \in Harts : s # h =>
       /\ pc'[s] = pc[s] /\ todo'[s] = todo[s] /\ event'[s] = event[s] /\ ret'[s] = ret[s]
       /\ acks'[s] = acks[s] /\ info'[s] = info[s]
  /\ \A t \in Harts : Waits(h, t)' <=> Waits(h, t)
  /\ pc[h] # "ack" /\ pc'[h] # "ack"

LEMMA QuietSteps ==
  ASSUME TypeOK, SendInv, CallInv, NEW h \in Harts
  PROVE  /\ \A q \in Infos, mask \in SUBSET Harts : Request(h, q, mask) => Quiet(h)
         /\ \A mask \in SUBSET Harts : SendSmode(h, mask) => Quiet(h)
         /\ \A g \in Harts : HartStart(h, g) => Quiet(g)
         /\ SendDone(h) => Quiet(h)
         /\ NoUpdate(h) => Quiet(h)
         /\ UpdateSelf(h) => Quiet(h)
         /\ NoMerge(h) => Quiet(h)
         /\ EnqueueFull(h) => Quiet(h)
         /\ SetBit(h) => Quiet(h)
         /\ Raise(h) => Quiet(h)
         /\ SyncWait(h) => Quiet(h)
         /\ DequeueEmpty(h) => Quiet(h)
         /\ ClearIpi(h) => Quiet(h)
         /\ XchgType(h) => Quiet(h)
         /\ ProcessSmode(h) => Quiet(h)
         /\ ProcessTlb(h) => Quiet(h)
         /\ ProcessDone(h) => Quiet(h)
         /\ TakeSsip(h) => Quiet(h)
         /\ Stop(h) => Quiet(h)
         /\ IpiInit(h) => Quiet(h)
         /\ PlatformIpiInit(h) => Quiet(h)
         /\ NextJump(h) => Quiet(h)
  <1> USE DEF TypeOK, SendInv, Quiet, Waits, Target, Sending, Serving, SendPCs, WorkPCs, Goto, sendVars, workVars
  <1>2. ASSUME NEW q \in Infos, NEW mask \in SUBSET Harts, Request(h, q, mask) PROVE Quiet(h)
    BY <1>2 DEF Request, SendMany
  <1>3. ASSUME NEW mask \in SUBSET Harts, SendSmode(h, mask) PROVE Quiet(h)
    BY <1>3 DEF SendSmode, SendMany
  <1>31. ASSUME NEW g \in Harts, HartStart(h, g) PROVE Quiet(g)
    BY <1>31 DEF HartStart
  <1>4. ASSUME SendDone(h) PROVE Quiet(h)
    BY <1>4 DEF SendDone
  <1>5. ASSUME NoUpdate(h) PROVE Quiet(h)
    BY <1>5 DEF NoUpdate
  <1>6. ASSUME UpdateSelf(h) PROVE Quiet(h)
    BY <1>6 DEF UpdateSelf
  <1>8. ASSUME NoMerge(h) PROVE Quiet(h)
    BY <1>8 DEF NoMerge
  <1>10. ASSUME EnqueueFull(h) PROVE Quiet(h)
    BY <1>10 DEF EnqueueFull, Serve
  <1>11. ASSUME SetBit(h) PROVE Quiet(h)
    BY <1>11 DEF SetBit
  <1>12. ASSUME Raise(h) PROVE Quiet(h)
    BY <1>12 DEF Raise
  <1>14. ASSUME SyncWait(h) PROVE Quiet(h)
    BY <1>14 DEF SyncWait, Serve
  <1>16. ASSUME DequeueEmpty(h) PROVE Quiet(h)
    BY <1>16 DEF DequeueEmpty, ServiceDone
  <1>20. ASSUME ClearIpi(h) PROVE Quiet(h)
    BY <1>20 DEF ClearIpi
  <1>21. ASSUME XchgType(h) PROVE Quiet(h)
    BY <1>21 DEF XchgType
  <1>22. ASSUME ProcessSmode(h) PROVE Quiet(h)
    BY <1>22 DEF ProcessSmode
  <1>23. ASSUME ProcessTlb(h) PROVE Quiet(h)
    BY <1>23 DEF ProcessTlb, Serve
  <1>24. ASSUME ProcessDone(h) PROVE Quiet(h)
    BY <1>24 DEF ProcessDone
  <1>25. ASSUME TakeSsip(h) PROVE Quiet(h)
    BY <1>25 DEF TakeSsip
  <1>26. ASSUME Stop(h) PROVE Quiet(h)
    BY <1>26 DEF Stop
  <1>27. ASSUME IpiInit(h) PROVE Quiet(h)
    BY <1>27 DEF IpiInit
  <1>28. ASSUME PlatformIpiInit(h) PROVE Quiet(h)
    BY <1>28 DEF PlatformIpiInit
  <1>30. ASSUME NextJump(h) PROVE Quiet(h)
    BY <1>30 DEF NextJump
  <1> QED
    BY <1>2, <1>3, <1>31, <1>4, <1>5, <1>6, <1>8, <1>10, <1>11, <1>12, <1>14, <1>16, <1>20, <1>21, <1>22, <1>23, <1>24, <1>25, <1>26, <1>27, <1>28, <1>30

LEMMA StepKinds ==
  ASSUME TypeOK, SendInv, CallInv, [Next]_vars
  PROVE  \/ UNCHANGED vars
         \/ \E h \in Harts :
              \/ Quiet(h) \/ Merge(h) \/ Enqueue(h) \/ Sync(h) \/ Dequeue(h)
              \/ Ack(h) \/ AckLast(h) \/ AckReturn(h) \/ TlbInit(h) \/ FifoInit(h) \/ Corrupt(h)
  BY StepCases, QuietSteps, Zenon DEF Run

(* sbi_fifo_inplace_update changes one entry, which gets another waiter.   *)
LEMMA UpdatedEntries ==
  ASSUME NEW q \in Seq(Entry), NEW e \in Entry, Hits(q, e) # {}
  PROVE  LET k == Min(Hits(q, e)) IN
         /\ k \in DOMAIN q /\ DOMAIN Updated(q, e) = DOMAIN q
         /\ UpdateCb(q[k], e).verdict # "unchanged"
         /\ Updated(q, e)[k] = UpdateCb(q[k], e).entry
         /\ Updated(q, e)[k].smask = q[k].smask \cup e.smask
         /\ \A i \in DOMAIN q : i # k => Updated(q, e)[i] = q[i]
  <1> DEFINE k == Min(Hits(q, e))
  <1>1. k \in Hits(q, e)
    <2>1. Hits(q, e) \in SUBSET Nat
      BY DEF Hits
    <2> QED
      BY <2>1, MinIn
  <1>2. k \in DOMAIN q /\ UpdateCb(q[k], e).verdict # "unchanged"
    BY <1>1 DEF Hits
  <1>3. Updated(q, e) = [q EXCEPT ![k] = UpdateCb(q[k], e).entry]
    BY <1>2 DEF Updated
  <1> HIDE DEF k
  <1>4. q[k] \in Entry
    BY <1>2
  <1>5. UpdateCb(q[k], e).entry.smask = q[k].smask \cup e.smask
    BY <1>2, <1>4 DEF UpdateCb, RangeCheck, Entry
  <1>6. DOMAIN Updated(q, e) = DOMAIN q /\ Updated(q, e)[k] = UpdateCb(q[k], e).entry
        /\ \A i \in DOMAIN q : i # k => Updated(q, e)[i] = q[i]
    BY <1>2, <1>3
  <1> QED
    BY <1>2, <1>5, <1>6 DEF k

(* Steps with which hart h begins to wait for t: entry k of t's fifo is    *)
(* its own or has got h as another waiter.                                 *)
Joins(h, t, k) ==
  /\ \A u \in Harts : ~Waits(h, u) /\ (Waits(h, u)' <=> u = t)
  /\ \A r, u \in Harts : r # h => (Waits(r, u)' <=> Waits(r, u))
  /\ UNCHANGED sync
  /\ \A r, u \in Harts : Acking(r, u)' <=> Acking(r, u)
  /\ k \in DOMAIN fifo'[t]
  /\ \A u \in Harts : DOMAIN fifo[u] \subseteq DOMAIN fifo'[u]
  /\ \A r, u \in Harts : \A i \in DOMAIN fifo'[u] :
       Queued(r, u, i)' <=> Queued(r, u, i) \/ (r = h /\ u = t /\ i = k)
  /\ \A u \in Harts : \A i \in DOMAIN fifo'[u] :
       ~(u = t /\ i = k) => i \in DOMAIN fifo[u] /\ fifo'[u][i] = fifo[u][i]

(* What becomes of that entry: it is merged with e, or it is new.          *)
Merges(t, k, e) ==
  /\ k \in DOMAIN fifo[t]
  /\ UpdateCb(fifo[t][k], e).verdict # "unchanged"
  /\ fifo'[t][k] = UpdateCb(fifo[t][k], e).entry
Adds(t, k, e) == k \notin DOMAIN fifo[t] /\ fifo'[t][k] = e

LEMMA JoinSteps ==
  ASSUME TypeOK, SendInv, CallInv, NEW h \in Harts, Merge(h) \/ Enqueue(h)
  PROVE  \E t \in Harts, k \in Nat :
           /\ Joins(h, t, k)
           /\ Merge(h) => Merges(t, k, Upgrade(info[h]))
           /\ Enqueue(h) => Adds(t, k, info[h])
  <1> USE DEF TypeOK
  <1>1. CASE Merge(h)
    <2>t. PICK t \in Harts : t = Target(h)
      BY <1>1, TargetIn DEF Merge
    <2> DEFINE e == Upgrade(info[h])
    <2>1. info[h] \in Entry
      BY <1>1 DEF Merge, SendInv
    <2>2. e \in Entry
      BY <2>1, UpgradeType
    <2>3. info[h].smask = {h}
      BY <1>1 DEF Merge, CallInv, InCall
    <2>4. e.smask = {h}
      BY <2>1, <2>3 DEF Upgrade, Entry
    <2>5. Hits(fifo[t], e) # {} /\ fifo' = [fifo EXCEPT ![t] = Updated(fifo[t], e)]
      BY <1>1, <2>t DEF Merge
    <2>6. PICK k \in DOMAIN fifo[t] :
          /\ DOMAIN Updated(fifo[t], e) = DOMAIN fifo[t]
          /\ Updated(fifo[t], e)[k].smask = fifo[t][k].smask \cup e.smask
          /\ \A i \in DOMAIN fifo[t] : i # k => Updated(fifo[t], e)[i] = fifo[t][i]
          /\ UpdateCb(fifo[t][k], e).verdict # "unchanged"
          /\ Updated(fifo[t], e)[k] = UpdateCb(fifo[t][k], e).entry
      <3>1. fifo[t] \in Seq(Entry)
        OBVIOUS
      <3> HIDE DEF e, TypeOK
      <3> QED
        BY <2>2, <2>5, <3>1, UpdatedEntries
    <2>7. /\ \A u \in Harts : ~Waits(h, u) /\ (Waits(h, u)' <=> u = t)
          /\ \A r, u \in Harts : r # h => (Waits(r, u)' <=> Waits(r, u))
          /\ UNCHANGED sync
          /\ \A r, u \in Harts : Acking(r, u)' <=> Acking(r, u)
      BY <1>1, <2>t DEF Merge, Waits, Target, Acking, Goto, WorkPCs, workVars
    <2> HIDE DEF e
    <2>8. fifo'[t] = Updated(fifo[t], e) /\ \A u \in Harts : u # t => fifo'[u] = fifo[u]
      BY <2>5
    <2>9. \A u \in Harts : DOMAIN fifo[u] \subseteq DOMAIN fifo'[u]
      BY <2>6, <2>8
    <2>10. \A r, u \in Harts : \A i \in DOMAIN fifo'[u] :
             Queued(r, u, i)' <=> Queued(r, u, i) \/ (r = h /\ u = t /\ i = k)
      BY <2>4, <2>6, <2>8, ZenonT(30) DEF Queued
    <2>11. k \in DOMAIN fifo'[t]
      BY <2>6, <2>8
    <2>12. \A u \in Harts : \A i \in DOMAIN fifo'[u] :
             ~(u = t /\ i = k) => i \in DOMAIN fifo[u] /\ fifo'[u][i] = fifo[u][i]
      BY <2>6, <2>8, Zenon
    <2>13. Joins(h, t, k)
      BY <2>7, <2>9, <2>10, <2>11, <2>12, Zenon DEF Joins
    <2>14. Merges(t, k, e)
      BY <2>6, <2>8 DEF Merges
    <2>15. ~Enqueue(h)
      BY <1>1 DEF Merge, Enqueue
    <2> QED
      BY <2>13, <2>14, <2>15 DEF e
  <1>2. CASE Enqueue(h)
    <2>t. PICK t \in Harts : t = Target(h)
      BY <1>2, TargetIn DEF Enqueue, SendInv, Sending, SendPCs
    <2>k. PICK k \in Nat : k = Len(fifo[t]) + 1
      OBVIOUS
    <2>1. info[h] \in Entry
      BY <1>2 DEF Enqueue, SendInv, Sending, SendPCs
    <2>2. info[h].smask = {h}
      BY <1>2 DEF Enqueue, SendInv, CallInv, InCall, Sending, SendPCs
    <2>3. fifo' = [fifo EXCEPT ![t] = Append(fifo[t], info[h])]
      BY <1>2, <2>t DEF Enqueue
    <2>7. /\ \A u \in Harts : ~Waits(h, u) /\ (Waits(h, u)' <=> u = t)
          /\ \A r, u \in Harts : r # h => (Waits(r, u)' <=> Waits(r, u))
          /\ UNCHANGED sync
          /\ \A r, u \in Harts : Acking(r, u)' <=> Acking(r, u)
      BY <1>2, <2>t DEF Enqueue, SendInv, Sending, SendPCs, Waits, Target, Acking, Goto, WorkPCs, workVars, sendVars
    <2>8. fifo'[t] = Append(fifo[t], info[h]) /\ \A u \in Harts : u # t => fifo'[u] = fifo[u]
      BY <2>3
    <2>9. /\ DOMAIN fifo'[t] = DOMAIN fifo[t] \cup {k} /\ k \notin DOMAIN fifo[t]
          /\ fifo'[t][k] = info[h] /\ \A i \in DOMAIN fifo[t] : fifo'[t][i] = fifo[t][i]
      <3>1. fifo[t] \in Seq(Entry)
        OBVIOUS
      <3> QED
        BY <2>1, <2>8, <2>k, <3>1
    <2>10. \A u \in Harts : DOMAIN fifo[u] \subseteq DOMAIN fifo'[u]
      BY <2>8, <2>9
    <2>11. \A r, u \in Harts : \A i \in DOMAIN fifo'[u] :
             Queued(r, u, i)' <=> Queued(r, u, i) \/ (r = h /\ u = t /\ i = k)
      <3>1. ASSUME NEW r \in Harts, NEW i \in DOMAIN fifo'[t]
            PROVE  Queued(r, t, i)' <=> Queued(r, t, i) \/ (r = h /\ i = k)
        BY <2>2, <2>9 DEF Queued
      <3>2. ASSUME NEW r \in Harts, NEW u \in Harts, u # t, NEW i \in DOMAIN fifo'[u]
            PROVE  Queued(r, u, i)' <=> Queued(r, u, i)
        BY <2>8, <3>2 DEF Queued
      <3> QED
        BY <3>1, <3>2
    <2>12. k \in DOMAIN fifo'[t]
      BY <2>9
    <2>13. \A u \in Harts : \A i \in DOMAIN fifo'[u] :
             ~(u = t /\ i = k) => i \in DOMAIN fifo[u] /\ fifo'[u][i] = fifo[u][i]
      BY <2>8, <2>9, Zenon
    <2>14. Joins(h, t, k)
      BY <2>7, <2>10, <2>11, <2>12, <2>13, Zenon DEF Joins
    <2>15. Adds(t, k, info[h])
      BY <2>9 DEF Adds
    <2>16. ~Merge(h)
      BY <1>2 DEF Merge, Enqueue
    <2> QED
      BY <2>14, <2>15, <2>16
  <1> QED
    BY <1>1, <1>2

(* Steps with which hart h acknowledges to m.                              *)
Answers(h, m) ==
  /\ UNCHANGED fifo
  /\ sync' = sync \cup {m}
  /\ \A r, u \in Harts : Waits(r, u)' <=> Waits(r, u)
  /\ Acking(m, h)
  /\ \A r, u \in Harts : Acking(r, u)' <=> Acking(r, u) /\ ~(r = m /\ u = h)

LEMMA AnswerSteps ==
  ASSUME TypeOK, SendInv, NEW h \in Harts, Ack(h) \/ AckLast(h) \/ AckReturn(h)
  PROVE  \E m \in Harts : Answers(h, m)
  <1> USE DEF TypeOK
  <1>1. pc[h] = "ack" /\ acks[h] # {}
    BY DEF Ack, AckLast, AckReturn, Acknowledge, SendInv
  <1>2. Min(acks[h]) \in acks[h] /\ acks[h] \in SUBSET Harts
    BY <1>1, MinIn, TlbAssumption
  <1>3. PICK m \in Harts : m = Min(acks[h])
    BY <1>2
  <1>4. Acking(m, h) /\ UNCHANGED fifo /\ sync' = sync \cup {m}
    BY <1>1, <1>2, <1>3 DEF Ack, AckLast, AckReturn, Acknowledge, Acking
  <1>5. acks' = [acks EXCEPT ![h] = @ \ {m}] /\ (pc'[h] # "ack" => acks[h] = {m})
    BY <1>1, <1>3 DEF Ack, AckLast, AckReturn, Acknowledge
  <1>6. \A s \in Harts : s # h => pc'[s] = pc[s] /\ ret'[s] = ret[s]
    BY DEF Ack, AckLast, AckReturn, Acknowledge, ServiceDone, Goto
  <1>7. UNCHANGED <<event, todo>>
    BY DEF Ack, AckLast, AckReturn, Acknowledge, sendVars
  <1>8. pc'[h] \in {"ack", "dequeue", ret[h]} /\ (pc'[h] \in {"ack", "dequeue"} => ret'[h] = ret[h])
        /\ (pc'[h] = ret[h] => ret[h] # "process")
    <2>1. pc[h] \in PCs /\ ret[h] # "ack" /\ ret[h] # "dequeue"
      OBVIOUS
    <2> QED
      BY <1>1, <2>1 DEF Ack, AckLast, AckReturn, Acknowledge, ServiceDone, Exceeded, Goto
  <1>9. \A r, u \in Harts : Acking(r, u)' <=> Acking(r, u) /\ ~(r = m /\ u = h)
    BY <1>1, <1>5, <1>6 DEF Acking
  <1>10. \A u \in Harts : Waits(h, u)' <=> Waits(h, u)
    BY <1>1, <1>7, <1>8 DEF Waits, Target, WorkPCs
  <1>11. \A r, u \in Harts : r # h => (Waits(r, u)' <=> Waits(r, u))
    BY <1>6, <1>7 DEF Waits, Target
  <1> HIDE DEF TypeOK
  <1>12. Answers(h, m)
    BY <1>4, <1>9, <1>10, <1>11, Zenon DEF Answers
  <1> QED
    BY <1>12

(* Dequeue: the acknowledgements of the first entry are in hand.           *)
Serves(h) ==
  /\ UNCHANGED sync
  /\ \A r, u \in Harts : Waits(r, u)' <=> Waits(r, u)
  /\ \A r, u \in Harts : u # h => /\ Acking(r, u)' <=> Acking(r, u)
                                  /\ fifo'[u] = fifo[u]
  /\ \A r \in Harts : ~Acking(r, h) /\ (Acking(r, h)' <=> Queued(r, h, 1))
  /\ \A i \in DOMAIN fifo'[h] : i + 1 # 1 /\ i + 1 \in DOMAIN fifo[h] /\ fifo'[h][i] = fifo[h][i + 1]
  /\ \A i \in DOMAIN fifo[h] : i # 1 => i - 1 \in DOMAIN fifo'[h] /\ fifo'[h][i - 1] = fifo[h][i]
  /\ \A i, j \in DOMAIN fifo'[h] : i + 1 = j + 1 => i = j

LEMMA ServeStep ==
  ASSUME TypeOK, NEW h \in Harts, Dequeue(h)
  PROVE  Serves(h)
  <1> USE DEF TypeOK
  <1>1. fifo[h] \in Seq(Entry) /\ fifo[h] # << >> /\ fifo'[h] = Tail(fifo[h])
    BY DEF Dequeue
  <1>2. 1 \in DOMAIN fifo[h] /\ Head(fifo[h]) = fifo[h][1]
    BY <1>1
  <1>3. /\ \A i \in DOMAIN fifo'[h] : i + 1 # 1 /\ i + 1 \in DOMAIN fifo[h] /\ fifo'[h][i] = fifo[h][i + 1]
        /\ \A i \in DOMAIN fifo[h] : i # 1 => i - 1 \in DOMAIN fifo'[h] /\ fifo'[h][i - 1] = fifo[h][i]
        /\ \A i, j \in DOMAIN fifo'[h] : i + 1 = j + 1 => i = j
    BY <1>1
  <1>4. pc[h] = "dequeue" /\ pc'[h] = "ack" /\ acks'[h] = fifo[h][1].smask
    BY <1>2 DEF Dequeue, Goto
  <1>5. \A s \in Harts : s # h => pc'[s] = pc[s] /\ acks'[s] = acks[s] /\ fifo'[s] = fifo[s]
    BY DEF Dequeue, Goto
  <1>6. UNCHANGED <<sync, event, todo, ret>>
    BY DEF Dequeue, sendVars
  <1>7. \A r, u \in Harts : Waits(r, u)' <=> Waits(r, u)
    BY <1>4, <1>5, <1>6 DEF Waits, Target, WorkPCs
  <1>8. \A r, u \in Harts : u # h => (Acking(r, u)' <=> Acking(r, u))
    BY <1>5 DEF Acking
  <1>9. \A r \in Harts : ~Acking(r, h) /\ (Acking(r, h)' <=> Queued(r, h, 1))
    BY <1>2, <1>4 DEF Acking, Queued
  <1> HIDE DEF TypeOK
  <1> QED
    BY <1>3, <1>5, <1>6, <1>7, <1>8, <1>9 DEF Serves

LEMMA AckNext ==
  ASSUME TypeOK, SendInv, CallInv, NoStrayAck, [Next]_vars, torn' = {}
  PROVE  NoStrayAck'
  <1> USE DEF TypeOK
  <1>1. ASSUME UNCHANGED vars PROVE NoStrayAck'
    BY <1>1 DEF vars, NoStrayAck, Acking, Queued, Waits, Target
  <1>2. ASSUME NEW h \in Harts, Quiet(h) PROVE NoStrayAck'
    <2>1. \A r, t \in Harts : (Waits(r, t)' <=> Waits(r, t)) /\ (Acking(r, t)' <=> Acking(r, t))
      BY <1>2 DEF Quiet, Waits, Target, Acking
    <2>2. UNCHANGED <<fifo, sync>>
      BY <1>2 DEF Quiet
    <2> QED
      BY <2>1, <2>2 DEF NoStrayAck, Queued
  <1>3. ASSUME NEW h \in Harts, NEW t \in Harts, NEW k, Joins(h, t, k)
        PROVE  NoStrayAck'
    <2> HIDE DEF TypeOK
    <2>1. \A u \in Harts : ~Acking(h, u) /\ \A i \in DOMAIN fifo[u] : ~Queued(h, u, i)
      BY <1>3 DEF NoStrayAck, Joins
    <2>2. h \notin sync
      BY <1>3 DEF NoStrayAck, Joins
    <2>3. \A r, u \in Harts : \A i : Queued(r, u, i) => i \in DOMAIN fifo[u]
      BY DEF Queued
    <2>4. ASSUME NEW r \in Harts, NEW u \in Harts, r # h
          PROVE  /\ Acking(r, u)' => Waits(r, u)' /\ r \notin sync'
                 /\ \A i \in DOMAIN fifo'[u] : Queued(r, u, i)' =>
                      /\ Waits(r, u)' /\ r \notin sync' /\ ~Acking(r, u)'
                      /\ \A j \in DOMAIN fifo'[u] : Queued(r, u, j)' => i = j
                 /\ r \in sync' => \E v \in Harts : Waits(r, v)'
      BY <1>3, <2>3, <2>4 DEF NoStrayAck, Joins
    <2>5. ASSUME NEW u \in Harts
          PROVE  /\ Acking(h, u)' => Waits(h, u)' /\ h \notin sync'
                 /\ \A i \in DOMAIN fifo'[u] : Queued(h, u, i)' =>
                      /\ Waits(h, u)' /\ h \notin sync' /\ ~Acking(h, u)'
                      /\ \A j \in DOMAIN fifo'[u] : Queued(h, u, j)' => i = j
                 /\ h \in sync' => \E v \in Harts : Waits(h, v)'
      BY <1>3, <2>1, <2>2, <2>3 DEF Joins
    <2> QED
      BY <2>4, <2>5 DEF NoStrayAck
  <1>6. ASSUME NEW h \in Harts, Sync(h) PROVE NoStrayAck'
    <2>1. /\ \A u \in Harts : ~Waits(h, u)'
          /\ \A r, u \in Harts : r # h => (Waits(r, u)' <=> Waits(r, u))
          /\ \A r, u \in Harts : Acking(r, u)' <=> Acking(r, u)
      BY <1>6 DEF Sync, Waits, Acking, Target, Goto, WorkPCs, workVars
    <2>2. h \in sync /\ sync' = sync \ {h} /\ UNCHANGED fifo
      BY <1>6 DEF Sync
    <2> HIDE DEF TypeOK
    <2> QED
      BY <2>1, <2>2 DEF NoStrayAck, Queued
  <1>7. ASSUME NEW h \in Harts, NEW m \in Harts, Answers(h, m) PROVE NoStrayAck'
    <2> HIDE DEF TypeOK
    <2>1. \A r, u \in Harts : \A i : Queued(r, u, i)' <=> Queued(r, u, i)
      BY <1>7 DEF Answers, Queued
    <2>2. Waits(m, h) /\ \A u \in Harts : Waits(m, u) => u = h
      BY <1>7, WaitsForOne DEF Answers, NoStrayAck
    <2>3. \A u \in Harts : ~Acking(m, u)' /\ \A i \in DOMAIN fifo[u] : ~Queued(m, u, i)
      BY <1>7, <2>2 DEF Answers, NoStrayAck
    <2> QED
      BY <1>7, <2>1, <2>2, <2>3 DEF Answers, NoStrayAck
  <1>8. ASSUME NEW h \in Harts, Serves(h) PROVE NoStrayAck'
    <2> HIDE DEF TypeOK
    <2>1. \A r, u \in Harts : \A i \in DOMAIN fifo'[u] : u # h => (Queued(r, u, i)' <=> Queued(r, u, i))
      BY <1>8 DEF Serves, Queued
    <2>2. \A r \in Harts : \A i \in DOMAIN fifo'[h] : Queued(r, h, i)' <=> Queued(r, h, i + 1)
      BY <1>8 DEF Serves, Queued
    <2>3. ASSUME NEW r \in Harts, NEW u \in Harts, u # h
          PROVE  /\ Acking(r, u)' => Waits(r, u)' /\ r \notin sync'
                 /\ \A i \in DOMAIN fifo'[u] : Queued(r, u, i)' =>
                      /\ Waits(r, u)' /\ r \notin sync' /\ ~Acking(r, u)'
                      /\ \A j \in DOMAIN fifo'[u] : Queued(r, u, j)' => i = j
                 /\ r \in sync' => \E v \in Harts : Waits(r, v)'
      BY <1>8, <2>1, <2>3 DEF Serves, NoStrayAck
    <2>4. ASSUME NEW r \in Harts
          PROVE  /\ Acking(r, h)' => Waits(r, h)' /\ r \notin sync'
                 /\ \A i \in DOMAIN fifo'[h] : Queued(r, h, i)' =>
                      /\ Waits(r, h)' /\ r \notin sync' /\ ~Acking(r, h)'
                      /\ \A j \in DOMAIN fifo'[h] : Queued(r, h, j)' => i = j
                 /\ r \in sync' => \E v \in Harts : Waits(r, v)'
      <3>1. Queued(r, h, 1) => Waits(r, h) /\ r \notin sync
        BY DEF NoStrayAck, Queued
      <3>2. \A i \in DOMAIN fifo'[h] : Queued(r, h, i)' =>
              Waits(r, h) /\ r \notin sync /\ ~Queued(r, h, 1)
              /\ \A j \in DOMAIN fifo'[h] : Queued(r, h, j)' => i + 1 = j + 1
        BY <1>8, <2>2 DEF Serves, NoStrayAck, Queued
      <3> QED
        BY <1>8, <3>1, <3>2 DEF Serves, NoStrayAck
    <2> QED
      BY <2>3, <2>4 DEF NoStrayAck
  <1>9. ASSUME NEW h \in Harts, TlbInit(h) PROVE NoStrayAck'
    <2>1. /\ \A r, u \in Harts : (Waits(r, u)' <=> Waits(r, u)) /\ (Acking(r, u)' <=> Acking(r, u))
          /\ \A u \in Harts : ~Waits(h, u)
      BY <1>9 DEF TlbInit, Waits, Acking, Target, Goto, WorkPCs, workVars, sendVars
    <2>2. sync' = sync \ {h} /\ UNCHANGED fifo
      BY <1>9 DEF TlbInit
    <2> HIDE DEF TypeOK
    <2> QED
      BY <2>1, <2>2 DEF NoStrayAck, Queued
  <1>10. ASSUME NEW h \in Harts, FifoInit(h) PROVE NoStrayAck'
    <2>1. \A r, u \in Harts : (Waits(r, u)' <=> Waits(r, u)) /\ (Acking(r, u)' <=> Acking(r, u))
      BY <1>10 DEF FifoInit, Waits, Acking, Target, Goto, WorkPCs, workVars, sendVars
    <2>2. UNCHANGED sync /\ fifo'[h] = << >> /\ \A u \in Harts : u # h => fifo'[u] = fifo[u]
      BY <1>10 DEF FifoInit
    <2> HIDE DEF TypeOK
    <2> QED
      BY <2>1, <2>2 DEF NoStrayAck, Queued
  <1>11. ASSUME NEW h \in Harts, Corrupt(h) PROVE FALSE
    BY <1>11 DEF Corrupt
  <1> QED
    BY <1>1, <1>2, <1>3, <1>6, <1>7, <1>8, <1>9, <1>10, <1>11, StepKinds, JoinSteps, AnswerSteps, ServeStep

(* A torn fifo stays one.                                                  *)
LEMMA TornStays ==
  ASSUME [Next]_vars
  PROVE  torn \subseteq torn'
  <1>1. ASSUME NEW h \in Harts, Run(h) PROVE torn \subseteq torn'
    BY <1>1 DEF Run, SendDone, NoUpdate, UpdateSelf, Merge, NoMerge, Enqueue, EnqueueFull, SetBit, Raise, Sync,
         SyncWait, Dequeue, DequeueEmpty, Ack, AckLast, AckReturn, Acknowledge, ClearIpi, XchgType, ProcessSmode,
         ProcessTlb, ProcessDone, IpiInit, PlatformIpiInit, TlbInit, FifoInit, NextJump
  <1>2. ASSUME NEW h \in Harts, Choose(h) PROVE torn \subseteq torn'
    BY <1>2 DEF Choose, Request, SendSmode, SendMany, TakeSsip, Stop, HartStart, Corrupt
  <1> QED
    BY <1>1, <1>2 DEF Next, vars
-----------------------------------------------------------------------------
LEMMA AllUpNext ==
  ASSUME ~MayStop, TypeOK, AllUp, [Next]_vars
  PROVE  AllUp'
  <1> USE DEF TypeOK, AllUp, Booting, Goto, sendVars, workVars
  <1>1. ASSUME UNCHANGED vars PROVE AllUp'
    BY <1>1 DEF vars
  <1>2. ASSUME NEW h \in Harts, NEW q, NEW mask, Request(h, q, mask) PROVE AllUp'
    BY <1>2 DEF Request, SendMany
  <1>3. ASSUME NEW h \in Harts, NEW mask, SendSmode(h, mask) PROVE AllUp'
    BY <1>3 DEF SendSmode, SendMany
  <1>4. ASSUME NEW h \in Harts, SendDone(h) \/ NoUpdate(h) \/ UpdateSelf(h) \/ Merge(h) \/ NoMerge(h)
        PROVE  AllUp'
    BY <1>4 DEF SendDone, NoUpdate, UpdateSelf, Merge, NoMerge
  <1>5. ASSUME NEW h \in Harts,
               Enqueue(h) \/ EnqueueFull(h) \/ SetBit(h) \/ Raise(h) \/ Sync(h) \/ SyncWait(h)
        PROVE  AllUp'
    BY <1>5 DEF Enqueue, EnqueueFull, SetBit, Raise, Sync, SyncWait, Serve
  <1>6. ASSUME NEW h \in Harts, Dequeue(h) \/ DequeueEmpty(h) \/ Ack(h) \/ AckLast(h) \/ AckReturn(h)
        PROVE  AllUp'
    <2>1. ret[h] \in {"process", "enqueue", "sync"}
      OBVIOUS
    <2> QED
      BY <1>6, <2>1 DEF Dequeue, DequeueEmpty, Ack, AckLast, AckReturn, Acknowledge, ServiceDone
  <1>7. ASSUME NEW h \in Harts,
               ClearIpi(h) \/ XchgType(h) \/ ProcessSmode(h) \/ ProcessTlb(h) \/ ProcessDone(h) \/ TakeSsip(h)
        PROVE  AllUp'
    BY <1>7 DEF ClearIpi, XchgType, ProcessSmode, ProcessTlb, ProcessDone, TakeSsip, Serve
  <1>8. ASSUME NEW h \in Harts, Stop(h) \/ IpiInit(h) \/ PlatformIpiInit(h) \/ TlbInit(h) \/ FifoInit(h)
                 \/ NextJump(h) \/ Corrupt(h)
        PROVE  FALSE
    BY <1>8 DEF Stop, IpiInit, PlatformIpiInit, TlbInit, FifoInit, NextJump, Corrupt
  <1>9. ASSUME NEW h \in Harts, NEW g \in Harts, HartStart(h, g) PROVE FALSE
    BY <1>9 DEF HartStart
  <1> QED
    BY <1>1, <1>2, <1>3, <1>4, <1>5, <1>6, <1>7, <1>8, <1>9, StepCases, Zenon DEF Run

(* An answer that is under way, and one that has just been asked for, is   *)
(* under way after any step but sbi_fifo_init of the hart that owes it, as *)
(* long as that hart's fifo is not torn.                                   *)
LEMMA KeptNext ==
  ASSUME TypeOK, SendInv, CallInv, [Next]_vars, NEW r \in Harts, NEW t \in Harts,
         Waits(r, t)', Waits(r, t) => Underway(r, t), ~FifoInit(t), t \notin torn
  PROVE  Underway(r, t)'
  <1>1. ASSUME UNCHANGED vars PROVE Underway(r, t)'
    BY <1>1 DEF vars, Underway, Acking, Queued, Waits, Target
  <1>2. ASSUME NEW h \in Harts, Quiet(h) PROVE Underway(r, t)'
    <2>1. (Waits(r, t)' <=> Waits(r, t)) /\ (Acking(r, t)' <=> Acking(r, t))
      BY <1>2 DEF Quiet, Waits, Target, Acking
    <2>2. UNCHANGED <<fifo, sync>>
      BY <1>2 DEF Quiet
    <2> QED
      BY <2>1, <2>2 DEF Underway, Queued
  <1>3. ASSUME NEW h \in Harts, NEW u \in Harts, NEW k, Joins(h, u, k) PROVE Underway(r, t)'
    BY <1>3 DEF Joins, Underway
  <1>4. ASSUME NEW h \in Harts, Sync(h) PROVE Underway(r, t)'
    <2>1. /\ ~Waits(h, t)'
          /\ r # h => (Waits(r, t)' <=> Waits(r, t))
          /\ Acking(r, t)' <=> Acking(r, t)
      BY <1>4 DEF TypeOK, Sync, Waits, Acking, Target, Goto, WorkPCs, workVars
    <2>2. sync' = sync \ {h} /\ UNCHANGED fifo
      BY <1>4 DEF Sync
    <2> QED
      BY <2>1, <2>2 DEF Underway, Queued
  <1>5. ASSUME NEW h \in Harts, NEW m \in Harts, Answers(h, m) PROVE Underway(r, t)'
    BY <1>5 DEF Answers, Underway, Queued
  <1>6. ASSUME NEW h \in Harts, Serves(h) PROVE Underway(r, t)'
    <2>1. ASSUME NEW i \in DOMAIN fifo[h], Queued(r, h, i)
          PROVE  Acking(r, h)' \/ \E j \in DOMAIN fifo'[h] : Queued(r, h, j)'
      <3>1. CASE i = 1
        BY <1>6, <2>1, <3>1 DEF Serves
      <3>2. CASE i # 1
        <4>1. Queued(r, h, i - 1)'
          BY <1>6, <2>1, <3>2 DEF Serves, Queued
        <4> QED
          BY <1>6, <3>2, <4>1 DEF Serves
      <3> QED
        BY <3>1, <3>2
    <2>2. t # h => /\ Acking(r, t) => Acking(r, t)'
                   /\ \A i \in DOMAIN fifo[t] : Queued(r, t, i) => i \in DOMAIN fifo'[t] /\ Queued(r, t, i)'
      BY <1>6 DEF Serves, Queued
    <2>3. UNCHANGED sync /\ (Waits(r, t)' => Waits(r, t)) /\ ~Acking(r, h)
      BY <1>6 DEF Serves
    <2> QED
      BY <2>1, <2>2, <2>3 DEF Underway
  <1>7. ASSUME NEW h \in Harts, TlbInit(h) PROVE Underway(r, t)'
    <2>1. pc[h] = "tlb_init" /\ pc'[h] = "fifo_init"
      BY <1>7 DEF TlbInit, Goto, TypeOK
    <2>2. r # h
      BY <2>1 DEF Waits, WorkPCs
    <2>3. sync' = sync \ {h} /\ fifo'[t] = fifo[t]
      BY <1>7 DEF TlbInit
    <2>4. (Waits(r, t)' <=> Waits(r, t)) /\ (Acking(r, t)' <=> Acking(r, t))
      BY <1>7, <2>1, <2>2 DEF TlbInit, Goto, TypeOK, Waits, Acking, Target, sendVars, workVars
    <2> QED
      BY <2>2, <2>3, <2>4 DEF Underway, Queued
  <1>8. ASSUME NEW h \in Harts, FifoInit(h) \/ Corrupt(h) PROVE Underway(r, t)'
    <2>1. h # t
      BY <1>8 DEF Corrupt
    <2>2. UNCHANGED sync /\ fifo'[t] = fifo[t]
      BY <1>8, <2>1 DEF FifoInit, Corrupt, TypeOK
    <2>3. (Waits(r, t)' <=> Waits(r, t)) /\ (Acking(r, t)' <=> Acking(r, t))
      BY <1>8 DEF FifoInit, Corrupt, Goto, TypeOK, Waits, Acking, Target, sendVars, workVars, WorkPCs
    <2> QED
      BY <2>2, <2>3 DEF Underway, Queued
  <1> QED
    BY <1>1, <1>2, <1>3, <1>4, <1>5, <1>6, <1>7, <1>8, StepKinds, JoinSteps, AnswerSteps, ServeStep

LEMMA AckComesNext ==
  ASSUME TypeOK, SendInv, CallInv, AckComes, AllUp, [Next]_vars
  PROVE  AckComes'
  <1>1. ASSUME NEW t \in Harts PROVE ~FifoInit(t) /\ t \notin torn
    BY <1>1 DEF FifoInit, AllUp, Booting
  <1>2. ASSUME NEW r \in Harts, NEW t \in Harts, Waits(r, t)' PROVE Underway(r, t)'
    BY <1>1, <1>2, KeptNext DEF AckComes
  <1> QED
    BY <1>2 DEF AckComes

(* No acknowledgement is under way but to a hart that waits for the hart   *)
(* it comes from, and then only one, also when harts stop and start, until *)
(* a sbi_fifo_init meets another hart's operation on the fifo.             *)
THEOREM NoStrayAckHolds == Spec => [](CallInv /\ (torn = {} => NoStrayAck))
  <1> DEFINE Inv == CallInv /\ (torn = {} => NoStrayAck)
  <1>1. Init => Inv
    BY DEF Init, CallInv, InCall, Sending, NoStrayAck, Acking, Queued, Waits, SendPCs, WorkPCs
  <1>2. WakeInv /\ Inv /\ [Next]_vars => Inv'
    BY CallNext, AckNext, TornStays DEF WakeInv
  <1> QED
    BY <1>1, <1>2, WakeInvariance, PTL DEF Spec

(* An answer that a hart of sbi_ipi_send_many waits for gets lost only     *)
(* when its target boots, or has torn its fifo when it did, whatever other *)
(* harts stop, start and tear theirs.                                      *)
THEOREM AnswerKeptHolds == Spec => AnswerKept
  <1> DEFINE Kept == \A r, t \in Harts :
               Waits(r, t)' /\ (Waits(r, t) => Underway(r, t)) =>
                 Underway(r, t)' \/ FifoInit(t) \/ t \in torn
  <1>1. TypeOK /\ SendInv /\ CallInv /\ [Next]_vars => [Kept]_vars
    <2> SUFFICES ASSUME TypeOK, SendInv, CallInv, [Next]_vars PROVE Kept
      OBVIOUS
    <2> QED
      BY KeptNext
  <1>2. WakeInv => TypeOK /\ SendInv
    BY DEF WakeInv
  <1> QED
    BY <1>1, <1>2, WakeInvariance, NoStrayAckHolds, PTL DEF Spec, AnswerKept

(* As long as no hart stops, exactly one acknowledgement is under way for  *)
(* every hart that waits in tlb_sync, and none for the others.             *)
THEOREM OneAckHolds == ~MayStop => (Spec => []OneAck)
  <1> SUFFICES ASSUME ~MayStop PROVE Spec => []OneAck
    OBVIOUS
  <1>1. Init => AllUp /\ AckComes
    BY DEF Init, AllUp, Booting, AckComes, Waits, WorkPCs
  <1>2. WakeInv /\ CallInv /\ AllUp /\ AckComes /\ [Next]_vars => AllUp' /\ AckComes'
    BY AllUpNext, AckComesNext DEF WakeInv
  <1>3. AllUp /\ (torn = {} => NoStrayAck) /\ AckComes => OneAck
    BY DEF OneAck, AllUp
  <1> QED
    BY <1>1, <1>2, <1>3, WakeInvariance, NoStrayAckHolds, PTL DEF Spec
-----------------------------------------------------------------------------
(* The pages that a range stands for, and what LocalFn makes of them.      *)
Whole(e) == e.start = 0 /\ e.size = 0
Pages(e) ==
  IF Whole(e) \/ e.size = FlushAll THEN 0 .. Space - 1 ELSE {Wrap(e.start + i) : i \in 0 .. e.size - 1}

LEMMA LocalFnIs ==
  ASSUME NEW e, NEW x
  PROVE  x \in LocalFn(e) <=>
           x \in {Stage(e.fn)}
                 \X (IF Stage(e.fn) = "VS" \/ (e.fn = "hfence_gvma_vmid" /\ ~Whole(e)) THEN {e.vmid} ELSE Vmids)
                 \X (IF e.fn \in {"sfence_vma_asid", "hfence_vvma_asid"} /\ ~Whole(e) THEN {e.asid} ELSE Asids)
                 \X Pages(e)
  BY Zenon DEF LocalFn, Whole, Pages

LEMMA PagesInSpace ==
  ASSUME NEW e, e.start \in 0 .. Space - 1, e.size \in 0 .. Space - 1
  PROVE  Pages(e) \subseteq 0 .. Space - 1
  BY TlbAssumption DEF Pages, Wrap

LEMMA PagesOfRange ==
  ASSUME NEW e, e.start \in 0 .. Space - 1, e.size \in 0 .. Space - 1, ~Whole(e),
         e.size # FlushAll, e.start + e.size < Space
  PROVE  Pages(e) = {p \in 0 .. Space - 1 : e.start <= p /\ p < e.start + e.size}
  <1>1. ASSUME NEW p \in Pages(e) PROVE p \in 0 .. Space - 1 /\ e.start <= p /\ p < e.start + e.size
    BY <1>1, TlbAssumption DEF Pages, Wrap
  <1>2. ASSUME NEW p \in 0 .. Space - 1, e.start <= p, p < e.start + e.size PROVE p \in Pages(e)
    <2>1. p - e.start \in 0 .. e.size - 1 /\ Wrap(e.start + (p - e.start)) = p
      BY <1>2, TlbAssumption DEF Wrap
    <2> QED
      BY <2>1, Zenon DEF Pages
  <1> QED
    BY <1>1, <1>2

(* A fence that covers the pages of another one of the same kind.          *)
LEMMA LocalFnCovers ==
  ASSUME NEW a, NEW b, NEW x \in LocalFn(a), a.fn = b.fn,
         a.asid = b.asid \/ a.fn = "sfence_vma", a.vmid = b.vmid \/ a.fn \in {"sfence_vma", "sfence_vma_asid"},
         Whole(a) <=> Whole(b), Pages(a) \subseteq Pages(b)
  PROVE  x \in LocalFn(b)
  BY LocalFnIs DEF Stage

(* tlb_update loses nothing when it widens a range.                        *)
LEMMA UpgradeCovers ==
  ASSUME NEW e \in Entry
  PROVE  /\ LocalFn(e) \subseteq LocalFn(Upgrade(e))
         /\ Upgrade(Upgrade(e)) = Upgrade(e)
  <1>1. CASE e.size > Limit
    <2> DEFINE f == [e EXCEPT !.start = 0, !.size = FlushAll]
    <2>1. Upgrade(e) = f /\ f.fn = e.fn /\ f.asid = e.asid /\ f.vmid = e.vmid /\ f.start = 0 /\ f.size = FlushAll
      BY <1>1 DEF Upgrade, Entry
    <2>2. e.start \in 0 .. Space - 1 /\ e.size \in 0 .. Space - 1
      BY DEF Entry
    <2> HIDE DEF f
    <2>3. ~Whole(e) /\ ~Whole(f) /\ f.size > Limit
      BY <1>1, <2>1, <2>2, TlbAssumption DEF Whole, FlushAll
    <2>4. Pages(f) = 0 .. Space - 1
      BY <2>1 DEF Pages
    <2>5. Pages(e) \subseteq Pages(f)
      BY <2>2, <2>4, PagesInSpace
    <2>6. LocalFn(e) \subseteq LocalFn(f)
      BY <2>1, <2>3, <2>5, LocalFnCovers
    <2>7. Upgrade(f) = f
      <3>1. [f EXCEPT !.start = 0, !.size = FlushAll] = f
        BY <2>1 DEF Entry, f
      <3> QED
        BY <2>3, <3>1 DEF Upgrade
    <2> QED
      BY <2>1, <2>6, <2>7
  <1>2. CASE ~(e.size > Limit)
    BY <1>2 DEF Upgrade
  <1> QED
    BY <1>1, <1>2

(* tlb_range_check loses nothing when it merges, if both ranges end below  *)
(* the end of the address space.                                           *)
LEMMA MergeCovers ==
  ASSUME NEW curr \in Entry, NEW next \in Entry, Mergeable(curr), Mergeable(next),
         UpdateCb(curr, next).verdict # "unchanged"
  PROVE  /\ Mergeable(UpdateCb(curr, next).entry)
         /\ LocalFn(curr) \subseteq LocalFn(UpdateCb(curr, next).entry)
         /\ LocalFn(next) \subseteq LocalFn(UpdateCb(curr, next).entry)
  <1>1. /\ curr.fn = next.fn /\ next.fn \in {"sfence_vma", "sfence_vma_asid"}
        /\ curr.asid = next.asid \/ curr.fn = "sfence_vma"
        /\ UpdateCb(curr, next) = RangeCheck(curr, next)
    BY DEF UpdateCb
  <1>2. \A e \in {curr, next} :
          /\ e.start \in 0 .. Space - 1 /\ e.size \in 0 .. Space - 1
          /\ ~Whole(e) /\ e.start + e.size < Space /\ End(e) = e.start + e.size
    BY <1>1, TlbAssumption DEF Entry, Mergeable, Whole, End, Wrap
  <1>3. \A e \in {curr, next} :
          /\ e.size = FlushAll => e.start = 0 /\ Pages(e) = 0 .. Space - 1
          /\ e.size # FlushAll => Pages(e) = {p \in 0 .. Space - 1 : e.start <= p /\ p < e.start + e.size}
          /\ Pages(e) \subseteq 0 .. Space - 1
    <2>1. \A e \in {curr, next} : e.size = FlushAll => e.start = 0 /\ Pages(e) = 0 .. Space - 1
      BY <1>2, TlbAssumption DEF FlushAll, Pages
    <2> QED
      BY <1>2, <2>1, PagesOfRange, PagesInSpace
  <1>4. CASE next.start <= curr.start /\ End(next) > End(curr)
    <2> DEFINE new == [curr EXCEPT !.start = next.start, !.size = next.size, !.smask = @ \cup next.smask]
    <2>1. UpdateCb(curr, next).entry = new
      BY <1>1, <1>4 DEF RangeCheck
    <2>2. /\ new.fn = curr.fn /\ new.asid = curr.asid /\ new.vmid = curr.vmid
          /\ new.start = next.start /\ new.size = next.size
      BY DEF Entry
    <2> HIDE DEF new
    <2>3. Pages(new) = Pages(next) /\ ~Whole(new) /\ Mergeable(new)
      BY <1>1, <1>2, <2>2 DEF Pages, Whole, Mergeable
    <2>4. Pages(curr) \subseteq Pages(next)
      <3>1. curr.size # FlushAll
        BY <1>2, <1>3, <1>4, TlbAssumption DEF FlushAll
      <3> QED
        BY <1>2, <1>3, <1>4, <3>1, TlbAssumption
    <2>5. LocalFn(curr) \subseteq LocalFn(new)
      BY <1>1, <1>2, <2>2, <2>3, <2>4, LocalFnCovers
    <2>6. LocalFn(next) \subseteq LocalFn(new)
      BY <1>1, <1>2, <2>2, <2>3, LocalFnCovers
    <2> QED
      BY <2>1, <2>3, <2>5, <2>6
  <1>5. CASE ~(next.start <= curr.start /\ End(next) > End(curr))
    <2> DEFINE new == [curr EXCEPT !.smask = @ \cup next.smask]
    <2>1. UpdateCb(curr, next).entry = new /\ next.start >= curr.start /\ End(next) <= End(curr)
      BY <1>1, <1>5 DEF RangeCheck
    <2>2. /\ new.fn = curr.fn /\ new.asid = curr.asid /\ new.vmid = curr.vmid
          /\ new.start = curr.start /\ new.size = curr.size
      BY DEF Entry
    <2> HIDE DEF new
    <2>3. Pages(new) = Pages(curr) /\ ~Whole(new) /\ Mergeable(new)
      BY <1>1, <1>2, <2>2 DEF Pages, Whole, Mergeable
    <2>4. Pages(next) \subseteq Pages(curr)
      <3>1. next.size = FlushAll => curr.size = FlushAll
        BY <1>2, <1>3, <2>1, TlbAssumption DEF FlushAll
      <3> QED
        BY <1>2, <1>3, <2>1, <3>1, TlbAssumption
    <2>5. LocalFn(curr) \subseteq LocalFn(new)
      BY <1>1, <1>2, <2>2, <2>3, LocalFnCovers
    <2>6. LocalFn(next) \subseteq LocalFn(new)
      BY <1>1, <1>2, <2>2, <2>3, <2>4, LocalFnCovers
    <2> QED
      BY <2>1, <2>3, <2>5, <2>6
  <1> QED
    BY <1>4, <1>5
-----------------------------------------------------------------------------
(* What a step of hart h leaves of the other harts' calls ...              *)
Others(h) ==
  /\ DOMAIN owed' = Harts
  /\ \A s \in Harts : s # h =>
       /\ InCall(s)' <=> InCall(s)
       /\ Sending(s)' <=> Sending(s)
       /\ event'[s] = event[s] /\ info'[s] = info[s] /\ todo'[s] = todo[s] /\ owed'[s] \subseteq owed[s]

(* ... and where it leaves h's own.                                        *)
Own(h) ==
  /\ owed'[h] # {} => InCall(h)' /\ event'[h] = "tlb"
  /\ InCall(h)' /\ event'[h] = "tlb" =>
       /\ Mergeable(Upgrade(info'[h]))
       /\ Sending(h)' => info'[h] = Upgrade(info'[h])
       /\ \A x \in owed'[h] : x[2] \in LocalFn(info'[h])
  /\ \A x \in owed'[h] : x[1] \in todo'[h]

LEMMA CallsKept ==
  ASSUME OwedInv, InfoInv, FlushedWhenDone, NEW h \in Harts, Others(h), Own(h)
  PROVE  OwedInv' /\ InfoInv' /\ FlushedWhenDone'
  <1>1. OwedInv'
    BY DEF OwedInv, Others, Own
  <1>2. InfoInv'
    BY DEF InfoInv, Others, Own
  <1>3. FlushedWhenDone'
    BY DEF FlushedWhenDone, Others, Own
  <1> QED
    BY <1>1, <1>2, <1>3

(* Quiet steps keep what is covered, and what is gone.                     *)
LEMMA QuietCovers ==
  ASSUME NoStrayAck, CoverInv, CleanInv, NEW h \in Harts, Quiet(h),
         \A r \in Harts : owed'[r] \subseteq owed[r] \/ (r = h /\ \A u \in Harts : ~Waits(h, u))
  PROVE  CoverInv' /\ CleanInv'
  <1>1. \A r, t \in Harts : (Waits(r, t)' <=> Waits(r, t)) /\ (Acking(r, t)' <=> Acking(r, t))
    BY DEF Quiet, Waits, Target, Acking
  <1>2. UNCHANGED <<fifo, sync>>
    BY DEF Quiet
  <1>3. ASSUME NEW t \in Harts, NEW i \in DOMAIN fifo[t], NEW r \in Harts, Queued(r, t, i),
               NEW x \in OwedOn(r, t)'
        PROVE  x[2] \in LocalFn(fifo[t][i])
    <2>1. Waits(r, t)
      BY <1>3 DEF NoStrayAck
    <2>2. x \in OwedOn(r, t)
      BY <1>3, <2>1 DEF OwedOn
    <2> QED
      BY <1>3, <2>2 DEF CoverInv
  <1>4. CoverInv'
    BY <1>2, <1>3 DEF CoverInv, Queued
  <1>5. ASSUME NEW t \in Harts, NEW r \in Harts, Acking(r, t) \/ (Waits(r, t) /\ r \in sync)
        PROVE  OwedOn(r, t)' = {}
    <2>1. Waits(r, t)
      BY <1>5 DEF NoStrayAck
    <2>2. OwedOn(r, t) = {}
      BY <1>5 DEF CleanInv
    <2> QED
      BY <2>1, <2>2 DEF OwedOn
  <1>6. CleanInv'
    BY <1>1, <1>2, <1>5 DEF CleanInv
  <1> QED
    BY <1>4, <1>6

LEMMA QuietOthers ==
  ASSUME NEW h \in Harts, Quiet(h), DOMAIN owed' = Harts, \A s \in Harts : s # h => owed'[s] \subseteq owed[s]
  PROVE  Others(h)
  BY DEF Quiet, Others, InCall, Sending, Serving

(* Steps that neither begin nor end h's call, nor change what it asks for. *)
Calm(h) ==
  /\ Quiet(h) /\ UNCHANGED owed
  /\ owed[h] # {} => InCall(h)' /\ event'[h] = "tlb" /\ todo'[h] = todo[h]
  /\ InCall(h)' /\ event'[h] = "tlb" => InCall(h) /\ event[h] = "tlb" /\ info'[h] = info[h]
  /\ Sending(h)' /\ event'[h] = "tlb" => Sending(h)

LEMMA CalmKeeps ==
  ASSUME NoStrayAck, FlushInv, NEW h \in Harts, Calm(h)
  PROVE  FlushInv'
  <1> USE DEF FlushInv
  <1>1. Quiet(h) /\ UNCHANGED owed
    BY DEF Calm
  <1>2. CoverInv' /\ CleanInv'
    BY <1>1, QuietCovers
  <1>3. Others(h)
    BY <1>1, QuietOthers DEF OwedInv
  <1>4. Own(h)
    BY DEF Calm, Own, OwedInv, InfoInv, FlushedWhenDone
  <1> QED
    BY <1>2, <1>3, <1>4, CallsKept

LEMMA CalmSteps ==
  ASSUME TypeOK, SendInv, CallInv, FlushInv, NEW h \in Harts
  PROVE  /\ \A mask \in SUBSET Harts : SendSmode(h, mask) => Calm(h)
         /\ \A g \in Harts : HartStart(h, g) => Calm(g)
         /\ SendDone(h) => Calm(h)
         /\ NoUpdate(h) => Calm(h)
         /\ EnqueueFull(h) => Calm(h)
         /\ SetBit(h) => Calm(h)
         /\ Raise(h) => Calm(h)
         /\ SyncWait(h) => Calm(h)
         /\ DequeueEmpty(h) => Calm(h)
         /\ ClearIpi(h) => Calm(h)
         /\ XchgType(h) => Calm(h)
         /\ ProcessSmode(h) => Calm(h)
         /\ ProcessTlb(h) => Calm(h)
         /\ ProcessDone(h) => Calm(h)
         /\ TakeSsip(h) => Calm(h)
         /\ Stop(h) => Calm(h)
         /\ IpiInit(h) => Calm(h)
         /\ PlatformIpiInit(h) => Calm(h)
         /\ NextJump(h) => Calm(h)
  <1> USE QuietSteps DEF TypeOK, Calm, FlushInv, OwedInv, InCall, Sending, Serving, SendPCs, WorkPCs, Goto,
                         sendVars, workVars
  <1>1. \A g \in Harts : ~InCall(g) => owed[g] = {}
    OBVIOUS
  <1>2. \A g \in Harts : todo[g] = {} => owed[g] = {}
    BY DEF FlushedWhenDone
  <1>3. ASSUME NEW mask \in SUBSET Harts, SendSmode(h, mask) PROVE Calm(h)
    BY <1>3, <1>1 DEF SendSmode, SendMany
  <1>31. ASSUME NEW g \in Harts, HartStart(h, g) PROVE Calm(g)
    BY <1>31, <1>1 DEF HartStart
  <1>4. ASSUME SendDone(h) PROVE Calm(h)
    BY <1>4, <1>2 DEF SendDone
  <1>5. ASSUME NoUpdate(h) PROVE Calm(h)
    BY <1>5 DEF NoUpdate
  <1>10. ASSUME EnqueueFull(h) PROVE Calm(h)
    BY <1>10 DEF EnqueueFull, Serve
  <1>11. ASSUME SetBit(h) PROVE Calm(h)
    BY <1>11 DEF SetBit
  <1>12. ASSUME Raise(h) PROVE Calm(h)
    BY <1>12 DEF Raise
  <1>14. ASSUME SyncWait(h) PROVE Calm(h)
    BY <1>14 DEF SyncWait, Serve
  <1>16. ASSUME DequeueEmpty(h) PROVE Calm(h)
    BY <1>16 DEF DequeueEmpty, ServiceDone
  <1>20. ASSUME ClearIpi(h) PROVE Calm(h)
    BY <1>20, <1>1 DEF ClearIpi
  <1>21. ASSUME XchgType(h) PROVE Calm(h)
    BY <1>21, <1>1 DEF XchgType
  <1>22. ASSUME ProcessSmode(h) PROVE Calm(h)
    BY <1>22, <1>1 DEF ProcessSmode
  <1>23. ASSUME ProcessTlb(h) PROVE Calm(h)
    BY <1>23, <1>1 DEF ProcessTlb, Serve
  <1>24. ASSUME ProcessDone(h) PROVE Calm(h)
    BY <1>24, <1>1 DEF ProcessDone
  <1>25. ASSUME TakeSsip(h) PROVE Calm(h)
    BY <1>25, <1>1 DEF TakeSsip
  <1>26. ASSUME Stop(h) PROVE Calm(h)
    BY <1>26, <1>1 DEF Stop
  <1>27. ASSUME IpiInit(h) PROVE Calm(h)
    BY <1>27, <1>1 DEF IpiInit
  <1>28. ASSUME PlatformIpiInit(h) PROVE Calm(h)
    BY <1>28, <1>1 DEF PlatformIpiInit
  <1>30. ASSUME NextJump(h) PROVE Calm(h)
    BY <1>30, <1>1 DEF NextJump
  <1> HIDE QuietSteps DEF TypeOK, Calm, FlushInv, OwedInv, InCall
  <1> QED
    BY <1>3, <1>31, <1>4, <1>5, <1>10, <1>11, <1>12, <1>14, <1>16, <1>20, <1>21, <1>22, <1>23, <1>24, <1>25,
       <1>26, <1>27, <1>28, <1>30
-----------------------------------------------------------------------------
(* The steps that a fence is about, one by one.                            *)
LEMMA RequestFlush ==
  ASSUME TypeOK, SendInv, CallInv, NoStrayAck, FlushInv, NEW h \in Harts, NEW q \in Infos,
         NEW mask \in SUBSET Harts, Mergeable(Upgrade(q)), Request(h, q, mask)
  PROVE  FlushInv'
  <1> USE DEF FlushInv
  <1>1. Quiet(h)
    BY QuietSteps
  <1>2. /\ pc[h] = "smode" /\ pc'[h] = "send" /\ event'[h] = "tlb" /\ todo'[h] = mask \cap up
        /\ info'[h] = TlbInfo(q, h) /\ owed' = [owed EXCEPT ![h] = (mask \cap up) \X LocalFn(q)]
    BY DEF TypeOK, Request, SendMany, Goto
  <1>3. DOMAIN owed' = Harts /\ owed'[h] = (mask \cap up) \X LocalFn(q) /\ \A s \in Harts : s # h => owed'[s] = owed[s]
    BY <1>2 DEF OwedInv
  <1>4. \A u \in Harts : ~Waits(h, u)
    BY <1>2 DEF Waits, WorkPCs
  <1>5. CoverInv' /\ CleanInv'
    BY <1>1, <1>3, <1>4, QuietCovers
  <1>6. Others(h)
    BY <1>1, <1>3, QuietOthers
  <1>7. LocalFn(TlbInfo(q, h)) = LocalFn(q)
    BY DEF TlbInfo, LocalFn
  <1>8. Mergeable(Upgrade(TlbInfo(q, h)))
    BY DEF TlbInfo, Upgrade, Mergeable, Infos
  <1>9. InCall(h)' /\ ~Sending(h)'
    BY <1>2 DEF InCall, Sending, Serving, SendPCs, WorkPCs
  <1>10. \A x \in owed'[h] : x[1] \in todo'[h] /\ x[2] \in LocalFn(info'[h])
    <2> DEFINE L == LocalFn(q)
    <2>1. owed'[h] = (mask \cap up) \X L
      BY <1>3
    <2>2. LocalFn(info'[h]) = L
      BY <1>2, <1>7
    <2> HIDE DEF L
    <2> QED
      BY <1>2, <2>1, <2>2
  <1>11. Own(h)
    BY <1>2, <1>8, <1>9, <1>10 DEF Own
  <1> QED
    BY <1>5, <1>6, <1>11, CallsKept

(* What tlb_update does to the caller's tinfo.                             *)
LEMMA Widened ==
  ASSUME TypeOK, SendInv, FlushInv, NEW h \in Harts, pc[h] = "send", event[h] = "tlb"
  PROVE  /\ info[h] \in Entry /\ Upgrade(info[h]) \in Entry
         /\ Upgrade(Upgrade(info[h])) = Upgrade(info[h])
         /\ Mergeable(Upgrade(info[h]))
         /\ \A x \in owed[h] : x[2] \in LocalFn(Upgrade(info[h]))
  <1>1. info[h] \in Entry
    BY DEF TypeOK, SendInv
  <1>2. Mergeable(Upgrade(info[h])) /\ \A x \in owed[h] : x[2] \in LocalFn(info[h])
    BY DEF FlushInv, InfoInv, InCall
  <1> QED
    BY <1>1, <1>2, UpgradeType, UpgradeCovers

LEMMA UpdateSelfFlush ==
  ASSUME TypeOK, SendInv, CallInv, NoStrayAck, FlushInv, NEW h \in Harts, UpdateSelf(h)
  PROVE  FlushInv'
  <1> USE DEF FlushInv
  <1>1. Quiet(h)
    BY QuietSteps
  <1>2. PICK e : e = Upgrade(info[h])
    OBVIOUS
  <1>3. /\ pc[h] = "send" /\ pc'[h] = "send" /\ event[h] = "tlb" /\ event'[h] = "tlb"
        /\ info'[h] = e /\ todo'[h] = todo[h] \ {h}
        /\ owed' = [r \in Harts |-> {x \in owed[r] : x[1] = h => x[2] \notin LocalFn(e)}]
    BY <1>2 DEF TypeOK, UpdateSelf, Fence
  <1>4. Upgrade(e) = e /\ Mergeable(e) /\ \A x \in owed[h] : x[2] \in LocalFn(e)
    BY <1>2, <1>3, Widened
  <1>5. DOMAIN owed' = Harts /\ \A r \in Harts : owed'[r] \subseteq owed[r]
    BY <1>3
  <1>6. \A x \in owed'[h] : x[1] # h /\ x \in owed[h]
    BY <1>3, <1>4
  <1>7. CoverInv' /\ CleanInv'
    BY <1>1, <1>5, QuietCovers
  <1>8. Others(h)
    BY <1>1, <1>5, QuietOthers
  <1>9. InCall(h)' /\ ~Sending(h)'
    BY <1>3 DEF InCall, Sending, Serving, SendPCs, WorkPCs
  <1>10. Own(h)
    BY <1>3, <1>4, <1>6, <1>9 DEF Own, FlushedWhenDone
  <1> QED
    BY <1>7, <1>8, <1>10, CallsKept

LEMMA NoMergeFlush ==
  ASSUME TypeOK, SendInv, CallInv, NoStrayAck, FlushInv, NEW h \in Harts, NoMerge(h)
  PROVE  FlushInv'
  <1> USE DEF FlushInv
  <1>1. Quiet(h) /\ UNCHANGED owed
    BY QuietSteps DEF NoMerge
  <1>2. PICK e : e = Upgrade(info[h])
    OBVIOUS
  <1>3. /\ pc[h] = "send" /\ pc'[h] = "enqueue" /\ event[h] = "tlb" /\ event'[h] = "tlb"
        /\ info'[h] = e /\ todo'[h] = todo[h]
    BY <1>2 DEF TypeOK, NoMerge, Goto
  <1>4. Upgrade(e) = e /\ Mergeable(e) /\ \A x \in owed[h] : x[2] \in LocalFn(e)
    BY <1>2, <1>3, Widened
  <1>5. CoverInv' /\ CleanInv'
    BY <1>1, QuietCovers
  <1>6. Others(h)
    BY <1>1, QuietOthers DEF OwedInv
  <1>7. InCall(h)'
    BY <1>3 DEF InCall, Sending, SendPCs
  <1>8. Own(h)
    BY <1>1, <1>3, <1>4, <1>7 DEF Own, FlushedWhenDone
  <1> QED
    BY <1>5, <1>6, <1>8, CallsKept

(* A hart that joins an entry, or adds one, has it cover what it is owed.  *)
LEMMA JoinCovers ==
  ASSUME NoStrayAck, CoverInv, CleanInv, NEW h \in Harts, NEW t \in Harts, NEW k, Joins(h, t, k),
         UNCHANGED owed,
         Mergeable(fifo'[t][k]),
         \A x \in owed[h] : x[2] \in LocalFn(fifo'[t][k]),
         k \in DOMAIN fifo[t] => LocalFn(fifo[t][k]) \subseteq LocalFn(fifo'[t][k])
  PROVE  CoverInv' /\ CleanInv'
  <1>1. \A r, u \in Harts : OwedOn(r, u)' = OwedOn(r, u)
    BY DEF OwedOn
  <1>2. ASSUME NEW u \in Harts, NEW i \in DOMAIN fifo'[u], ~(u = t /\ i = k)
        PROVE  /\ Mergeable(fifo'[u][i])
               /\ \A r \in Harts : Queued(r, u, i)' => \A x \in OwedOn(r, u) : x[2] \in LocalFn(fifo'[u][i])
    <2>1. i \in DOMAIN fifo[u] /\ fifo'[u][i] = fifo[u][i]
      BY <1>2 DEF Joins
    <2>2. \A r \in Harts : Queued(r, u, i)' => Queued(r, u, i)
      BY <1>2 DEF Joins
    <2> QED
      BY <2>1, <2>2 DEF CoverInv
  <1>3. \A r \in Harts : Queued(r, t, k)' => \A x \in OwedOn(r, t) : x[2] \in LocalFn(fifo'[t][k])
    <2>1. \A r \in Harts : Queued(r, t, k)' => Queued(r, t, k) \/ r = h
      BY DEF Joins
    <2>2. \A r \in Harts : Queued(r, t, k) => k \in DOMAIN fifo[t] /\ \A x \in OwedOn(r, t) : x[2] \in LocalFn(fifo[t][k])
      BY DEF CoverInv, Queued
    <2>3. OwedOn(h, t) \subseteq owed[h]
      BY DEF OwedOn
    <2> QED
      BY <2>1, <2>2, <2>3
  <1>4. CoverInv'
    BY <1>1, <1>2, <1>3 DEF CoverInv
  <1>5. h \notin sync /\ \A u \in Harts : ~Acking(h, u)
    BY DEF NoStrayAck, Joins
  <1>6. CleanInv'
    BY <1>1, <1>5 DEF CleanInv, Joins
  <1> QED
    BY <1>4, <1>6

(* The caller's own part of a step that leaves its call in sbi_ipi_send.   *)
LEMMA JoinFlush ==
  ASSUME TypeOK, SendInv, CallInv, NoStrayAck, FlushInv, NEW h \in Harts, Merge(h) \/ Enqueue(h)
  PROVE  FlushInv'
  <1> USE DEF FlushInv
  <1>1. PICK t \in Harts, k \in Nat :
        /\ Joins(h, t, k)
        /\ Merge(h) => Merges(t, k, Upgrade(info[h]))
        /\ Enqueue(h) => Adds(t, k, info[h])
    BY JoinSteps
  <1>2. UNCHANGED <<owed, event, todo, ret>> /\ event[h] = "tlb" /\ pc'[h] = "set_bit"
        /\ \A s \in Harts : s # h => pc'[s] = pc[s] /\ info'[s] = info[s]
    BY DEF TypeOK, SendInv, Sending, SendPCs, Merge, Enqueue, Goto, sendVars, workVars
  <1>3. PICK e \in Entry :
        /\ info'[h] = e /\ Upgrade(e) = e /\ Mergeable(e) /\ \A x \in owed[h] : x[2] \in LocalFn(e)
        /\ Merges(t, k, e) \/ Adds(t, k, e)
    <2>1. CASE Merge(h)
      <3>1. pc[h] = "send" /\ event[h] = "tlb" /\ info'[h] = Upgrade(info[h])
        BY <2>1 DEF TypeOK, Merge
      <3> QED
        BY <1>1, <2>1, <3>1, Widened
    <2>2. CASE Enqueue(h)
      <3>1. pc[h] = "enqueue" /\ info'[h] = info[h] /\ Sending(h) /\ InCall(h)
        BY <2>2 DEF Enqueue, sendVars, Sending, SendPCs, InCall
      <3>2. info[h] \in Entry
        BY <1>2, <3>1 DEF TypeOK, SendInv
      <3> QED
        BY <1>1, <1>2, <2>2, <3>1, <3>2 DEF InfoInv
    <2> QED
      BY <2>1, <2>2
  <1>4. Mergeable(fifo'[t][k]) /\ (\A x \in owed[h] : x[2] \in LocalFn(fifo'[t][k]))
        /\ (k \in DOMAIN fifo[t] => LocalFn(fifo[t][k]) \subseteq LocalFn(fifo'[t][k]))
    <2>1. CASE Adds(t, k, e)
      BY <1>3, <2>1 DEF Adds
    <2>2. CASE Merges(t, k, e)
      <3>1. fifo[t][k] \in Entry
        BY <2>2 DEF Merges, TypeOK
      <3>2. Mergeable(fifo[t][k])
        BY <2>2 DEF Merges, CoverInv
      <3> QED
        BY <1>3, <2>2, <3>1, <3>2, MergeCovers DEF Merges
    <2> QED
      BY <1>3, <2>1, <2>2
  <1>5. CoverInv' /\ CleanInv'
    BY <1>1, <1>2, <1>4, JoinCovers
  <1>6. InCall(h)'
    BY <1>2 DEF InCall, Sending, SendPCs
  <1>7. Others(h)
    BY <1>2 DEF Others, OwedInv, InCall, Sending, Serving
  <1>8. Own(h)
    BY <1>2, <1>3, <1>6 DEF Own, FlushedWhenDone
  <1> QED
    BY <1>5, <1>7, <1>8, CallsKept

LEMMA SyncFlush ==
  ASSUME TypeOK, SendInv, CallInv, NoStrayAck, FlushInv, NEW h \in Harts, Sync(h)
  PROVE  FlushInv'
  <1> USE DEF FlushInv
  <1>1. PICK t \in Harts : t = Target(h)
    BY TargetIn DEF TypeOK, Sync, SendInv, Sending, SendPCs
  <1>2. /\ pc[h] = "sync" /\ pc'[h] = "send" /\ event[h] = "tlb" /\ h \in sync
        /\ UNCHANGED <<owed, event, info, fifo, ret, acks>> /\ todo' = [todo EXCEPT ![h] = @ \ {t}]
        /\ sync' = sync \ {h} /\ todo[h] # {}
        /\ \A s \in Harts : s # h => pc'[s] = pc[s]
    BY <1>1 DEF TypeOK, SendInv, Sending, SendPCs, Sync, Goto, workVars
  <1>3. Waits(h, t)
    BY <1>1, <1>2 DEF Waits
  <1>4. OwedOn(h, t) = {}
    BY <1>2, <1>3 DEF CleanInv
  <1>5. /\ \A u \in Harts : ~Waits(h, u)'
        /\ \A r, u \in Harts : r # h => (Waits(r, u)' <=> Waits(r, u))
        /\ \A r, u \in Harts : Acking(r, u)' <=> Acking(r, u)
    BY <1>2 DEF TypeOK, Waits, Acking, Target, WorkPCs
  <1>6. \A r, u \in Harts : OwedOn(r, u)' = OwedOn(r, u)
    BY <1>2 DEF OwedOn
  <1>7. CleanInv'
    BY <1>2, <1>5, <1>6 DEF CleanInv
  <1>8. CoverInv'
    BY <1>2, <1>6 DEF CoverInv, Queued
  <1>9. Others(h)
    BY <1>2 DEF TypeOK, Others, OwedInv, InCall, Sending, Serving
  <1>10. InCall(h) /\ InCall(h)' /\ ~Sending(h)'
    BY <1>2 DEF InCall, Sending, Serving, SendPCs, WorkPCs
  <1>11. \A x \in owed[h] : x[1] \in todo'[h]
    BY <1>2, <1>4 DEF TypeOK, OwedOn, FlushedWhenDone
  <1>12. Own(h)
    BY <1>2, <1>10, <1>11 DEF Own, InfoInv
  <1> QED
    BY <1>7, <1>8, <1>9, <1>12, CallsKept

LEMMA AnswerFlush ==
  ASSUME TypeOK, SendInv, NoStrayAck, FlushInv, NEW h \in Harts, Ack(h) \/ AckLast(h) \/ AckReturn(h)
  PROVE  FlushInv'
  <1> USE DEF FlushInv
  <1>1. PICK m \in Harts : Answers(h, m)
    BY AnswerSteps
  <1>2. UNCHANGED <<owed, event, info, todo>> /\ pc[h] = "ack"
        /\ \A s \in Harts : s # h => pc'[s] = pc[s] /\ ret'[s] = ret[s]
    BY DEF TypeOK, Ack, AckLast, AckReturn, Acknowledge, ServiceDone, Goto, sendVars
  <1>3. InCall(h)' <=> InCall(h)
    BY <1>2 DEF TypeOK, Ack, AckLast, AckReturn, Acknowledge, ServiceDone, Exceeded, Goto,
                InCall, Sending, Serving, SendPCs, WorkPCs
  <1>4. InCall(h) <=> Sending(h)
    BY <1>2 DEF InCall
  <1>5. \A r, u \in Harts : OwedOn(r, u)' = OwedOn(r, u)
    BY <1>2 DEF OwedOn
  <1>6. CoverInv'
    BY <1>1, <1>5 DEF CoverInv, Queued, Answers
  <1>7. OwedOn(m, h) = {} /\ \A u \in Harts : Waits(m, u) => u = h
    BY <1>1, WaitsForOne DEF Answers, CleanInv, NoStrayAck
  <1>8. CleanInv'
    BY <1>1, <1>5, <1>7 DEF CleanInv, Answers
  <1>9. Others(h)
    BY <1>2 DEF Others, OwedInv, InCall, Sending, Serving
  <1>10. Own(h)
    BY <1>2, <1>3, <1>4 DEF Own, OwedInv, InfoInv, FlushedWhenDone
  <1> QED
    BY <1>6, <1>8, <1>9, <1>10, CallsKept

LEMMA ServeFlush ==
  ASSUME TypeOK, SendInv, NoStrayAck, FlushInv, NEW h \in Harts, Dequeue(h)
  PROVE  FlushInv'
  <1> USE DEF FlushInv
  <1>1. Serves(h)
    BY ServeStep
  <1>2. 1 \in DOMAIN fifo[h] /\ Head(fifo[h]) = fifo[h][1]
    <2>1. fifo[h] \in Seq(Entry) /\ fifo[h] # << >>
      BY DEF TypeOK, Dequeue
    <2> QED
      BY <2>1
  <1>3. /\ UNCHANGED <<event, info, todo, ret>> /\ pc[h] = "dequeue" /\ pc'[h] = "ack"
        /\ owed' = [r \in Harts |-> {x \in owed[r] : x[1] = h => x[2] \notin LocalFn(fifo[h][1])}]
        /\ \A s \in Harts : s # h => pc'[s] = pc[s]
    BY <1>2 DEF TypeOK, Dequeue, Goto, Fence, sendVars
  <1>4. DOMAIN owed' = Harts /\ \A r \in Harts : owed'[r] \subseteq owed[r]
    BY <1>3
  <1>5. \A r, u \in Harts : OwedOn(r, u)' \subseteq OwedOn(r, u)
    BY <1>4 DEF OwedOn
  <1>6. \A r \in Harts : Queued(r, h, 1) => OwedOn(r, h)' = {}
    <2> SUFFICES ASSUME NEW r \in Harts, Queued(r, h, 1), NEW x \in OwedOn(r, h)' PROVE FALSE
      OBVIOUS
    <2>1. x \in OwedOn(r, h) /\ x \in owed'[r] /\ x[1] = h
      BY <1>5 DEF OwedOn
    <2>2. x[2] \in LocalFn(fifo[h][1])
      BY <1>2, <2>1 DEF CoverInv
    <2> QED
      BY <1>3, <2>1, <2>2
  <1>7. CleanInv'
    BY <1>1, <1>5, <1>6 DEF CleanInv, Serves
  <1>8. ASSUME NEW u \in Harts, NEW i \in DOMAIN fifo'[u]
        PROVE  /\ Mergeable(fifo'[u][i])
               /\ \A r \in Harts : Queued(r, u, i)' => \A x \in OwedOn(r, u) : x[2] \in LocalFn(fifo'[u][i])
    <2>1. PICK j \in DOMAIN fifo[u] : fifo'[u][i] = fifo[u][j]
      BY <1>1, <1>8 DEF Serves
    <2>2. \A r \in Harts : Queued(r, u, i)' => Queued(r, u, j)
      BY <2>1 DEF Queued
    <2> QED
      BY <2>1, <2>2 DEF CoverInv
  <1>9. CoverInv'
    BY <1>5, <1>8 DEF CoverInv
  <1>10. (InCall(h)' <=> InCall(h)) /\ (Sending(h)' <=> Sending(h))
    BY <1>3 DEF InCall, Sending, Serving, SendPCs, WorkPCs
  <1>11. Others(h)
    BY <1>3, <1>4 DEF Others, InCall, Sending, Serving
  <1>12. Own(h)
    BY <1>3, <1>4, <1>10 DEF Own, OwedInv, InfoInv, FlushedWhenDone
  <1> QED
    BY <1>7, <1>9, <1>11, <1>12, CallsKept

(* A booting hart forgets an answer it no longer waits for, or the fences  *)
(* that nobody has served yet.                                             *)
LEMMA TlbInitFlush ==
  ASSUME TypeOK, FlushInv, NEW h \in Harts, TlbInit(h) \/ FifoInit(h), torn' = {}
  PROVE  FlushInv'
  <1> USE DEF FlushInv
  <1>1. /\ \A r, u \in Harts : (Waits(r, u)' <=> Waits(r, u)) /\ (Acking(r, u)' <=> Acking(r, u))
        /\ \A s \in Harts : (InCall(s)' <=> InCall(s)) /\ (Sending(s)' <=> Sending(s))
    BY DEF TypeOK, TlbInit, FifoInit, Waits, Acking, Target, Goto, WorkPCs, workVars, sendVars, InCall, Sending,
           Serving, SendPCs
  <1>2. /\ UNCHANGED <<owed, event, info, todo>> /\ sync' \subseteq sync
        /\ \A u \in Harts : fifo'[u] = << >> \/ fifo'[u] = fifo[u]
    BY DEF TypeOK, TlbInit, FifoInit, sendVars
  <1>3. \A r, u \in Harts : OwedOn(r, u)' = OwedOn(r, u)
    BY <1>2 DEF OwedOn
  <1>4. CleanInv'
    BY <1>1, <1>2, <1>3 DEF CleanInv
  <1>5. CoverInv'
    BY <1>2, <1>3 DEF CoverInv, Queued
  <1>6. OwedInv' /\ InfoInv' /\ FlushedWhenDone'
    BY <1>1, <1>2 DEF OwedInv, InfoInv, FlushedWhenDone
  <1> QED
    BY <1>4, <1>5, <1>6

LEMMA FlushNext ==
  ASSUME MergeableAsks, TypeOK, SendInv, CallInv, NoStrayAck, FlushInv, [Next]_vars, torn' = {}
  PROVE  FlushInv'
  <1>1. ASSUME UNCHANGED vars PROVE FlushInv'
    BY <1>1 DEF vars, FlushInv, OwedInv, InfoInv, CoverInv, CleanInv, FlushedWhenDone, InCall, Sending, Serving,
                Waits, Acking, Queued, OwedOn, Target
  <1>2. ASSUME NEW h \in Harts, NEW a \in Asks[h], Request(h, a[1], a[2]) PROVE FlushInv'
    <2>1. a[1] \in Infos /\ a[2] \in SUBSET Harts
      BY TlbAssumption
    <2>2. Mergeable(Upgrade(a[1]))
      BY DEF MergeableAsks
    <2> QED
      BY <1>2, <2>1, <2>2, RequestFlush
  <1>3. ASSUME NEW h \in Harts, NEW mask \in Ipis[h], SendSmode(h, mask) PROVE FlushInv'
    <2>1. mask \in SUBSET Harts
      BY TlbAssumption
    <2> QED
      BY <1>3, <2>1, CalmSteps, CalmKeeps
  <1>4. ASSUME NEW h \in Harts, Run(h) PROVE FlushInv'
    BY <1>4, CalmSteps, CalmKeeps, UpdateSelfFlush, NoMergeFlush, JoinFlush, SyncFlush, AnswerFlush, ServeFlush,
       TlbInitFlush, Zenon DEF Run
  <1>5. ASSUME NEW h \in Harts, TakeSsip(h) \/ Stop(h) \/ \E g \in Harts : HartStart(h, g) PROVE FlushInv'
    BY <1>5, CalmSteps, CalmKeeps
  <1>6. ASSUME NEW h \in Harts, Corrupt(h) PROVE FALSE
    BY <1>6 DEF Corrupt
  <1> QED
    BY <1>1, <1>2, <1>3, <1>4, <1>5, <1>6, Zenon DEF Next, Choose

(* When sbi_tlb_request is through with a hart, that hart has executed a   *)
(* fence for all that the caller asked to be removed, after the call, also *)
(* when harts stop and start, until a sbi_fifo_init meets another hart's   *)
(* operation on the fifo; provided that the supervisors ask for ranges     *)
(* that tlb_range_check can compare.                                       *)
THEOREM FlushedWhenDoneHolds == MergeableAsks => (Spec => [](torn = {} => FlushedWhenDone))
  <1> SUFFICES ASSUME MergeableAsks PROVE Spec => [](torn = {} => FlushedWhenDone)
    OBVIOUS
  <1> DEFINE Inv == torn = {} => FlushInv
  <1>1. Init => Inv
    BY DEF Init, FlushInv, OwedInv, InfoInv, CoverInv, CleanInv, FlushedWhenDone, InCall, Sending, Serving,
           SendPCs, WorkPCs, Waits, Acking, OwedOn
  <1>2. WakeInv /\ CallInv /\ (torn = {} => NoStrayAck) /\ Inv /\ [Next]_vars => Inv'
    BY FlushNext, TornStays DEF WakeInv
  <1>3. Inv => (torn = {} => FlushedWhenDone)
    BY DEF FlushInv
  <1> QED
    BY <1>1, <1>2, <1>3, WakeInvariance, NoStrayAckHolds, PTL DEF Spec

(* Without stops no fifo is initialised again, and the promise holds as it *)
(* stands.                                                                 *)
COROLLARY FlushedWithoutStops == MergeableAsks /\ ~MayStop => (Spec => []FlushedWhenDone)
  <1> SUFFICES ASSUME MergeableAsks, ~MayStop PROVE Spec => []FlushedWhenDone
    OBVIOUS
  <1>1. Init => AllUp
    BY DEF Init, AllUp, Booting
  <1>2. WakeInv /\ AllUp /\ [Next]_vars => AllUp'
    BY AllUpNext DEF WakeInv
  <1>3. AllUp => torn = {}
    BY DEF AllUp
  <1> QED
    BY <1>1, <1>2, <1>3, FlushedWhenDoneHolds, WakeInvariance, PTL DEF Spec
=============================================================================
