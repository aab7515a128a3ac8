--------------------------- MODULE TicketLockProofs ---------------------------
(***************************************************************************)
(* Proofs about the ticket lock of lib/sbi/riscv_locks.c, for any number   *)
(* of harts smaller than the number of tickets.                            *)
(***************************************************************************)
EXTENDS TicketLock, FiniteSetTheorems, SequenceTheorems, TLAPS

-----------------------------------------------------------------------------
(* Arithmetic of the wrapping 16-bit counters of spinlock_t.               *)

(* The distance between two tickets is a number below Tickets, and it      *)
(* determines the second ticket.                                           *)
LEMMA DistProps ==
  ASSUME NEW o \in Ticket
  PROVE  /\ \A t \in Ticket : Dist(o, t) \in Nat /\ Dist(o, t) < Tickets
         /\ \A t, u \in Ticket : Dist(o, t) = Dist(o, u) => t = u
         /\ Dist(o, o) = 0
BY TicketsAssumption DEF Dist, Ticket

(* Incrementing a ticket that is not the last before o moves it one place  *)
(* away from o.                                                            *)
LEMMA DistInc ==
  ASSUME NEW o \in Ticket, NEW t \in Ticket, Dist(o, t) + 1 < Tickets
  PROVE  Inc(t) \in Ticket /\ Dist(o, Inc(t)) = Dist(o, t) + 1
BY TicketsAssumption DEF Dist, Ticket, Inc

(* Serving the next ticket brings every other one place nearer.            *)
LEMMA DistServe ==
  ASSUME NEW o \in Ticket
  PROVE  /\ Inc(o) \in Ticket
         /\ \A t \in Ticket \ {o} : Dist(Inc(o), t) = Dist(o, t) - 1
BY TicketsAssumption DEF Dist, Ticket, Inc

(* Any set of harts is finite and smaller than the number of tickets.      *)
LEMMA FewHarts ==
  ASSUME NEW S \in SUBSET Harts
  PROVE  IsFiniteSet(S) /\ Cardinality(S) \in Nat /\ Cardinality(S) < Tickets
<1>1. IsFiniteSet(S) /\ Cardinality(S) <= Cardinality(Harts)
  BY FS_Subset, TicketsAssumption
<1>2. Cardinality(S) \in Nat /\ Cardinality(Harts) \in Nat
  BY <1>1, FS_CardinalityType, TicketsAssumption
<1> QED
  BY <1>1, <1>2, TicketsAssumption
-----------------------------------------------------------------------------
(* The window of tickets: one lemma for a hart that joins the queue, one   *)
(* for the holder that leaves it, one for a step that changes neither.     *)

Window == Counted /\ Windowed /\ Distinct /\ Covered

(* A hart that draws the ticket next (spin_lock's amoadd, spin_trylock's   *)
(* sc.w) extends the window by one and there is room for it.               *)
LEMMA JoinWindow ==
  ASSUME TypeOK, Window, NEW h \in Harts, h \notin Contenders,
         Contenders' = Contenders \cup {h},
         ticket' = [ticket EXCEPT ![h] = next],
         next' = Inc(next), owner' = owner
  PROVE  next' \in Ticket /\ Window'
<1> DEFINE n == Dist(owner, next)
<1> HIDE DEF n
<1>1. Cardinality(Contenders') = Cardinality(Contenders) + 1
  <2>1. IsFiniteSet(Contenders)
    BY FewHarts DEF Contenders
  <2> QED
    BY <2>1, FS_AddElement
<1>2. n + 1 < Tickets
  <2>1. Contenders' \in SUBSET Harts
    BY DEF Contenders
  <2>2. Cardinality(Contenders') < Tickets
    BY <2>1, FewHarts
  <2> QED
    BY <1>1, <2>2 DEF Window, Counted, Ahead, n
<1>3. next' \in Ticket /\ Dist(owner', next') = n + 1
  BY <1>2, DistInc DEF TypeOK, n
<1>4. \A g \in Contenders : ticket'[g] = ticket[g] /\ ticket[g] \in Ticket
  BY DEF TypeOK, Contenders
<1>5. ticket'[h] = next /\ next \in Ticket
  BY DEF TypeOK
<1>6. n \in Nat /\ \A t \in Ticket : Dist(owner, t) \in Nat
  BY DistProps DEF TypeOK, n
<1>7. Counted'
  BY <1>1, <1>3 DEF Window, Counted, Ahead, n
<1>8. Windowed'
  BY <1>3, <1>4, <1>5, <1>6 DEF Window, Windowed, Ahead, n
<1>9. Distinct'
  <2>1. \A g \in Contenders : ticket[g] # next
    BY <1>6 DEF Window, Windowed, Ahead, n
  <2> QED
    BY <2>1, <1>4, <1>5 DEF Window, Distinct
<1>10. Covered'
  <2> SUFFICES ASSUME NEW i \in 0 .. n
               PROVE  \E g \in Contenders' : Dist(owner, ticket'[g]) = i
    BY <1>3, <1>6 DEF Covered, Ahead
  <2>1. CASE i = n
    BY <2>1, <1>5 DEF n
  <2>2. CASE i # n
    <3>1. PICK g \in Contenders : Dist(owner, ticket[g]) = i
      BY <2>2, <1>6 DEF Window, Covered, Ahead, n
    <3> QED
      BY <3>1, <1>4
  <2> QED
    BY <2>1, <2>2
<1> QED
  BY <1>3, <1>7, <1>8, <1>9, <1>10 DEF Window

(* The holder's release (spin_unlock's store) takes the first ticket out   *)
(* of the window and leaves the others in order.                           *)
LEMMA LeaveWindow ==
  ASSUME TypeOK, Window, NEW h \in Contenders, ticket[h] = owner,
         Contenders' = Contenders \ {h},
         ticket' = ticket, next' = next, owner' = Inc(owner)
  PROVE  owner' \in Ticket /\ Window'
<1> DEFINE n == Dist(owner, next)
<1> HIDE DEF n
<1>1. Cardinality(Contenders') = Cardinality(Contenders) - 1
  <2>1. IsFiniteSet(Contenders)
    BY FewHarts DEF Contenders
  <2> QED
    BY <2>1, FS_RemoveElement
<1>2. n \in Nat /\ \A t \in Ticket : Dist(owner, t) \in Nat
  BY DistProps DEF TypeOK, n
<1>3. 0 < n /\ next # owner
  BY DistProps DEF Window, Windowed, Ahead, TypeOK, n
<1>4. owner' \in Ticket /\ \A t \in Ticket \ {owner} : Dist(owner', t) = Dist(owner, t) - 1
  BY DistServe DEF TypeOK
<1>5. Dist(owner', next') = n - 1
  BY <1>3, <1>4 DEF TypeOK, n
<1>6. \A g \in Contenders' : /\ g \in Contenders
                             /\ ticket[g] \in Ticket \ {owner}
                             /\ Dist(owner', ticket[g]) = Dist(owner, ticket[g]) - 1
  BY <1>4 DEF TypeOK, Contenders, Window, Distinct
<1>7. Counted'
  BY <1>1, <1>5 DEF Window, Counted, Ahead, n
<1>8. Windowed'
  BY <1>2, <1>5, <1>6 DEF Window, Windowed, Ahead, n
<1>9. Distinct'
  BY <1>6 DEF Window, Distinct
<1>10. Covered'
  <2> SUFFICES ASSUME NEW i \in 0 .. n - 2
               PROVE  \E g \in Contenders' : Dist(owner', ticket'[g]) = i
    BY <1>2, <1>5 DEF Covered, Ahead
  <2>1. PICK g \in Contenders : Dist(owner, ticket[g]) = i + 1
    BY <1>2 DEF Window, Covered, Ahead, n
  <2>2. g # h
    BY <2>1, DistProps DEF TypeOK
  <2> QED
    BY <2>1, <2>2, <1>6
<1> QED
  BY <1>4, <1>7, <1>8, <1>9, <1>10 DEF Window

(* A step that keeps the counters and the contenders with their tickets    *)
(* keeps the window.                                                       *)
LEMMA KeepWindow ==
  ASSUME Window, Contenders' = Contenders,
         UNCHANGED <<owner, next, ticket>>
  PROVE  Window'
BY DEF Window, Counted, Windowed, Distinct, Covered, Ahead
-----------------------------------------------------------------------------
(* The invariant.                                                          *)

(* The lock starts free with nobody contending (SPIN_LOCK_INITIALIZER).    *)
LEMMA InitLockInv == Init => LockInv
<1> SUFFICES ASSUME Init PROVE LockInv
  OBVIOUS
<1>1. TypeOK
  BY TicketsAssumption, FewHarts DEF Init, TypeOK, PCs, Ticket
<1>2. Contenders = {} /\ Holders = {} /\ Ahead(next) = 0
  BY <1>1, DistProps DEF Init, Contenders, Holders, Ahead, TypeOK
<1>3. Counted
  BY <1>2, FS_EmptySet DEF Counted
<1>4. Windowed /\ Distinct /\ Covered /\ HolderServed
  BY <1>2 DEF Windowed, Distinct, Covered, HolderServed
<1>5. ReadCurrent /\ ReservationCurrent
  BY DEF Init, ReadCurrent, ReservationCurrent
<1> QED
  BY <1>1, <1>3, <1>4, <1>5 DEF LockInv

(* Every access to the lock word keeps the invariant: one case for each.   *)
LEMMA NextLockInv == LockInv /\ [Next]_vars => LockInv'
<1> SUFFICES ASSUME LockInv, [Next]_vars PROVE LockInv'
  OBVIOUS
<1> USE DEF LockInv
<1>w. Window
  BY DEF Window
<1>free. Unlocked => Contenders = {}
  <2> SUFFICES ASSUME Unlocked, NEW h \in Contenders PROVE FALSE
    OBVIOUS
  <2> QED
    BY DistProps DEF Unlocked, Windowed, Ahead, TypeOK, Contenders
<1>1. ASSUME NEW h \in Harts, Draw(h) PROVE LockInv'
  <2>1. /\ h \notin Contenders
        /\ Contenders' = Contenders \cup {h}
    BY <1>1 DEF Draw, Goto, Contenders, TypeOK
  <2>2. next' \in Ticket /\ Window'
    BY <1>w, <1>1, <2>1, JoinWindow DEF Draw
  <2>3. TypeOK'
    BY <1>1, <2>2 DEF Draw, Goto, TypeOK, PCs
  <2>4. HolderServed'
    <3>1. CASE Unlocked
      BY <1>1, <1>free, <3>1 DEF Draw, Goto, HolderServed, Holders, Contenders, TypeOK, Unlocked
    <3>2. CASE ~Unlocked
      BY <1>1, <3>2 DEF Draw, Goto, HolderServed, Holders, TypeOK
    <3> QED
      BY <3>1, <3>2
  <2>5. ReadCurrent' /\ ReservationCurrent'
    BY <1>1 DEF Draw, Goto, ReadCurrent, ReservationCurrent, TypeOK
  <2> QED
    BY <2>2, <2>3, <2>4, <2>5 DEF Window
<1>2. ASSUME NEW h \in Harts, Spin(h) PROVE LockInv'
  <2>1. Contenders' = Contenders
    BY <1>2 DEF Spin, Goto, Contenders, TypeOK
  <2>2. Window'
    BY <1>w, <1>2, <2>1, KeepWindow DEF Spin
  <2>3. TypeOK'
    BY <1>2 DEF Spin, Goto, TypeOK, PCs
  <2>4. HolderServed' /\ ReadCurrent' /\ ReservationCurrent'
    BY <1>2 DEF Spin, Goto, HolderServed, Holders, ReadCurrent, ReservationCurrent, Unlocked, TypeOK
  <2> QED
    BY <2>2, <2>3, <2>4 DEF Window
<1>3. ASSUME NEW h \in Harts, TryLoad(h) PROVE LockInv'
  <2>1. Contenders' = Contenders
    BY <1>3 DEF TryLoad, Goto, Contenders, TypeOK
  <2>2. Window'
    BY <1>w, <1>3, <2>1, KeepWindow DEF TryLoad
  <2>3. TypeOK'
    BY <1>3 DEF TryLoad, Goto, TypeOK, PCs
  <2>4. HolderServed' /\ ReadCurrent' /\ ReservationCurrent'
    BY <1>3 DEF TryLoad, Goto, HolderServed, Holders, ReadCurrent, ReservationCurrent, Unlocked, TypeOK
  <2> QED
    BY <2>2, <2>3, <2>4 DEF Window
<1>4. ASSUME NEW h \in Harts, TryStore(h) PROVE LockInv'
  <2>1. /\ h \notin Contenders
        /\ Contenders' = Contenders \cup {h}
    BY <1>4 DEF TryStore, Goto, Contenders, TypeOK
  <2>2. next' \in Ticket /\ Window'
    BY <1>w, <1>4, <2>1, JoinWindow DEF TryStore
  <2>3. TypeOK'
    BY <1>4, <2>2 DEF TryStore, Goto, TypeOK, PCs
  <2>4. Unlocked
    BY <1>4 DEF TryStore, ReservationCurrent
  <2>5. HolderServed'
    BY <1>4, <1>free, <2>4 DEF TryStore, Goto, HolderServed, Holders, Contenders, TypeOK, Unlocked
  <2>6. ReadCurrent' /\ ReservationCurrent'
    BY <1>4 DEF TryStore, Goto, ReadCurrent, ReservationCurrent, TypeOK
  <2> QED
    BY <2>2, <2>3, <2>5, <2>6 DEF Window
<1>5. ASSUME NEW h \in Harts, TryStoreFail(h) PROVE LockInv'
  <2>1. Contenders' = Contenders
    BY <1>5 DEF TryStoreFail, Goto, Contenders, TypeOK
  <2>2. Window'
    BY <1>w, <1>5, <2>1, KeepWindow DEF TryStoreFail
  <2>3. TypeOK'
    BY <1>5 DEF TryStoreFail, Goto, TypeOK, PCs
  <2>4. HolderServed' /\ ReadCurrent' /\ ReservationCurrent'
    BY <1>5 DEF TryStoreFail, Goto, HolderServed, Holders, ReadCurrent, ReservationCurrent, Unlocked, TypeOK
  <2> QED
    BY <2>2, <2>3, <2>4 DEF Window
<1>6. ASSUME NEW h \in Harts, UnlockRead(h) PROVE LockInv'
  <2>1. Contenders' = Contenders
    BY <1>6 DEF UnlockRead, Goto, Contenders, TypeOK
  <2>2. Window'
    BY <1>w, <1>6, <2>1, KeepWindow DEF UnlockRead
  <2>3. TypeOK'
    BY <1>6 DEF UnlockRead, Goto, TypeOK, PCs
  <2>4. HolderServed' /\ ReadCurrent' /\ ReservationCurrent'
    BY <1>6 DEF UnlockRead, Goto, HolderServed, Holders, ReadCurrent, ReservationCurrent, Unlocked, TypeOK
  <2> QED
    BY <2>2, <2>3, <2>4 DEF Window
<1>7. ASSUME NEW h \in Harts, UnlockStore(h) PROVE LockInv'
  <2>1. /\ h \in Contenders
        /\ Contenders' = Contenders \ {h}
    BY <1>7 DEF UnlockStore, Goto, Contenders, TypeOK
  <2>2. ticket[h] = owner /\ tmp[h] = owner
    BY <1>7 DEF UnlockStore, HolderServed, Holders, ReadCurrent
  <2>3. owner' \in Ticket /\ Window'
    BY <1>w, <1>7, <2>1, <2>2, LeaveWindow DEF UnlockStore
  <2>4. TypeOK'
    BY <1>7, <2>3 DEF UnlockStore, Goto, TypeOK, PCs
  <2>5. Holders = {h}
    BY <1>7, <2>2 DEF UnlockStore, HolderServed, Distinct, Holders, Contenders
  <2>6. Holders' = {}
    BY <1>7, <2>5 DEF UnlockStore, Goto, Holders, TypeOK
  <2>7. HolderServed' /\ ReadCurrent' /\ ReservationCurrent'
    BY <1>7, <2>6 DEF UnlockStore, HolderServed, Holders, ReadCurrent, ReservationCurrent
  <2> QED
    BY <2>3, <2>4, <2>7 DEF Window
<1>8. CASE UNCHANGED vars
  <2>1. Contenders' = Contenders
    BY <1>8 DEF vars, Contenders
  <2>2. Window'
    BY <1>w, <1>8, <2>1, KeepWindow DEF vars
  <2>3. TypeOK' /\ HolderServed' /\ ReadCurrent' /\ ReservationCurrent'
    BY <1>8 DEF vars, TypeOK, HolderServed, Holders, ReadCurrent, ReservationCurrent, Unlocked
  <2> QED
    BY <2>2, <2>3 DEF Window
<1> QED
  BY <1>1, <1>2, <1>3, <1>4, <1>5, <1>6, <1>7, <1>8 DEF Next, Step

(* spin_lock, spin_trylock and spin_unlock keep the counters and the       *)
(* tickets consistent for any number of harts below the number of tickets. *)
THEOREM LockInvariance == Spec => []LockInv
BY InitLockInv, NextLockInv, PTL DEF Spec

(* At most one hart holds a spin lock.                                     *)
THEOREM MutualExclusionHolds == Spec => []MutualExclusion
<1>1. LockInv => MutualExclusion
  BY DEF LockInv, HolderServed, Distinct, MutualExclusion, Holders, Contenders
<1> QED
  BY <1>1, LockInvariance, PTL
-----------------------------------------------------------------------------
(* The lock implements the FIFO mutex.                                     *)

(* The queue's places, and that it is a sequence.                          *)
LEMMA QueueShape ==
  ASSUME LockInv
  PROVE  /\ ServedQueue \in Seq(SUBSET Harts)
         /\ Len(ServedQueue) = Dist(owner, next)
         /\ Dist(owner, next) \in Nat
         /\ DOMAIN ServedQueue = 1 .. Dist(owner, next)
         /\ \A i \in 1 .. Dist(owner, next) :
              ServedQueue[i] = {g \in Contenders : Dist(owner, ticket[g]) = i - 1}
<1>1. Dist(owner, next) \in Nat
  BY DistProps DEF LockInv, TypeOK
<1>2. ServedQueue = [i \in 1 .. Dist(owner, next) |->
                       {g \in Contenders : Dist(owner, ticket[g]) = i - 1}]
  BY DEF ServedQueue, Ahead
<1>3. \A i \in 1 .. Dist(owner, next) :
        {g \in Contenders : Dist(owner, ticket[g]) = i - 1} \in SUBSET Harts
  BY DEF Contenders
<1> QED
  BY <1>1, <1>2, <1>3

(* Drawing a ticket is asking for the mutex.                               *)
LEMMA JoinQueue ==
  ASSUME LockInv, LockInv', NEW h \in Harts, h \notin Contenders,
         Contenders' = Contenders \cup {h},
         ticket' = [ticket EXCEPT ![h] = next],
         next' = Inc(next), owner' = owner
  PROVE  Fifo!Ask(h)
<1> DEFINE n == Dist(owner, next)
           q == ServedQueue
<1>1. Dist(owner', next') = n + 1
  <2>1. Cardinality(Contenders') = Cardinality(Contenders) + 1
    BY FewHarts, FS_AddElement DEF Contenders
  <2> QED
    BY <2>1 DEF LockInv, Counted, Ahead
<1>2. /\ q \in Seq(SUBSET Harts) /\ Len(q) = n /\ n \in Nat
      /\ \A i \in 1 .. n : q[i] = {g \in Contenders : Dist(owner, ticket[g]) = i - 1}
  BY QueueShape
<1>3. /\ q' \in Seq(SUBSET Harts) /\ Len(q') = n + 1
      /\ \A i \in 1 .. n + 1 : q'[i] = {g \in Contenders' : Dist(owner, ticket'[g]) = i - 1}
  <2>1. Contenders' \in SUBSET Harts
    BY DEF Contenders
  <2>2. q' = [i \in 1 .. n + 1 |-> {g \in Contenders' : Dist(owner', ticket'[g]) = i - 1}]
    BY <1>1 DEF ServedQueue, Ahead
  <2> QED
    BY <1>2, <2>1, <2>2
<1>4. \A i \in 1 .. n : h \notin q[i]
  BY <1>2
<1>5. /\ \A g \in Contenders : /\ ticket'[g] = ticket[g]
                               /\ Dist(owner, ticket[g]) \in Nat
                               /\ Dist(owner, ticket[g]) < n
      /\ ticket'[h] = next
  BY DistProps DEF LockInv, TypeOK, Contenders, Windowed, Ahead
<1>6. \A i \in 1 .. n : q'[i] = q[i]
  <2> SUFFICES ASSUME NEW i \in 1 .. n PROVE q'[i] = q[i]
    OBVIOUS
  <2>1. q[i] = {g \in Contenders : Dist(owner, ticket[g]) = i - 1}
    BY <1>2
  <2>2. q'[i] = {g \in Contenders' : Dist(owner, ticket'[g]) = i - 1}
    BY <1>2, <1>3
  <2>3. Dist(owner, ticket'[h]) # i - 1
    BY <1>2, <1>5
  <2> QED
    BY <1>5, <2>1, <2>2, <2>3
<1>7. q'[n + 1] = {h}
  BY <1>2, <1>3, <1>5
<1>8. q' = Append(q, {h})
  <2>1. {h} \in SUBSET Harts
    OBVIOUS
  <2>2. /\ Append(q, {h}) \in Seq(SUBSET Harts)
        /\ Len(Append(q, {h})) = n + 1
        /\ \A i \in 1 .. n : Append(q, {h})[i] = q[i]
        /\ Append(q, {h})[n + 1] = {h}
    BY <1>2, <2>1, AppendProperties
  <2>3. \A i \in 1 .. n + 1 : i \in 1 .. n \/ i = n + 1
    BY <1>2
  <2>4. \A i \in 1 .. n + 1 : q'[i] = Append(q, {h})[i]
    BY <1>6, <1>7, <2>2, <2>3
  <2> HIDE DEF q
  <2> QED
    BY <1>2, <1>3, <2>2, <2>4, SeqEqual
<1> QED
  BY <1>2, <1>4, <1>8 DEF Fifo!Ask

(* The store of spin_unlock is the holder's leaving of the mutex.          *)
LEMMA LeaveQueue ==
  ASSUME LockInv, LockInv', NEW h \in Contenders, ticket[h] = owner,
         Contenders' = Contenders \ {h},
         ticket' = ticket, next' = next, owner' = Inc(owner)
  PROVE  Fifo!Release(h)
<1> DEFINE n == Dist(owner, next)
           q == ServedQueue
<1>1. n \in Nat /\ 0 < n /\ owner # next
  BY DistProps DEF LockInv, Windowed, Ahead, TypeOK
<1>2. Dist(owner', next') = n - 1
  BY <1>1, DistServe DEF LockInv, TypeOK
<1>3. /\ q \in Seq(SUBSET Harts) /\ Len(q) = n
      /\ \A i \in 1 .. n : q[i] = {g \in Contenders : Dist(owner, ticket[g]) = i - 1}
  BY QueueShape
<1>4. /\ q' \in Seq(SUBSET Harts) /\ Len(q') = n - 1
      /\ \A i \in 1 .. n - 1 : q'[i] = {g \in Contenders' : Dist(owner', ticket[g]) = i - 1}
  <2>1. Contenders' \in SUBSET Harts
    BY DEF Contenders
  <2>2. q' = [i \in 1 .. n - 1 |-> {g \in Contenders' : Dist(owner', ticket[g]) = i - 1}]
    BY <1>2 DEF ServedQueue, Ahead
  <2> QED
    BY <1>1, <2>1, <2>2
<1>5. \A g \in Contenders' : /\ g \in Contenders /\ g # h
                             /\ Dist(owner, ticket[g]) \in Nat
                             /\ Dist(owner', ticket[g]) = Dist(owner, ticket[g]) - 1
  BY DistProps, DistServe DEF LockInv, TypeOK, Contenders, Distinct
<1>6. Dist(owner, ticket[h]) = 0
  BY DistProps DEF LockInv, TypeOK
<1>7. q[1] = {h}
  <2>1. q[1] = {g \in Contenders : Dist(owner, ticket[g]) = 0}
    BY <1>1, <1>3
  <2>2. \A g \in Contenders : Dist(owner, ticket[g]) = 0 => g = h
    BY <1>6, DistProps DEF LockInv, TypeOK, Contenders, Distinct
  <2> QED
    BY <1>6, <2>1, <2>2
<1>8. \A i \in 1 .. n - 1 : q'[i] = q[i + 1]
  <2> SUFFICES ASSUME NEW i \in 1 .. n - 1 PROVE q'[i] = q[i + 1]
    OBVIOUS
  <2>1. q[i + 1] = {g \in Contenders : Dist(owner, ticket[g]) = i}
    BY <1>1, <1>3
  <2> QED
    BY <1>4, <1>5, <1>6, <2>1
<1>9. q' = Tail(q)
  <2>1. /\ Tail(q) \in Seq(SUBSET Harts)
        /\ Len(Tail(q)) = n - 1
        /\ \A i \in 1 .. n - 1 : Tail(q)[i] = q[i + 1]
    BY <1>1, <1>3, HeadTailProperties
  <2>2. \A i \in 1 .. n - 1 : q'[i] = Tail(q)[i]
    BY <1>8, <2>1
  <2> HIDE DEF q
  <2> QED
    BY <1>4, <2>1, <2>2, SeqEqual
<1> QED
  BY <1>1, <1>3, <1>7, <1>9 DEF Fifo!Release

(* Any other step leaves the queue alone.                                  *)
LEMMA KeepQueue ==
  ASSUME Contenders' = Contenders, UNCHANGED <<owner, next, ticket>>
  PROVE  UNCHANGED ServedQueue
BY DEF ServedQueue, Ahead

(* Callers of spin_lock are served first come, first served.               *)
THEOREM ServedInOrderHolds == Spec => ServedInOrder
<1>1. Init => Fifo!Init
  <2> SUFFICES ASSUME Init PROVE ServedQueue = << >>
    BY DEF Fifo!Init
  <2>1. LockInv /\ Dist(owner, next) = 0
    BY InitLockInv, DistProps DEF LockInv, TypeOK, Init
  <2> QED
    BY <2>1, QueueShape
<1>2. LockInv /\ LockInv' /\ [Next]_vars => [Fifo!Next]_ServedQueue
  <2> SUFFICES ASSUME LockInv, LockInv', [Next]_vars PROVE [Fifo!Next]_ServedQueue
    OBVIOUS
  <2>1. ASSUME NEW h \in Harts, Draw(h) PROVE Fifo!Next
    <3>1. h \notin Contenders /\ Contenders' = Contenders \cup {h}
      BY <2>1 DEF Draw, Goto, Contenders, LockInv, TypeOK
    <3>2. Fifo!Ask(h)
      BY <2>1, <3>1, JoinQueue DEF Draw
    <3> QED
      BY <3>2 DEF Fifo!Next
  <2>2. ASSUME NEW h \in Harts, TryStore(h) PROVE Fifo!Next
    <3>1. h \notin Contenders /\ Contenders' = Contenders \cup {h}
      BY <2>2 DEF TryStore, Goto, Contenders, LockInv, TypeOK
    <3>2. Fifo!Ask(h)
      BY <2>2, <3>1, JoinQueue DEF TryStore
    <3> QED
      BY <3>2 DEF Fifo!Next
  <2>3. ASSUME NEW h \in Harts, UnlockStore(h) PROVE Fifo!Next
    <3>1. /\ h \in Contenders
          /\ Contenders' = Contenders \ {h}
          /\ ticket[h] = owner /\ tmp[h] = owner
      BY <2>3 DEF UnlockStore, Goto, Contenders, LockInv, TypeOK, HolderServed, Holders, ReadCurrent
    <3>2. Fifo!Release(h)
      BY <2>3, <3>1, LeaveQueue DEF UnlockStore
    <3> QED
      BY <3>2 DEF Fifo!Next
  <2>4. ASSUME NEW h \in Harts, Spin(h) \/ TryLoad(h) \/ TryStoreFail(h) \/ UnlockRead(h)
        PROVE  UNCHANGED ServedQueue
    BY <2>4, KeepQueue
    DEF Spin, TryLoad, TryStoreFail, UnlockRead, Goto, Contenders, LockInv, TypeOK
  <2>5. CASE UNCHANGED vars
    BY <2>5, KeepQueue DEF vars, Contenders
  <2> QED
    BY <2>1, <2>2, <2>3, <2>4, <2>5 DEF Next, Step
<1> QED
  BY <1>1, <1>2, LockInvariance, PTL DEF Spec, ServedInOrder, Fifo!Spec
=============================================================================
