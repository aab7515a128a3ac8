----------------------------- MODULE TicketLock -----------------------------
(***************************************************************************)
(* The ticket spin lock of lib/sbi/riscv_locks.c, under which every other  *)
(* shared structure of lib/sbi is updated.  The lock word holds two        *)
(* counters of TICKET_SHIFT bits, modelled modulo Tickets: owner is the    *)
(* ticket being served, next the ticket to hand out.                       *)
(*                                                                         *)
(* Every access to the lock word is a step of its own; the comparison of   *)
(* registers that follows an access belongs to the step.                   *)
(***************************************************************************)
EXTENDS Integers, FiniteSets

CONSTANTS
  Harts,    \* the harts that use the lock
  Tickets   \* number of ticket values, 2^16 in the code

(* The word has room for every hart: at most SBI_HARTMASK_MAX_BITS = 128   *)
(* harts against 2^16 tickets.                                             *)
ASSUME TicketsAssumption ==
  /\ IsFiniteSet(Harts)
  /\ Tickets \in Nat
  /\ Cardinality(Harts) < Tickets

VARIABLES
  owner,   \* lock->owner
  next,    \* lock->next
  pc,      \* where each hart is
  ticket,  \* the ticket a hart drew (%1 of spin_lock)
  tmp,     \* lock->owner as spin_unlock read it
  resv     \* harts with a valid load reservation on the word

vars == <<owner, next, pc, ticket, tmp, resv>>

PCs == {"idle", "spin", "load", "store", "cs", "release"}
Ticket == 0 .. Tickets - 1

(* Addition on a counter of the word wraps (written without % so that the  *)
(* provers see linear arithmetic only); variant: it sticks at the top.     *)
Inc_Saturates(t) == IF t + 1 = Tickets THEN t ELSE t + 1
Inc(t) == IF t + 1 = Tickets THEN 0 ELSE t + 1

(* spin_lock_unlocked *)
Unlocked == owner = next

Init ==
  /\ owner = 0
  /\ next = 0
  /\ pc = [h \in Harts |-> "idle"]
  /\ ticket = [h \in Harts |-> 0]
  /\ tmp = [h \in Harts |-> 0]
  /\ resv = {}

Goto(h, l) == pc' = [pc EXCEPT ![h] = l]

(* spin_lock: amoadd draws a ticket and returns both counters; the hart    *)
(* holds the lock at once if its ticket is already the one served.         *)
Draw(h) ==
  /\ pc[h] = "idle"
  /\ ticket' = [ticket EXCEPT ![h] = next]
  /\ next' = Inc(next)
  /\ Goto(h, IF Unlocked THEN "cs" ELSE "spin")
  /\ resv' = {}
  /\ UNCHANGED <<owner, tmp>>

(* Variant of Spin: whoever reads the word first after a release goes in.  *)
Spin_AnyTurn(h) ==
  /\ pc[h] = "spin"
  /\ \A g \in Harts : pc[g] \notin {"cs", "release"}
  /\ Goto(h, "cs")
  /\ UNCHANGED <<owner, next, ticket, tmp, resv>>

(* spin_lock: lw of the word in the loop.                                  *)
Spin(h) ==
  /\ pc[h] = "spin"
  /\ owner = ticket[h]
  /\ Goto(h, "cs")
  /\ UNCHANGED <<owner, next, ticket, tmp, resv>>

(* spin_trylock: lr.w.  On a held lock the two halves of the loaded word   *)
(* differ, so the word, left in l0, is not 0 and the function returns      *)
(* FALSE.  (A reservation that no sc.w will use is not recorded.)          *)
TryLoad(h) ==
  /\ pc[h] \in {"idle", "load"}
  /\ IF Unlocked
     THEN resv' = resv \cup {h} /\ Goto(h, "store")
     ELSE Goto(h, "idle") /\ UNCHANGED resv
  /\ UNCHANGED <<owner, next, ticket, tmp>>

(* Variant of TryStore: a plain store.                                     *)
TryStore_NoReservation(h) ==
  /\ pc[h] = "store"
  /\ next' = Inc(next)
  /\ ticket' = [ticket EXCEPT ![h] = next]
  /\ resv' = {}
  /\ Goto(h, "cs")
  /\ UNCHANGED <<owner, tmp>>

(* spin_trylock: sc.w succeeds only while the reservation is valid.        *)
TryStore(h) ==
  /\ pc[h] = "store"
  /\ h \in resv
  /\ next' = Inc(next)
  /\ ticket' = [ticket EXCEPT ![h] = next]
  /\ resv' = {}
  /\ Goto(h, "cs")
  /\ UNCHANGED <<owner, tmp>>

(* spin_trylock: a failed sc.w, for want of a reservation or for no        *)
(* reason, goes back to the load.                                          *)
TryStoreFail(h) ==
  /\ pc[h] = "store"
  /\ resv' = resv \ {h}
  /\ Goto(h, "load")
  /\ UNCHANGED <<owner, next, ticket, tmp>>

(* spin_unlock: lock->owner is read, ...                                   *)
UnlockRead(h) ==
  /\ pc[h] = "cs"
  /\ tmp' = [tmp EXCEPT ![h] = owner]
  /\ Goto(h, "release")
  /\ UNCHANGED <<owner, next, ticket, resv>>

(* Variant of UnlockStore: the whole word is stored, so that the holder    *)
(* retries for as long as another hart has drawn a ticket.                 *)
UnlockStore_Retry(h) ==
  /\ pc[h] = "release"
  /\ IF next = Inc(tmp[h])
     THEN owner' = Inc(tmp[h]) /\ resv' = {} /\ Goto(h, "idle")
     ELSE Goto(h, "cs") /\ UNCHANGED <<owner, resv>>
  /\ UNCHANGED <<next, ticket, tmp>>

(* ... and its successor stored, in the owner half of the word only.       *)
UnlockStore(h) ==
  /\ pc[h] = "release"
  /\ owner' = Inc(tmp[h])
  /\ resv' = {}
  /\ Goto(h, "idle")
  /\ UNCHANGED <<next, ticket, tmp>>

Step(h) ==
  \/ Draw(h) \/ Spin(h)
  \/ TryLoad(h) \/ TryStore(h) \/ TryStoreFail(h)
  \/ UnlockRead(h) \/ UnlockStore(h)

Next == \E h \in Harts : Step(h)

Spec == Init /\ [][Next]_vars

(* A spinning hart keeps reading the word and a holder's critical section  *)
(* ends: every user of the lock runs straight-line code with interrupts    *)
(* off.  Nothing obliges a hart to ask for the lock.                       *)
Fairness ==
  \A h \in Harts : WF_vars(Spin(h)) /\ WF_vars(UnlockRead(h)) /\ WF_vars(UnlockStore(h))

FairSpec == Spec /\ Fairness
-----------------------------------------------------------------------------
Holders == {h \in Harts : pc[h] \in {"cs", "release"}}
Contenders == {h \in Harts : pc[h] \in {"spin", "cs", "release"}}

(* How many increments lead from counter value o to t, modulo Tickets; and *)
(* how many tickets are served before t.                                   *)
Dist(o, t) == IF o <= t THEN t - o ELSE t - o + Tickets
Ahead(t) == Dist(owner, t)

TypeOK ==
  /\ owner \in Ticket
  /\ next \in Ticket
  /\ pc \in [Harts -> PCs]
  /\ ticket \in [Harts -> Ticket]
  /\ tmp \in [Harts -> Ticket]
  /\ resv \in SUBSET Harts

(* At most one hart is between spin_lock (or a successful spin_trylock)    *)
(* and the end of spin_unlock, whatever the counters' wrap-around.         *)
MutualExclusion == \A g, h \in Holders : g = h

(* The strengthening that is inductive: the contenders hold exactly the    *)
(* tickets from owner up to next, one each, ...                            *)
Counted == Cardinality(Contenders) = Ahead(next)
Windowed == \A h \in Contenders : Ahead(ticket[h]) < Ahead(next)
Distinct == \A g, h \in Contenders : ticket[g] = ticket[h] => g = h
Covered ==
  \A i \in 0 .. Ahead(next) - 1 : \E h \in Contenders : Ahead(ticket[h]) = i

(* ... the holder's is owner, ...                                          *)
HolderServed == \A h \in Holders : ticket[h] = owner

(* ... the value spin_unlock read is still current, and a valid            *)
(* reservation means that the lock is still free.                          *)
ReadCurrent == \A h \in Harts : pc[h] = "release" => tmp[h] = owner
ReservationCurrent == resv # {} => Unlocked

(* The counters and the tickets of spin_lock stay consistent, through      *)
(* every wrap-around of the two 16-bit halves.                             *)
LockInv ==
  /\ TypeOK
  /\ Counted /\ Windowed /\ Distinct /\ Covered
  /\ HolderServed /\ ReadCurrent /\ ReservationCurrent

(* The lock serves its callers in the order of their tickets: with the     *)
(* contenders queued by ticket, it implements the FIFO mutex.              *)
ServedQueue ==
  [i \in 1 .. Ahead(next) |-> {h \in Contenders : Ahead(ticket[h]) = i - 1}]

Fifo == INSTANCE FifoMutex WITH queue <- ServedQueue

ServedInOrder == Fifo!Spec

(* A hart that drew a ticket gets the lock.                                *)
SpinnerServed == \A h \in Harts : pc[h] = "spin" ~> pc[h] = "cs"
=============================================================================
