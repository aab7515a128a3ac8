-------------------------------- MODULE SbiTlb --------------------------------
(***************************************************************************)
(* Inter-processor interrupts (lib/sbi/sbi_ipi.c) and the remote fences    *)
(* that are built on them (lib/sbi/sbi_tlb.c).  A hart that asks for a     *)
(* fence on other harts puts an entry into each one's fifo, interrupts it  *)
(* and waits for the acknowledgement; while it waits it serves its own     *)
(* fifo, because it has its interrupts off.                                *)
(*                                                                         *)
(* Every access to state that other harts use is a step.  An operation on  *)
(* a fifo is one step (SbiFifo, TicketLock), except that sbi_fifo_init     *)
(* does not take the lock: it may run while another hart is inside an      *)
(* operation on the same fifo.  The local fence that follows a dequeue     *)
(* touches only the hart itself and belongs to that step.                  *)
(* Addresses are counted in pages, in an address space of Space pages that *)
(* wraps like unsigned long.                                               *)
(***************************************************************************)
EXTENDS Integers, Sequences, FiniteSets, FiniteSetsExt

CONSTANTS
  Harts,      \* hart ids
  Entries,    \* SBI_TLB_FIFO_NUM_ENTRIES
  Space,      \* number of pages
  Limit,      \* tlb_range_flush_limit
  Asids, Vmids,
  Asks,       \* the fences each hart's supervisor may ask for, and on which harts
  Ipis,       \* the sets of harts each hart's supervisor may interrupt
  NoInfo,     \* no fence
  MayStop,    \* whether harts may be stopped and started
  Debris      \* what a fifo may hold that was initialised under an operation

FlushAll == Space - 1

Fns == {"fence_i", "sfence_vma", "sfence_vma_asid", "hfence_vvma", "hfence_vvma_asid",
        "hfence_gvma", "hfence_gvma_vmid"}

(* struct sbi_tlb_info without smask; SBI_EXT_RFENCE_REMOTE_FENCE_I has no *)
(* operands.                                                               *)
Infos ==
  {q \in [fn : Fns, start : 0 .. Space - 1, size : 0 .. Space - 1, asid : Asids, vmid : Vmids] :
     q.fn = "fence_i" => q.start = 0 /\ q.size = 0}

(* struct sbi_tlb_info, with the harts that wait for it.                   *)
Entry ==
  [fn : Fns, start : 0 .. Space - 1, size : 0 .. Space - 1, asid : Asids, vmid : Vmids,
   smask : (SUBSET Harts) \ {{}}]

(* SBI_TLB_INFO_INIT: the entry that hart h sends for it.                  *)
TlbInfo(q, h) == [fn |-> q.fn, start |-> q.start, size |-> q.size, asid |-> q.asid,
                  vmid |-> q.vmid, smask |-> {h}]

ASSUME TlbAssumption ==
  /\ Harts \in SUBSET Nat /\ IsFiniteSet(Harts)
  /\ Entries \in Nat \ {0}
  /\ Space \in Nat \ {0, 1}
  /\ Limit \in 0 .. Space - 2
  /\ Asks \in [Harts -> SUBSET (Infos \X SUBSET Harts)]
  /\ Ipis \in [Harts -> SUBSET SUBSET Harts]
  /\ MayStop \in BOOLEAN
  /\ \A q \in Debris : q \in Seq(Entry) /\ Len(q) <= Entries

ASSUME NoInfoAssumption == NoInfo \notin Entry

VARIABLES
  up,       \* harts in HSM state STARTED or SUSPENDED
  fifo,     \* the tlb fifo of each hart
  sync,     \* harts whose tlb_sync is 1
  events,   \* ipi_type of each hart
  msip,     \* harts with a pending machine software interrupt
  ssip,     \* harts with a pending supervisor software interrupt
  pc,       \* where each hart is
  event,    \* the event that a hart in sbi_ipi_send_many sends, ...
  todo,     \* ... the harts it has not finished with ...
  info,     \* ... and the fence, as it stands in the caller's tinfo
  pend,     \* what a hart in sbi_ipi_process has left of ipi_type
  acks,     \* whom a hart in tlb_entry_process has left to acknowledge
  deq,      \* deq_count of tlb_process_count
  ret,      \* where tlb_process and tlb_process_count return to
  owed,     \* the translations that each fence in progress has yet to remove
  muted,    \* harts that started with an event whose interrupt they cleared
  torn      \* harts whose fifo was initialised under somebody's operation

vars == <<up, fifo, sync, events, msip, ssip, pc, event, todo, info, pend, acks, deq, ret, owed, muted,
          torn>>
sendVars == <<event, todo, info>>
workVars == <<pend, acks, deq, ret>>

SendPCs == {"send", "enqueue", "set_bit", "raise", "sync"}
WorkPCs == {"dequeue", "ack"}
PCs == SendPCs \cup WorkPCs \cup {"smode", "xchg", "process", "off", "ipi_init", "ipi_clear", "tlb_init",
  "fifo_init", "next_jump"}

Goto(h, l) == pc' = [pc EXCEPT ![h] = l]
Target(h) == Min(todo[h])
-----------------------------------------------------------------------------
(* What a fence removes: translations, by stage, address spaces and page.  *)
Stage(fn) ==
  CASE fn = "fence_i" -> "fetch"
    [] fn \in {"sfence_vma", "sfence_vma_asid"} -> "S"
    [] fn \in {"hfence_vvma", "hfence_vvma_asid"} -> "VS"
    [] fn \in {"hfence_gvma", "hfence_gvma_vmid"} -> "G"

(* Addition on unsigned long, for operands in the address space.           *)
Wrap(x) == IF x >= Space THEN x - Space ELSE x

(* The sbi_tlb_local_* functions: (0, 0) stands for everything, as does    *)
(* SBI_TLB_FLUSH_ALL, except that the latter keeps to the asid or vmid.    *)
(* The VS-stage fences work on one vmid in any case, by way of hgatp.      *)
LocalFn(e) ==
  LET whole == e.start = 0 /\ e.size = 0
      pages == IF whole \/ e.size = FlushAll
               THEN 0 .. Space - 1
               ELSE {Wrap(e.start + i) : i \in 0 .. e.size - 1}
      asids == IF e.fn \in {"sfence_vma_asid", "hfence_vvma_asid"} /\ ~whole
               THEN {e.asid} ELSE Asids
      vmids == IF Stage(e.fn) = "VS" \/ (e.fn = "hfence_gvma_vmid" /\ ~whole)
               THEN {e.vmid} ELSE Vmids
  IN  {Stage(e.fn)} \X vmids \X asids \X pages

(* A fence executed on hart h counts for everybody who waits for one.      *)
Fence(h, e) == owed' = [r \in Harts |-> {x \in owed[r] : x[1] = h => x[2] \notin LocalFn(e)}]

(* tlb_update: a range that is too large becomes everything.               *)
Upgrade(e) == IF e.size > Limit THEN [e EXCEPT !.start = 0, !.size = FlushAll] ELSE e

End(e) == Wrap(e.start + e.size)

(* Mutant: the hart that asks is not added to the entry.                   *)
RangeCheck_KeepMask(curr, next) ==
  IF next.start <= curr.start /\ End(next) > End(curr)
  THEN [verdict |-> "updated",
        entry |-> [curr EXCEPT !.start = next.start, !.size = next.size, !.smask = @ \cup next.smask]]
  ELSE IF next.start >= curr.start /\ End(next) <= End(curr)
  THEN [verdict |-> "skip", entry |-> curr]
  ELSE [verdict |-> "unchanged", entry |-> curr]

(* tlb_range_check: entry curr is widened to next, or covers it.           *)
RangeCheck(curr, next) ==
  IF next.start <= curr.start /\ End(next) > End(curr)
  THEN [verdict |-> "updated",
        entry |-> [curr EXCEPT !.start = next.start, !.size = next.size, !.smask = @ \cup next.smask]]
  ELSE IF next.start >= curr.start /\ End(next) <= End(curr)
  THEN [verdict |-> "skip", entry |-> [curr EXCEPT !.smask = @ \cup next.smask]]
  ELSE [verdict |-> "unchanged", entry |-> curr]

(* Mutant: fences for different address spaces are merged.                 *)
UpdateCb_AnyAsid(curr, next) ==
  IF next.fn \in {"sfence_vma_asid", "sfence_vma"} /\ curr.fn = next.fn
  THEN RangeCheck(curr, next)
  ELSE [verdict |-> "unchanged", entry |-> curr]

(* tlb_update_cb: only S-mode fences of the same kind are merged.          *)
UpdateCb(curr, next) ==
  IF \/ next.fn = "sfence_vma_asid" /\ curr.fn = "sfence_vma_asid" /\ next.asid = curr.asid
     \/ next.fn = "sfence_vma" /\ curr.fn = "sfence_vma"
  THEN RangeCheck(curr, next)
  ELSE [verdict |-> "unchanged", entry |-> curr]

(* sbi_fifo_inplace_update with that callback: the first entry it does not *)
(* leave alone, as it leaves it.                                           *)
Hits(q, e) == {i \in DOMAIN q : UpdateCb(q[i], e).verdict # "unchanged"}
Updated(q, e) == [q EXCEPT ![Min(Hits(q, e))] = UpdateCb(@, e).entry]
-----------------------------------------------------------------------------
Init ==
  /\ up = Harts
  /\ fifo = [h \in Harts |-> << >>]
  /\ sync = {}
  /\ events = [h \in Harts |-> {}]
  /\ msip = {}
  /\ ssip = {}
  /\ pc = [h \in Harts |-> "smode"]
  /\ event = [h \in Harts |-> "tlb"]
  /\ todo = [h \in Harts |-> {}]
  /\ info = [h \in Harts |-> NoInfo]
  /\ pend = [h \in Harts |-> {}]
  /\ acks = [h \in Harts |-> {}]
  /\ deq = [h \in Harts |-> 0]
  /\ ret = [h \in Harts |-> "process"]
  /\ owed = [h \in Harts |-> {}]
  /\ muted = {}
  /\ torn = {}

(* sbi_ipi_send_many: the harts asked for that sbi_hsm_hart_interruptible_ *)
(* mask finds started.                                                     *)
SendMany(h, ev, mask) ==
  /\ pc[h] = "smode"
  /\ event' = [event EXCEPT ![h] = ev]
  /\ todo' = [todo EXCEPT ![h] = mask \cap up]
  /\ Goto(h, "send")
  /\ UNCHANGED <<workVars, up, fifo, sync, events, msip, ssip, muted, torn>>

(* SBI_EXT_RFENCE_REMOTE_*, sbi_tlb_request *)
Request(h, q, mask) ==
  /\ SendMany(h, "tlb", mask)
  /\ info' = [info EXCEPT ![h] = TlbInfo(q, h)]
  /\ owed' = [owed EXCEPT ![h] = (mask \cap up) \X LocalFn(q)]

(* SBI_EXT_IPI_SEND_IPI, sbi_ipi_send_smode *)
SendSmode(h, mask) ==
  /\ SendMany(h, "smode", mask)
  /\ UNCHANGED <<info, owed>>

(* The loop of sbi_ipi_send_many ends, ...                                 *)
SendDone(h) ==
  /\ pc[h] = "send"
  /\ todo[h] = {}
  /\ info' = [info EXCEPT ![h] = NoInfo]
  /\ Goto(h, "smode")
  /\ UNCHANGED <<workVars, up, fifo, sync, events, msip, ssip, event, todo, owed, muted, torn>>

(* ... or goes on with sbi_ipi_send.  S-mode interrupts have no update.    *)
NoUpdate(h) ==
  /\ pc[h] = "send"
  /\ todo[h] # {}
  /\ event[h] = "smode"
  /\ Goto(h, "set_bit")
  /\ UNCHANGED <<sendVars, workVars, up, fifo, sync, events, msip, ssip, owed, muted, torn>>

(* tlb_update, for the hart itself: fence and no interrupt.                *)
UpdateSelf(h) ==
  /\ pc[h] = "send"
  /\ todo[h] # {}
  /\ event[h] = "tlb"
  /\ Target(h) = h
  /\ info' = [info EXCEPT ![h] = Upgrade(@)]
  /\ Fence(h, Upgrade(info[h]))
  /\ todo' = [todo EXCEPT ![h] = @ \ {h}]
  /\ UNCHANGED <<workVars, up, fifo, sync, events, msip, ssip, pc, event, muted, torn>>

(* tlb_update, for another hart: sbi_fifo_inplace_update merges, ...       *)
Merge(h) ==
  /\ pc[h] = "send"
  /\ todo[h] # {}
  /\ event[h] = "tlb"
  /\ Target(h) # h
  /\ LET e == Upgrade(info[h])
         t == Target(h)
     IN  /\ info' = [info EXCEPT ![h] = e]
         /\ Hits(fifo[t], e) # {}
         /\ fifo' = [fifo EXCEPT ![t] = Updated(@, e)]
  /\ Goto(h, "set_bit")
  /\ UNCHANGED <<workVars, up, sync, events, msip, ssip, event, todo, owed, muted, torn>>

(* ... or finds nothing to merge with; ...                                 *)
NoMerge(h) ==
  /\ pc[h] = "send"
  /\ todo[h] # {}
  /\ event[h] = "tlb"
  /\ Target(h) # h
  /\ info' = [info EXCEPT ![h] = Upgrade(@)]
  /\ Hits(fifo[Target(h)], Upgrade(info[h])) = {}
  /\ Goto(h, "enqueue")
  /\ UNCHANGED <<workVars, up, fifo, sync, events, msip, ssip, event, todo, owed, muted, torn>>

(* then, under another hold of the lock, sbi_fifo_enqueue; ...             *)
Enqueue(h) ==
  /\ pc[h] = "enqueue"
  /\ Len(fifo[Target(h)]) < Entries
  /\ fifo' = [fifo EXCEPT ![Target(h)] = Append(@, info[h])]
  /\ Goto(h, "set_bit")
  /\ UNCHANGED <<sendVars, workVars, up, sync, events, msip, ssip, owed, muted, torn>>

(* tlb_process_count is called, to come back to l.                         *)
Serve(h, l) ==
  /\ Goto(h, "dequeue")
  /\ ret' = [ret EXCEPT ![h] = l]
  /\ deq' = [deq EXCEPT ![h] = 0]

(* when the fifo is full the hart serves its own and tries again.          *)
EnqueueFull(h) ==
  /\ pc[h] = "enqueue"
  /\ Len(fifo[Target(h)]) >= Entries
  /\ Serve(h, "enqueue")
  /\ UNCHANGED <<sendVars, up, fifo, sync, events, msip, ssip, pend, acks, owed, muted, torn>>

(* Mutant: a plain store.                                                  *)
SetBit_Store(h) ==
  /\ pc[h] = "set_bit"
  /\ events' = [events EXCEPT ![Target(h)] = {event[h]}]
  /\ Goto(h, "raise")
  /\ UNCHANGED <<sendVars, workVars, up, fifo, sync, msip, ssip, owed, muted, torn>>

(* sbi_ipi_send: the event is recorded, ...                                *)
SetBit(h) ==
  /\ pc[h] = "set_bit"
  /\ events' = [events EXCEPT ![Target(h)] = @ \cup {event[h]}]
  /\ Goto(h, "raise")
  /\ UNCHANGED <<sendVars, workVars, up, fifo, sync, msip, ssip, owed, muted, torn>>

(* ... and the hart interrupted; S-mode interrupts are not waited for.     *)
Raise(h) ==
  /\ pc[h] = "raise"
  /\ msip' = msip \cup {Target(h)}
  /\ Goto(h, IF event[h] = "tlb" THEN "sync" ELSE "send")
  /\ todo' = [todo EXCEPT ![h] = IF event[h] = "tlb" THEN @ ELSE @ \ {Target(h)}]
  /\ UNCHANGED <<workVars, up, fifo, sync, events, ssip, event, info, owed, muted, torn>>

(* tlb_sync: the acknowledgement is consumed, ...                          *)
Sync(h) ==
  /\ pc[h] = "sync"
  /\ h \in sync
  /\ sync' = sync \ {h}
  /\ todo' = [todo EXCEPT ![h] = @ \ {Target(h)}]
  /\ Goto(h, "send")
  /\ UNCHANGED <<workVars, up, fifo, events, msip, ssip, event, info, owed, muted, torn>>

(* Mutant: the hart waits without serving its own fifo.                    *)
SyncWait_Spin(h) ==
  /\ pc[h] = "sync"
  /\ h \notin sync
  /\ UNCHANGED vars

(* ... or the hart serves its own fifo and looks again.                    *)
SyncWait(h) ==
  /\ pc[h] = "sync"
  /\ h \notin sync
  /\ Serve(h, "sync")
  /\ UNCHANGED <<sendVars, up, fifo, sync, events, msip, ssip, pend, acks, owed, muted, torn>>
-----------------------------------------------------------------------------
(* tlb_process and tlb_process_count(1): an entry leaves the fifo and its  *)
(* fence is executed, ...                                                  *)
Dequeue(h) ==
  /\ pc[h] = "dequeue"
  /\ fifo[h] # << >>
  /\ fifo' = [fifo EXCEPT ![h] = Tail(@)]
  /\ Fence(h, Head(fifo[h]))
  /\ acks' = [acks EXCEPT ![h] = Head(fifo[h]).smask]
  /\ Goto(h, "ack")
  /\ UNCHANGED <<sendVars, up, sync, events, msip, ssip, pend, deq, ret, muted, torn>>

(* The functions return, ...                                               *)
ServiceDone(h) ==
  /\ Goto(h, ret[h])
  /\ ret' = [ret EXCEPT ![h] = "process"]
  /\ deq' = [deq EXCEPT ![h] = 0]

(* ... when they find the fifo empty ...                                   *)
DequeueEmpty(h) ==
  /\ pc[h] = "dequeue"
  /\ fifo[h] = << >>
  /\ ServiceDone(h)
  /\ UNCHANGED <<sendVars, up, fifo, sync, events, msip, ssip, pend, acks, owed, muted, torn>>

(* tlb_entry_process: the harts of smask are told one by one; one whose    *)
(* tlb_sync is still set is waited for.                                    *)
Acknowledge(h) ==
  /\ pc[h] = "ack"
  /\ Min(acks[h]) \notin sync
  /\ sync' = sync \cup {Min(acks[h])}
  /\ acks' = [acks EXCEPT ![h] = @ \ {Min(acks[h])}]
  /\ UNCHANGED <<sendVars, up, fifo, events, msip, ssip, pend, owed, muted, torn>>

Ack(h) ==
  /\ Acknowledge(h)
  /\ acks[h] # {Min(acks[h])}
  /\ UNCHANGED <<pc, deq, ret>>

(* ... or when the count is exceeded.  It is tested after deq_count was    *)
(* incremented, so that tlb_process_count(1) serves two entries.           *)
Count == 1
Exceeded(h) == ret[h] # "process" /\ deq[h] + 1 > Count

AckLast(h) ==
  /\ Acknowledge(h)
  /\ acks[h] = {Min(acks[h])}
  /\ ~Exceeded(h)
  /\ deq' = [deq EXCEPT ![h] = IF ret[h] = "process" THEN @ ELSE @ + 1]
  /\ Goto(h, "dequeue")
  /\ UNCHANGED ret

AckReturn(h) ==
  /\ Acknowledge(h)
  /\ acks[h] = {Min(acks[h])}
  /\ Exceeded(h)
  /\ ServiceDone(h)

(* sbi_ipi_process, on an interrupt from S-mode: the interrupt is cleared, *)
ClearIpi(h) ==
  /\ pc[h] = "smode"
  /\ h \in msip
  /\ msip' = msip \ {h}
  /\ Goto(h, "xchg")
  /\ UNCHANGED <<sendVars, workVars, up, fifo, sync, events, ssip, owed, muted, torn>>

(* Mutant: ipi_type is read and not reset.                                 *)
XchgType_Keep(h) ==
  /\ pc[h] = "xchg"
  /\ pend' = [pend EXCEPT ![h] = events[h]]
  /\ Goto(h, "process")
  /\ muted' = muted \ {h}
  /\ UNCHANGED <<sendVars, up, fifo, sync, events, msip, ssip, acks, deq, ret, owed, torn>>

(* then ipi_type is fetched and reset, ...                                 *)
XchgType(h) ==
  /\ pc[h] = "xchg"
  /\ pend' = [pend EXCEPT ![h] = events[h]]
  /\ events' = [events EXCEPT ![h] = {}]
  /\ Goto(h, "process")
  /\ muted' = muted \ {h}
  /\ UNCHANGED <<sendVars, up, fifo, sync, msip, ssip, acks, deq, ret, owed, torn>>

(* ... and the events are processed in the order of their numbers: S-mode  *)
(* interrupts ...                                                          *)
ProcessSmode(h) ==
  /\ pc[h] = "process"
  /\ "smode" \in pend[h]
  /\ ssip' = ssip \cup {h}
  /\ pend' = [pend EXCEPT ![h] = @ \ {"smode"}]
  /\ UNCHANGED <<sendVars, up, fifo, sync, events, msip, pc, acks, deq, ret, owed, muted, torn>>

(* ... before fences.                                                      *)
ProcessTlb(h) ==
  /\ pc[h] = "process"
  /\ pend[h] = {"tlb"}
  /\ pend' = [pend EXCEPT ![h] = {}]
  /\ Serve(h, "process")
  /\ UNCHANGED <<sendVars, up, fifo, sync, events, msip, ssip, acks, owed, muted, torn>>

(* Back to S-mode, or on with sbi_exit.                                    *)
ProcessDone(h) ==
  /\ pc[h] = "process"
  /\ pend[h] = {}
  /\ Goto(h, IF h \in up THEN "smode" ELSE "off")
  /\ UNCHANGED <<sendVars, workVars, up, fifo, sync, events, msip, ssip, owed, muted, torn>>

(* The supervisor's handler: sbi_ipi_clear_smode or a write to sip.        *)
TakeSsip(h) ==
  /\ pc[h] = "smode"
  /\ h \in ssip
  /\ ssip' = ssip \ {h}
  /\ UNCHANGED <<sendVars, workVars, up, fifo, sync, events, msip, pc, owed, muted, torn>>

(* Mutant: the fifo is emptied and not served.                             *)
Stop_Reset(h) ==
  /\ MayStop
  /\ pc[h] = "smode"
  /\ up' = up \ {h}
  /\ msip' = msip \ {h}
  /\ fifo' = [fifo EXCEPT ![h] = << >>]
  /\ Goto(h, "xchg")
  /\ UNCHANGED <<sendVars, workVars, sync, events, ssip, owed, muted, torn>>

(* sbi_hsm_hart_stop and sbi_ipi_exit: the state changes, and what is      *)
(* pending is processed a last time.                                       *)
Stop(h) ==
  /\ MayStop
  /\ pc[h] = "smode"
  /\ up' = up \ {h}
  /\ msip' = msip \ {h}
  /\ Goto(h, "xchg")
  /\ UNCHANGED <<sendVars, workVars, fifo, sync, events, ssip, owed, muted, torn>>

(* sbi_hsm_hart_start, from another hart: SbiHsm has the details.          *)
HartStart(h, g) ==
  /\ pc[h] = "smode"
  /\ pc[g] = "off"
  /\ Goto(g, "ipi_init")
  /\ UNCHANGED <<sendVars, workVars, up, fifo, sync, events, msip, ssip, owed, muted, torn>>

(* The hart boots.  sbi_ipi_init resets ipi_type and then has the platform *)
(* clear the interrupt; a hart that read the mask before this one stopped  *)
(* may send to it in between.                                              *)
IpiInit(h) ==
  /\ pc[h] = "ipi_init"
  /\ events' = [events EXCEPT ![h] = {}]
  /\ muted' = muted \ {h}
  /\ Goto(h, "ipi_clear")
  /\ UNCHANGED <<sendVars, workVars, up, fifo, sync, msip, ssip, owed, torn>>

PlatformIpiInit(h) ==
  /\ pc[h] = "ipi_clear"
  /\ msip' = msip \ {h}
  /\ muted' = IF h \in msip /\ events[h] # {} THEN muted \cup {h} ELSE muted
  /\ Goto(h, "tlb_init")
  /\ UNCHANGED <<sendVars, workVars, up, fifo, sync, events, ssip, owed, torn>>

(* Then sbi_tlb_init: tlb_sync is reset, ...                               *)
TlbInit(h) ==
  /\ pc[h] = "tlb_init"
  /\ sync' = sync \ {h}
  /\ Goto(h, "fifo_init")
  /\ UNCHANGED <<sendVars, workVars, up, fifo, events, msip, ssip, owed, muted, torn>>

(* ... and the fifo.  Only a hart that read the mask before this one       *)
(* stopped may be in sbi_fifo_inplace_update or sbi_fifo_enqueue on it.    *)
InFifo(r, h) ==
  \/ pc[r] = "send" /\ event[r] = "tlb" /\ todo[r] # {} /\ Target(r) = h
  \/ pc[r] = "enqueue" /\ Target(r) = h

(* sbi_fifo_init resets the lock, avail and tail and clears the entries,   *)
(* one after the other and without the lock.  If another hart is inside an *)
(* operation meanwhile, the lock it holds is free or its ticket gone, and  *)
(* what it stores mixes with what is reset: the fifo is torn.              *)
FifoInit(h) ==
  /\ pc[h] = "fifo_init"
  /\ \/ fifo' = [fifo EXCEPT ![h] = << >>] /\ UNCHANGED torn
     \/ /\ \E r \in Harts : InFifo(r, h)
        /\ \E q \in Debris : fifo' = [fifo EXCEPT ![h] = q]
        /\ torn' = torn \cup {h}
  /\ Goto(h, "next_jump")
  /\ UNCHANGED <<sendVars, workVars, up, sync, events, msip, ssip, owed, muted>>

(* The operations on a torn fifo exclude one another no longer: it may     *)
(* change in any way at any time.                                          *)
Corrupt(h) ==
  /\ h \in torn
  /\ \E q \in Debris : fifo' = [fifo EXCEPT ![h] = q]
  /\ UNCHANGED <<sendVars, workVars, up, sync, events, msip, ssip, pc, owed, muted, torn>>

(* sbi_hsm_prepare_next_jump                                               *)
NextJump(h) ==
  /\ pc[h] = "next_jump"
  /\ up' = up \cup {h}
  /\ Goto(h, "smode")
  /\ UNCHANGED <<sendVars, workVars, fifo, sync, events, msip, ssip, owed, muted, torn>>
-----------------------------------------------------------------------------
(* What a hart does of its own accord ...                                  *)
Run(h) ==
  \/ SendDone(h) \/ NoUpdate(h) \/ UpdateSelf(h) \/ Merge(h) \/ NoMerge(h)
  \/ Enqueue(h) \/ EnqueueFull(h) \/ SetBit(h) \/ Raise(h) \/ Sync(h) \/ SyncWait(h)
  \/ Dequeue(h) \/ DequeueEmpty(h) \/ Ack(h) \/ AckLast(h) \/ AckReturn(h)
  \/ ClearIpi(h) \/ XchgType(h) \/ ProcessSmode(h) \/ ProcessTlb(h) \/ ProcessDone(h)
  \/ IpiInit(h) \/ PlatformIpiInit(h) \/ TlbInit(h) \/ FifoInit(h) \/ NextJump(h)

(* ... and what the supervisor chooses, or a race has left.                *)
Choose(h) ==
  \/ (\E a \in Asks[h] : Request(h, a[1], a[2])) \/ (\E mask \in Ipis[h] : SendSmode(h, mask))
  \/ TakeSsip(h) \/ Stop(h) \/ (\E g \in Harts : HartStart(h, g)) \/ Corrupt(h)

Next == \E h \in Harts : Run(h) \/ Choose(h)

Spec == Init /\ [][Next]_vars

(* Code in M-mode keeps running.  In S-mode a pending machine interrupt is *)
(* taken within bounded time, and at once on the return from M-mode: the   *)
(* supervisor cannot put it off for ever by asking for fences.             *)
FairSpec == Spec /\ \A h \in Harts : WF_vars(Run(h)) /\ SF_vars(ClearIpi(h))
-----------------------------------------------------------------------------
TypeOK ==
  /\ up \in SUBSET Harts
  /\ fifo \in [Harts -> Seq(Entry)]
  /\ \A h \in Harts : Len(fifo[h]) <= Entries
  /\ sync \in SUBSET Harts
  /\ events \in [Harts -> SUBSET {"smode", "tlb"}]
  /\ msip \in SUBSET Harts
  /\ ssip \in SUBSET Harts
  /\ pc \in [Harts -> PCs]
  /\ event \in [Harts -> {"smode", "tlb"}]
  /\ todo \in [Harts -> SUBSET Harts]
  /\ info \in [Harts -> Entry \cup {NoInfo}]
  /\ pend \in [Harts -> SUBSET {"smode", "tlb"}]
  /\ acks \in [Harts -> SUBSET Harts]
  /\ deq \in [Harts -> 0 .. Count]
  /\ ret \in [Harts -> {"process", "enqueue", "sync"}]
  /\ muted \in SUBSET Harts
  /\ torn \in SUBSET Harts

(* A hart whose entry is out and no answer yet, and to whom.            *)
Waits(r, t) ==
  /\ event[r] = "tlb" /\ todo[r] # {} /\ Target(r) = t
  /\ pc[r] \in {"set_bit", "raise", "sync"} \/ (pc[r] \in WorkPCs /\ ret[r] = "sync")

(* When sbi_tlb_request is through with a hart, that hart has executed a   *)
(* fence for all that the caller asked to be removed, after the call: none *)
(* of it is lost in the merging of entries, the widening of ranges or the  *)
(* service of one hart's fifo while another one waits.                     *)
FlushedWhenDone == \A r \in Harts : \A x \in owed[r] : x[1] \in todo[r]

(* Where an acknowledgement may be: in an entry, or in the hands of the    *)
(* hart that served the entry, and then in tlb_sync.                       *)
Queued(r, t, i) == i \in DOMAIN fifo[t] /\ r \in fifo[t][i].smask
Acking(r, t) == pc[t] = "ack" /\ r \in acks[t]

Underway(r, t) == r \in sync \/ Acking(r, t) \/ \E i \in DOMAIN fifo[t] : Queued(r, t, i)

(* An acknowledgement is under way only to a hart that waits for it, and   *)
(* in one place: tlb_sync does not return early, also if harts stop and    *)
(* start, for as long as no fifo was torn.                                 *)
NoStrayAck ==
  \A r, t \in Harts :
    /\ Acking(r, t) => Waits(r, t) /\ r \notin sync
    /\ \A i \in DOMAIN fifo[t] : Queued(r, t, i) =>
         /\ Waits(r, t) /\ r \notin sync /\ ~Acking(r, t)
         /\ \A j \in DOMAIN fifo[t] : Queued(r, t, j) => i = j
    /\ r \in sync => \E u \in Harts : Waits(r, u)
AckComes == \A r, t \in Harts : Waits(r, t) => Underway(r, t)

(* Exactly one acknowledgement is under way for every hart that waits, and *)
(* none for the others.  So no hart waits for ever for want of one, or     *)
(* takes a late one for the next fence, or spins in tlb_entry_process.     *)
OneAck == NoStrayAck /\ AckComes

(* A hart that read the mask of interruptible harts may find its target    *)
(* stopped.  Then too its entry reaches the target's fifo before it waits, *)
(* and from there the answer gets lost in two ways only: the target boots  *)
(* and sbi_fifo_init empties the fifo, or the fifo was torn by it.  A      *)
(* merge, a full fifo, the service of entries, a stop, an interrupt lost   *)
(* on the way or the torn fifo of another hart do not lose it.             *)
AnswerKept ==
  [][\A r, t \in Harts :
       Waits(r, t)' /\ (Waits(r, t) => Underway(r, t)) =>
         Underway(r, t)' \/ FifoInit(t) \/ t \in torn]_vars

(* Some hart is about to record a fence for t; to interrupt t.             *)
Recording(t) == \E s \in Harts : pc[s] = "set_bit" /\ event[s] = "tlb" /\ Target(s) = t
Interrupting(t) == \E s \in Harts : pc[s] = "raise" /\ Target(s) = t

(* A hart in S-mode with an entry in its fifo is going to be interrupted.  *)
EntryNotStranded ==
  \A t \in Harts \ torn :
    fifo[t] # << >> /\ pc[t] = "smode" /\ t \notin msip => Recording(t) \/ Interrupting(t)

(* An event in ipi_type is not forgotten: the hart has an interrupt, or    *)
(* has just cleared it and not yet looked, or will be interrupted.  The    *)
(* exception are events sent to a hart while it was starting.              *)
EventNotLost ==
  \A t \in Harts :
    events[t] # {} /\ t \notin msip /\ pc[t] # "xchg" =>
      t \in muted \/ Interrupting(t)

(* Every remote fence completes.                                           *)
RequestCompletes == \A h \in Harts : pc[h] = "send" ~> pc[h] = "smode"
-----------------------------------------------------------------------------
(* An inductive invariant for the two invariants on lost wake-ups.         *)

(* A hart in tlb_process, and one that is stopped or starting.             *)
Serving(t) == pc[t] \in WorkPCs /\ ret[t] = "process"
Booting(t) == pc[t] \in {"off", "ipi_init", "ipi_clear", "tlb_init", "fifo_init"}

(* A hart in sbi_ipi_send, for a hart that it is not through with.         *)
Sending(h) == pc[h] \in SendPCs \ {"send"} \/ (pc[h] \in WorkPCs /\ ~Serving(h))

SendInv ==
  \A h \in Harts :
    /\ Sending(h) => todo[h] # {}
    /\ Sending(h) /\ pc[h] \notin {"set_bit", "raise"} => event[h] = "tlb"
    /\ (Sending(h) \/ pc[h] = "send") /\ event[h] = "tlb" => info[h] # NoInfo
    /\ pc[h] = "ack" => acks[h] # {}

(* Events are in hand only in sbi_ipi_process.                             *)
PendInv == \A t \in Harts : pend[t] # {} => pc[t] = "process" \/ Serving(t)

(* An entry is followed by the fence event and its interrupt until it is   *)
(* served, whatever a torn fifo of another hart may hold.                  *)
EntryInv ==
  \A t \in Harts \ torn : fifo[t] # << >> =>
    \/ Recording(t)
    \/ "tlb" \in events[t] /\ (t \in msip \/ pc[t] = "xchg" \/ Interrupting(t))
    \/ "tlb" \in pend[t] \/ Serving(t) \/ Booting(t)

WakeInv == TypeOK /\ SendInv /\ PendInv /\ EntryInv /\ EventNotLost
-----------------------------------------------------------------------------
(* Inductive invariants for the acknowledgements and the fences.           *)

(* A hart in sbi_ipi_send_many sends a fence on its own behalf, and there  *)
(* is nothing left to send when it is not.                                 *)
InCall(h) == pc[h] = "send" \/ Sending(h)
CallInv ==
  \A h \in Harts :
    /\ InCall(h) /\ event[h] = "tlb" => info[h].smask = {h}
    /\ todo[h] # {} => InCall(h)

(* Without stops nobody boots again, and no fifo gets torn.                *)
AllUp == up = Harts /\ torn = {} /\ \A h \in Harts : ~Booting(h) /\ pc[h] # "next_jump"

(* S-mode fences that tlb_range_check merges without loss: the end of the  *)
(* range does not wrap, and the range is not (0, 0), which                 *)
(* sbi_tlb_local_sfence_vma takes for everything but tlb_range_check for   *)
(* an empty range at 0.                                                    *)
Mergeable(e) ==
  e.fn \in {"sfence_vma", "sfence_vma_asid"} =>
    ~(e.start = 0 /\ e.size = 0) /\ e.start + e.size < Space
MergeableAsks == \A h \in Harts : \A a \in Asks[h] : Mergeable(Upgrade(a[1]))

(* What a fence has yet to remove from t is covered by the request, then   *)
(* by the entry in t's fifo, and is gone when the acknowledgement starts.  *)
OwedOn(r, t) == {x \in owed[r] : x[1] = t}

OwedInv == DOMAIN owed = Harts /\ \A r \in Harts : owed[r] # {} => InCall(r) /\ event[r] = "tlb"

InfoInv ==
  \A r \in Harts : InCall(r) /\ event[r] = "tlb" =>
    /\ Mergeable(Upgrade(info[r]))
    /\ Sending(r) => info[r] = Upgrade(info[r])
    /\ \A x \in owed[r] : x[2] \in LocalFn(info[r])

CoverInv ==
  \A t \in Harts : \A i \in DOMAIN fifo[t] :
    /\ Mergeable(fifo[t][i])
    /\ \A r \in Harts : Queued(r, t, i) => \A x \in OwedOn(r, t) : x[2] \in LocalFn(fifo[t][i])

CleanInv == \A r, t \in Harts : Acking(r, t) \/ (Waits(r, t) /\ r \in sync) => OwedOn(r, t) = {}

FlushInv == OwedInv /\ InfoInv /\ CoverInv /\ CleanInv /\ FlushedWhenDone
=============================================================================
