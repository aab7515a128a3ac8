# OpenSBI in TLA+

OpenSBI is the M-mode firmware of a RISC-V machine: it boots the harts, hands
each of them to a supervisor, and serves the supervisor's calls.  It has no
scheduler and no threads.  Its concurrency is that of the harts: each runs the
same code with interrupts off, and they share memory, a few locks and
inter-processor interrupts.  This project models that shared part, and the
sequential parts whose state outlives a call (domains, timer, counters, traps),
checks them with TLC on small machines, and proves most of their invariants
with TLAPS for all of them.

All paths below are relative to the repository.

## 1. Inventory

| component | state | operations | who uses it |
|---|---|---|---|
| ticket lock, `lib/sbi/riscv_locks.c` | owner, next | lock, trylock, unlock, check | fifo, boot, console, IPI devices |
| bounded queue, `sbi_fifo.c` | memory, avail, tail, qlock | enqueue, dequeue, in-place update, reset, queries | remote fences |
| hart states (HSM) and boot, `sbi_hsm.c`, `sbi_init.c` | state per hart; lottery, coldboot flag and wait mask; init count; arguments of the next stage | cold and warm boot, start, stop, suspend, resume | supervisor, domains, system reset |
| IPIs, `sbi_ipi.c` | `ipi_type` per hart, pending bits | send to many, process, init, exit | fences, S-mode IPIs, halt |
| remote fences, `sbi_tlb.c` | fifo and `tlb_sync` per hart | request, update (merge, enqueue), sync, process | supervisor |
| domains, `sbi_domain.c`, `lib/utils/fdt/fdt_domain.c` | regions, possible and assigned harts | register, sanitize, sort, merge, check address, finalize | boot, drivers, HSM, PMP |
| PMU, `sbi_pmu.c` | active events per hart and counter, event map | match, start, stop, configure | supervisor, all subsystems |
| timer, `sbi_timer.c`, `lib/utils/timer/aclint_mtimer.c` | time_delta, mip/mie bits, comparator | set, process, init, exit | supervisor |
| system reset, `sbi_system.c` | reset devices | check, reset | supervisor |
| scratch allocator, `sbi_scratch.c` | offset | alloc, free | every subsystem's init |
| ecall dispatch, `sbi_ecall*.c` | list of extensions | register, find, handle | trap handler |
| traps, `sbi_trap.c` | CSRs | redirect, handle | hardware |
| hart features and PMP, `sbi_hart.c` | features, PMP, CSRs | detect, configure, switch mode | boot |
| console, emulation, misaligned accesses, string and bit helpers | little | sequential | traps |
| firmware entry, `firmware/fw_base.S` | relocation lottery, boot status | relocate, set up scratch | reset |
| drivers, device tree, `lib/utils`, `platform` | devices | register accesses | platform callbacks |

**Interactions.** `sbi_hsm_hart_start` writes another hart's state and its
next-stage arguments and then interrupts it or asks a device to power it up.
`sbi_ipi_send_many` reads the HSM states of others, once, and then goes through
the harts; for a fence it puts an entry into the target's fifo, sets a bit in
the target's `ipi_type`, raises its interrupt and waits until the target has
set `tlb_sync`.  Drivers add their registers to the root domain's regions; the
device tree's domains copy the closed ones of them; each hart turns the regions of
its domain into PMP entries.  The trap handler calls the timer, the IPIs, the ecall
handlers and the emulations, most of which count a firmware event of the
PMU, or redirects the trap to the supervisor.  A stopping hart takes itself out of that mask and processes what
is pending a last time; a starting one resets its `ipi_type`, its fifo and its
`tlb_sync`.

**What is hard.** Harts in wfi whose wake-up must not be lost; state published
before the data that belongs to it; a mask read once and used for a long time;
waits with interrupts off on harts that wait themselves; merging of requests
that others wait for; indices and tickets that wrap; code that is overwritten
while harts run it; a time that goes on while it is read in halves; traps of a host
inside those of its guest.  `PROJECT.json` lists
these hazards at the lines where they bite, with the properties that cover
them.

**What makes each part correct.** Lock: exclusion, order of arrival, progress.
Queue: it is a bounded FIFO queue whose update changes one entry at most.  HSM: a hart's
state follows from what it does, every accepted start brings the hart to S-mode with
the arguments of that start, no hart sleeps through its wake-up, there is one
cold boot.  Fences: when the call returns every target has executed what was
asked for, each wait gets its one answer, and every call returns.  Domains:
the smallest region decides, merging changes no access, devices stay closed, every
hart has one domain and starts in it, and the PMP agrees.  PMU: a counter that
counts, counts what it was configured for, and a counter in use is not given away.
Timer: no interrupt before its deadline, none lost, no torn time.  Traps: a
redirected trap returns to where it came from.  Firmware entry: harts run
intact code, find their scratch space ready, and all arrive.  Scratch:
allocated areas are disjoint and within the scratch space.

## 2. Modules

| module | models | extends / instantiates |
|---|---|---|
| `FifoMutex` | abstract: a mutex that serves in the order of a queue | |
| `TicketLock` | `riscv_locks.c` | implements `FifoMutex` |
| `TicketLockProofs` | proofs | `TicketLock` |
| `BoundedQueue` | abstract: a sequence of at most `Entries` elements | |
| `SbiFifo`, `MCSbiFifo` | `sbi_fifo.c` | implements `BoundedQueue` |
| `SbiFifoProofs` | proofs | `SbiFifo` |
| `SbiHsm` | `sbi_init.c`, `sbi_hsm.c`, the HSM extension, the starts of `sbi_domain_finalize` | |
| `SbiHsmProofs` | proofs | `SbiHsm` |
| `SbiTlb`, `MCSbiTlb` | `sbi_ipi.c`, `sbi_tlb.c`, the IPI and RFENCE extensions | |
| `SbiTlbProofs` | proofs: events and entries, answers and fences | `SbiTlb` |
| `FwBase`, `MCFwBase` | `fw_base.S`, `fw_dynamic.S`, `fw_jump.S`, `sbi_scratch.c` | |
| `FwBaseProofs` | proofs | `FwBase`, `NumberLemmas` |
| `SbiDomain`, `MCSbiDomain` | `sbi_domain.c`, `fdt_domain.c`, the ACLINT drivers' regions, `sbi_hart_pmp_configure`, `pmp_set` | |
| `NumberLemmas` | quotients, remainders, powers of two, Min and Max | |
| `SbiDomainProofs` | proofs | `SbiDomain`, `NumberLemmas` |
| `SbiTimer` | `sbi_timer.c`, `aclint_mtimer.c` | |
| `SbiPmu` | `sbi_pmu.c` | |
| `SbiTrap`, `MCSbiTrap` | `sbi_trap.c`, ecalls for timer and PMU, the emulations' control, stop and start | extends `SbiTimer`, `SbiPmu` |
| `SbiTrapProofs` | proofs | `SbiTrap`, `NumberLemmas` |

The modules are layered.  `TicketLock` justifies that a section under a lock is
one step in `SbiFifo` and `SbiHsm`; `SbiFifo` justifies that an operation on a
fifo is one step on a sequence in `SbiTlb`.  In time, `FwBase` comes before
`SbiHsm`, whose cold boot runs `SbiDomain`, and `SbiTrap` is a hart after it.

**TicketLock.** `owner` and `next` count modulo `Tickets` (2^16 in the code).
`spin_lock` is the amoadd that draws a ticket and the loop that waits for it;
`spin_trylock` is the lr.w, the comparison and the sc.w, which fails when
another hart wrote the word since, and may fail without cause; `spin_unlock`
is the load of owner and the store of the half word.

**SbiFifo.** The ring as the code has it: `avail`, `tail` and memory.  The
callback of the in-place update is a constant, a function of the two entries, so
that the results hold for every callback.  `Init` is the state that `sbi_fifo_init`
leaves.

**SbiHsm.** A step of a hart is one access to state that others use, with the
local work up to the next one.  `pc` says where in `sbi_init.c` or `sbi_hsm.c`
the hart is: `cold_*`, `warm_*` and `resume_*` are the boot paths, `hsm_wait` and
`hsm_wfi` the loop of `sbi_hsm_hart_wait`, `start_*` the rest of
`sbi_hsm_hart_start` after its compare-and-swap, `exit_ipi`, `hsm_exit` and
`dev_stop` the stop, `susp_*` the suspend.  `HsmDev` is the HSM device
(external): none, one that boots secondary harts, or one that starts and stops
harts.  `MayFail` lets platform and device calls return errors.  `invalid` is
where a hart ends whose compare-and-swap finds an unexpected state, `hung`
where it ends after an error of an init.  The start arguments are tags: three
fields, each of which holds the tag of the call that wrote it, so that a mix
is visible.  `asked` is a history variable.

`sbi_hsm_hart_start` is the compare-and-swap that makes the target START_PENDING
(`Claim`, with the read of `init_count`), then the stores of the three
arguments, one by one and in any order (`StartStore`, `start_args`), then the
interrupt or the device (`start_kick`).  In between the target may look at its
state.  If it can depends on the device: without one, the target may be awake in
`sbi_hsm_hart_wait`, and the run `hsm_slow_start` shows that it leaves with old
arguments; with one that starts and stops harts, the target is off until the stores are
done, and `EntersAsAsked` holds, over starts that fail, stops and suspends.

**SbiTlb.** Sending (`send`, `enqueue`, `set_bit`, `raise`, `sync`), serving
(`dequeue`, `ack`, called from the interrupt handler or from one of the two
waiting loops, as `ret` says), the handler itself (`xchg`, `process`), and
stopping and starting.  A fence is described by what it removes: translations of a
stage, an address space and a page.  `owed` is a history variable with the
translations that the targets of a request have yet to remove; a local fence takes away
what it removes on its hart.  Addresses are pages of a space that wraps.  The
mask of interruptible harts is read in one step and the targets are then taken
in ascending order, as the code's loop does.  The start of a hart is only the resets it
does (the rest is in `SbiHsm`): `ipi_type`, the interrupt, `tlb_sync` (`TlbInit`) and the
fifo (`FifoInit`), a step each.  `sbi_fifo_init` does not take the lock of the fifo, which a
hart with an old mask may hold or be about to take.  If none is inside an operation on it
(`InFifo`), the fifo is empty afterwards, as it may be otherwise.  But then the lock, `avail`,
`tail` and the entries may also be reset in the midst of the operation, which after that
overwrites them, or lets go of a lock it does not hold: the fifo is `torn`.  What
it holds is any of `Debris`, and since its operations may overlap from then on it may change to any
other at any time (`Corrupt`); the entries of `Debris` may name harts that never asked.
What holds for all this is stated without `torn` (`AnswerKept` with it as the second way to lose an
answer); what does not is stated for the other fifos (`EntryInv`) or until the
first fifo is torn (`NoStrayAck`, `FlushedWhenDone`).  `muted` is a history variable, see below;
`torn` is no state of the code either, but says which fifos `Corrupt` may change.

**FwBase.** Memory is a function from addresses to words, the firmware's
code included: a word of code is a value, so that running a word that is not
there yet, or is overwritten, shows.  Each label is a place of `fw_base.S`;
`base` is the copy that a hart runs, at the load or the link address.
Loops that move words (image, BSS, device tree, scratch spaces) have a step per
word.  Each hart has a store buffer (`buf`, external), which others do not see
until it drains; `InOrder` says whether in order.  `Builds` are
firmware builds with what the previous stage passes.  The allocator of
`sbi_scratch.c` works on the same memory.

**SbiDomain.** Addresses have `Xlen` bits and sums wrap, as `unsigned long`
does; shift counts use their low bits.  The loops of the sort and of the merge
have one step per comparison (`i`, `j`); `pc` is the place in the cold boot.  A
driver's range is cut into tiles as `aclint_mtimer_add_regions` does, drivers
come in any order, and the device tree is a sequence of domain nodes as
`__fdt_parse_domain` reads it (`ParseDomain`; its second pass, which copies the
closed regions of the root domain one by one, is the loop `Inherit`, and the
rest of the function `Inherited`).  An error hangs the cold boot.  `pmp` holds what
`pmp_set` writes; what the hardware makes of it (`PmpAllows`) is external.
`added` is a history variable with the regions before any merge.  A list that is
being sorted or merged, or was left so by an error, is not read by anybody;
`Settled` says when the root domain's is not.  Regions of the whole address
space are exempt from the absence of duplicates: `1UL << 64` makes
`is_region_subset` find them to be subsets of nothing, so that two of them do not conflict.
For the same reason such a region may begin anywhere: for `sbi_domain_check_addr` it then
reaches from its base to the end of the space (`Has`), for `pmp_set` it is the whole space
(`PmpAddr`).  One of the device trees of the run has such a domain.

**SbiTimer.** The comparator, MTIE, STIP and the delta of a hart, and the
time, which goes on also inside `mtimer_time_rd32`.  `deadline` and `since` are
history variables.  A hart that starts again resets its comparator (`TimerWarmInit`).  It does not
change the time: `aclint_mtimer_sync` writes MTIME only for the first hart of the
device in a boot, since `time_delta_computed` stays set until the next cold boot.  The model begins after that.

**SbiPmu.** `hw_event_map`, `active_events`,
`fw_event_map`, `mcountinhibit` and the event selectors of a hart; a request is the
set of bits of `cmask << cbase`, of a word of 64, which may be empty, with a `cbase` that may be anything.  The platform adds its events one
after the other in the cold boot (`PmuAdd`), before S-mode runs, and offers
for each only counters that there are: `pmu_add_hw_event_map` takes the
platform's counter map as it is.  `use` is a history variable with what S-mode
may expect of each counter.  The code compares neither the code of a firmware event with the
length of a row of `fw_event_map` (`FwMax`), nor `cbase` with the number of counters when the
match is skipped, nor the event with the one the counter has.  So a call may change a
later hart's row (`Intrude` is such a call of another hart, for the codes `Intruded`), start or clear an event
without naming a counter that has it, start a counter that has no event (`CfgSkip`), or store an index of
all ones, which leaves the counter free (`Lost`).  All of these are in the model;
the history variable `stray` has the events and counters they touched, which `PmuSound` exempts.
What lies behind the last row of a table, and loads from there that fault, are not modelled: a call that
leaves the hart's row leaves the model.

**SbiTrap** composes them: a trap is one step with interrupts
off, except for a read of the time, and contains the PMU event that the
handler counts.  `s`, `vs` and `h` are the fields of sstatus, vsstatus and
hstatus that `sbi_trap_redirect` changes; the supervisor, its guest
and sret are external.  S-mode does one kind of work per behaviour (`Setups`: timer, hardware
events, firmware events, traps): the parts share no state but the firmware
counts, which the work `fw` covers with all of the events.

## 3. Runs

| run | instance | shows |
|---|---|---|
| `ticket_lock` | 3 harts, 4 tickets | exclusion, refinement of `FifoMutex`, a spinning hart is served |
| `fifo` | 4 entries, 3 values | the ring implements the bounded queue, with every result of the callback |
| `hsm_boot` | 3 harts, one without S-mode, two domains, no device | no unexpected state, no lost wake-up, every start and every wait for the cold boot ends |
| `hsm_secondary` | 3 harts, device boots secondary harts, 1 tag | the inductive invariant, the device is asked only for harts that are off, a pending hart has a caller |
| `hsm_hotplug` | 3 harts, device starts and stops, errors, 2 tags | the inductive invariant on starts, with failures everywhere; arguments arrive whole |
| `hsm_slow_start` | 2 harts, 2 tags, no device | **violated**: `EntersAsAsked` |
| `tlb` | 3 harts, fifos of 1 entry, 7 kinds of fence | complete fences, exactly one answer for each wait |
| `tlb_live` | 3 harts, fifos of 2 entries | no event is lost with merging, and every request completes |
| `tlb_stop` | 3 harts that stop and start, S-mode IPIs, fifos torn by their initialisation | no event and no entry without an interrupt; an answer gets lost only by the initialisation of its target's fifo |
| `domain` | 3 harts, 128 bytes, 5 devices, 10 device trees, 4 PMP entries | decisions by the smallest region, merges, closed devices, boot harts, PMP, and the end of the boot |
| `fw` | 3 harts, 12 builds | intact code, scratch spaces, device tree, allocations, all harts arrive |
| `runtime` | 1 hart; time in digits to the base 4; 4 hardware and 2 firmware counters | timer interrupts, reads of the time, counters, redirected traps |

**Bounds.** Three harts are two that compete for a third, which is enough for
a caller, a rival and a target in different roles; four tickets are the fewest that wrap while three
harts spin and the lock can still tell all of them apart.  Four entries let the ring wrap
with two entries in use on each side.  A fifo of one entry is full at once, which makes both
waiting loops happen; one of two entries lets two entries wait, of which a request
merges with the second.  Eight pages with a limit of two have ranges inside one another, next to
one another, above the limit, and wrapping.  Nothing else is bounded: the
models have no counters but those, and the runs explore all of their states.
The asks of each run (`MCSbiTlb`) say which requests a hart makes; they may be
made any number of times.

In `domain`, 128 bytes have room for the firmware, for devices on and off tile
boundaries, with buddies, with a tile past the end and at the top of the
address space, and for domains inside them; six root regions are too few
for some orders of the devices, and four PMP entries for some domains.  In `fw`, an image
of 12 words moves up, down, far or over itself, in every way the check at
`_relocate` tells apart; two unseen stores per hart (`BufMax`) are the fewest that can be
reordered.  In `runtime`, `TimeMax` lets the upper digit of the time change twice, so
that a read meets a carry at each of its places; the delta wraps; counts wrap at
3; two firmware counters can have one event or two; the event map refuses
entries for each of its reasons; firmware events have codes in the row, beyond it, and of all ones, one
request has a `cbase` beyond the counters, and a call of another hart reaches one code.  In `tlb_stop`, a torn fifo is empty or has an entry that
nobody sent so.  In `domain`, the device tree with the largest region off 0 has room below it that only the PMP
opens.

**Fairness.** `FairSpec` of `TicketLock` lets harts that spin or hold the lock
go on; a holder that never releases it is not a behaviour of the code, whose
critical sections are finite.  In `SbiHsm` a hart in M-mode goes on (weak fairness
of `Run`); what a supervisor or a device does (`Choose`) has no fairness.  In
`SbiTlb` there is weak fairness of `Run` and strong fairness of `ClearIpi`: a
pending machine interrupt is taken on the return to S-mode, before the supervisor can make
another call, so that it cannot be put off for ever by calls in between.
`SbiTrap` has strong fairness of `TimerInterrupt` for the same reason, and
weak fairness of the time and of the reading loop, which ends because the upper
half does not change for ever.  In `SbiDomain` the cold boot hart goes on.  In
`FwBase` a hart out of reset goes on and its stores drain; nothing says
that a hart ever comes out of reset.

**Deadlock** is checked except where harts may stop or hang for good, and then
all of them may (`hsm_hotplug`, `tlb_stop`, `fw`), or the boot is over (`domain`).

### Where the code disagrees

- `hsm_slow_start`: `sbi_hsm_hart_start` makes the hart START_PENDING before
  it stores `next_arg1`, `next_addr` and `next_mode`.  A hart that is awake in
  `sbi_hsm_hart_wait` at that moment, after a late interrupt for instance, may enter S-mode with old ones.
- `docs/domain_support.md:29` says that "The base address of a memory
  region is 2 ^ order aligned start address".  `is_region_valid` accepts a region of order
  `__riscv_xlen` with any base, since `1UL << 64` is 1.  Below that base the PMP of its domain
  opens what `sbi_domain_check_addr` refuses (`Reached` in `PmpAgrees`; one device tree of `domain` has such a region).

The other runs stay away from cases that fail when the bound or the
exemption named here is lifted; each is a hazard of `PROJECT.json`.  The properties do
not catch these: where a hazard has one that exempts it, its note says what remains.

- An error of the device's `hart_start` leaves the hart START_PENDING with
  nobody starting it (`PendingHartIsComing` with `MayFail` and a device).
- (0, 0) stands for everything in the local fence functions and for nothing in
  `tlb_range_check`, so that it is merged into an entry for a page at 0.
- A hart with an old mask may be inside an operation on a fifo that its booting owner
  initialises without the lock.  From then on entries may overwrite one another and acknowledgements
  may go to harts that do not wait: `NoStrayAck` and `FlushedWhenDone` say nothing once a
  fifo is `torn`.
- A target that stops after the mask was read never answers a fence, and its start
  throws the entry away; the caller waits with interrupts off (`RequestCompletes` with `MayStop`).
- The fences of `fw_base.S` come after the stores of `_boot_status`, not
  before them: with `InOrder = FALSE` a hart may run code, or use a scratch
  space, that is not there yet.
- A placement where the stacks of the link copy lie on the load copy is not
  refused (`Placed`); a hart id missing in `hart_index2id` passes the signed
  comparison at `fw_base.S:458` (`Known`); a device tree moved up onto itself
  is damaged.
- `is_region_subset` uses the order of one region for both ends.
  `docs/domain_support.md:63` says that "Two overlapping memory regions cannot have same flags";
  the code accepts them unless they begin at one address.
  `ChecksSmallest` and `MergeKeepsAccess` hold nevertheless.
- A device in the last tile of the address space may get the whole space as
  its region (`Guarded`); a domain of the device tree may open a part of a
  closed region of the root domain (`Opens`).
- A trap that the hypervisor itself takes while hstatus.SPV is set is
  redirected without clearing SPV, and its sret enters the guest.
- Firmware events with codes from `SBI_PMU_FW_CTR_MAX` on keep their counts
  when a hart stops and starts (`again` in `PmuSound`).
- Two firmware counters for one event share its count (`alone`), and a call may change events and
  counters of this hart or a later one that it does not name (`stray`, section 2).

Two more limits that the runs respect.  The loop that waits for room in a full
fifo has no order: with more senders than entries a hart can be overtaken for
ever, so `RequestCompletes` is checked with fifos that have room for all
(`SBI_TLB_FIFO_NUM_ENTRIES` is 8).  And `sbi_ipi_init` resets `ipi_type` before the platform
clears the interrupt: an event sent in between by a hart with an old mask
stays without an interrupt until the next one comes.  `EventNotLost` excepts
these harts, the set `muted`, and says that there is no other way.

## 4. Proofs

Every theorem is about `Spec`, for every value of the constants that satisfies
the named assumptions of its module.

**TicketLockProofs** (assumption: finitely many harts, fewer than `Tickets`).
`LockInv` says that the tickets in use are the `next - owner` ones from owner
on, each with one hart, and that the first belongs to the holder.  From it
follow `MutualExclusion` and `ServedInOrder`, the refinement of `FifoMutex`
with the queue read off the tickets.  The arithmetic of the wrap-around is in
lemmas on distances modulo `Tickets`.

**SbiFifoProofs.** `RingInv` bounds the indices and says that the entries in
use were written.  With it each operation maps to one of `BoundedQueue` on the
sequence that starts at tail (`IsBoundedQueueHolds`).

**SbiHsmProofs.** `HsmInv` ties a hart's state to its place (`PcState`), says
there is one cold boot and who is kept out until when (`BootInv`), and that
marked sleepers are woken (`WakeInv`).  `NoInvalidState`, `ColdWakeNotLost`
follow.  `EntersAsAsked` is proved for a device that starts and stops harts, with `ArgsInv`: an
argument that is not the one asked for is still to be stored by the call that is starting the hart, and by `StartInv` the
device has not been asked for it yet.  `StartInv` is inductive
relative to `HsmInv`: harts that the device starts come up only when they are
wanted, a hart that got to S-mode has counted itself, and a device call is the
only one for its hart and finds it off; `StartNotLost`, `DeviceStartsOff` and,
without errors and hotplug, `PendingHartIsComing` follow.

**SbiTlbProofs.** `WakeInv`: what a hart in `sbi_ipi_send` knows about its
target, where events may be in hand, and that an entry in a fifo is followed
by its event and its interrupt until it is served, also across stops and
starts.  `EventNotLost` and `EntryNotStranded` follow; the run checks the stronger `WakeInv`
in place of the latter.

None of it needs the lock of a fifo that is being initialised: `EntryInv` is about
the fifos that are not torn.

`CallInv` says that a fence is sent on behalf of its sender alone.  `NoStrayAck`: whoever is a source of
an entry or is about to be answered waits, for that target, in one place.  It is inductive as
long as no fifo is torn, and false after that.  `OneAck` adds that every hart that waits
has such a place, for machines whose harts do not stop.  Where they do,
`AnswerKept`: the entry of a hart that waits is out or answered until `sbi_fifo_init` of
its target, when that boots, resets the fifo, and no other step loses it, unless the fifo was
torn before.  Both rest on one lemma about a step, `KeptNext`.
`FlushInv` follows a translation that is owed: only a call owes any
(`OwedInv`), the request covers it (`InfoInv`), then so does the entry in the target's
fifo (`CoverInv`), and none is left when the answer begins (`CleanInv`).  The
step that needs the work is the merge of a request into an
entry, which must go on to cover what both asked for.  It holds until the first fifo is torn, thus
always on machines whose harts do not stop (`FlushedWithoutStops`).  `FlushedWhenDone` has the hypothesis
`MergeableAsks`, that no request is (0, 0) or wraps: for the others the
statement is false (section 3).  `MCSbiTlb` has an assumption by which TLC
evaluates that the requests of the runs are of this kind.

**SbiTrapProofs.** `TrapInv` is the conjunction of the three parts'.  `TimerInv`: while the time
is read in halves, the halves in hand are those of times since the read began, the
upper half's first, so that the two make such a time when the upper half is found
unchanged (`SameUpperHalf`); the comparator has the last deadline while its interrupt is
enabled.  `PmuInv`: a counter is given out exactly if it has an event, which its selector agrees
with (`GrantInv`), and a firmware counter alone on its event has the value that S-mode
expects (`CountInv`; `Tracked` leaves out the events that keep their state when the hart stops, section 3, and
those in `stray`).  Requests, events, codes and `cbase` are any numbers; the assumptions left are that the platform
maps hardware events to counters there are, and that calls of other harts reach codes of the row.
`FrameInv`: what sret restores from sstatus, vsstatus and hstatus is what the trap interrupted.
`TimerOnTime`, `PmuSound` and `RedirectRoundTrip` follow, for every width of the
two halves and every number of counters and events.

**SbiDomainProofs.** `DomainInv` has an invariant of the control
(`ControlInv`), of what is left of the device (`InputInv`), of the two loops
(`SortInv`: the regions before `i` are in order with all that follow, `i` with
those before `j`; `MergeInv`: what is behind `i` is as the sort left it), of regions of the whole space
(`WholeInv`), of the lists of registered domains (`ListInv`: in order
and without duplicates), of the harts (`HartInv`) and of the boot harts (`StartInv`).
Two arguments carry it.  Order in the list excludes equal regions although the code
has no check of that: two equal regions that meet in the sort conflict, and the cold boot hangs.
A merged region has a legal order and a base that is a multiple of its size, since
the buddies are valid and different, which is arithmetic on powers of two
(`NumberLemmas`; it starts from the library's theorem on the number of subsets of a set,
`PowCounts`, since facts about 2^n cannot be had by induction).  `TypeOK`, `ChecksSmallest` and
`BootsOwnDomain` follow.

`MergeKeepsAccess` is proved under the hypothesis `Apart`, that no device
has an address of the firmware's region, with `AccessInv`: the addresses that
the devices' regions of the root domain have together are those of the regions that were
added, whatever was merged.  Without `Apart` a merged region can tie in size with the
firmware's, and the order of their bases decides which of them counts.  TLC
finds `Apart` and `AccessInv` invariant in the instance of the run.

`DevicesProtected`, under the same hypothesis, needs four more: that
devices come before the device tree is read (`LateInv`); that each address a driver asked
to close is in a region that was added or is yet to be cut into tiles (`ReachInv`);
that the regions of registered domains are aligned blocks (`ValidInv`); and that a
domain of the device tree has all closed regions of the root domain
(`InheritInv`).  With `AccessInv` some merged region of the root domain has the address;
`ChecksSmallest` makes the deciding one as small at most, thus closed.  In another
domain the deciding region is no larger than the inherited one, and of two
aligned blocks with a common address the smaller begins in the larger
(`Nested`), so that the domain opens a closed region if it allows the access.
The proof found that the exemption was too small: not only a device that
ends at the top of the space may get the whole space as its region, but each whose tile
is cut from the last `TileMax` bytes; `Guarded` says so now.

`PmpAgrees` needs no hypothesis on devices or device trees; it is about the addresses that are not below the base of
a region of order `Xlen` of the domain (`Reached`), and about regions not smaller than the granularity.  `PmpInv`: the entries of a hart are those of its
domain's list, which is final when they are written.  An aligned block and its
`pmpaddr` have the same addresses (`MatchIs`, from `OnesIs`: the number of ones
at the end of `u * 2^(k+1) + 2^k - 1` is `k`), so that the entries and the list are hit at the
same places, and the first hit of a prefix of the list is the first of the list.  The
entries are described by their places, not with `SelectSeq`, whose recursive definition
the prover cannot use.

**FwBaseProofs** (hypothesis `InOrder`: the stores of a hart reach the others in
program order; without it `RunsIntactCode` and `ScratchReady` are false, section 3).  `FwInv` says
that one hart boots the others, the one that drew the lottery's first number (`HartInv`), where each hart's registers point (`BaseInv`),
and what memory holds.  Memory is described twice.  `MemInv` is about the memory that all harts
see: the words of the load copy that late harts use are never changed (`Fixed`), the code is whole at
the link address once the first status word says so (`Moved`), and the scratch spaces and the device tree once
the second does (`Done`).  `BootInv` is about the memory that the boot hart sees, its
own stores included (`Seen`): what each label of the entry has finished (`StageInv`), and
which stores may still be on their way (`PendInv`).  The link between the two is `BootDrain`: a
status word is the last entry of the buffer (`Signals`), so that when it arrives the
memory of the others is what the boot hart saw.  `NoClash` is the arithmetic of the
comparisons at `_relocate`: the link copy of a placement they accept begins behind the words that late harts
use or ends before the load copy (`Clear`), and no copy loop overwrites a word before it reads it (`StageCopy`).  `TableInv` and
`AllocInv` are the scratch spaces and the areas in them.  `RunsIntactCode`, `ScratchReady`,
`FdtIntact`, `AllocsSound` and the types follow.  TLC checked `FwInv` on the instance of the run before it
was proved.

The assumption `FwAssumption` has the layout the linker script gives: code before data, data before BSS, BSS
before the end of the firmware, whose length is a multiple of the distance from the code to the lottery word, as the
distance of the two copies is (both are whole pages in the code); `Placed` excludes stacks on the
load copy and device trees inside of the firmware.

**Model-checked only.** The liveness properties (`SpinnerServed`, `Started`,
`ColdWaitEnds`, `RequestCompletes`, `TimerFires`, `ColdBootEnds`, `EveryHartArrives`), since
the prover has no reasoning about fairness.  Every other property of a passing run
is stated by a theorem.

## 5. Not modelled

`PROJECT.json` has every component with its status.  Vendored libraries
(libfdt, softfloat, quad division), boards and most drivers are left out: they are
third-party code, board constants, or accesses to devices on one hart.  Floating-point
emulation is about bit patterns of 64 bits, as are the assembly of misaligned
values and the decoding of instructions, of which only the control is modelled.  Feature
detection depends on how the hardware answers probes.  Console and string helpers are
formatting.  Calls that are refused before they change anything are
no steps.  The memory model is sequential consistency, apart from the stores of the start arguments in `SbiHsm`, which come
in any order, and the store buffers of `FwBase`: elsewhere the code has the fences where the order between harts
matters.  In `AllocOffset` the sum of offset and size does not wrap: every caller passes the size of a type or of a
small array.  The synchronisation of MTIME among devices, where a second hart of a device may find
`time_delta_computed` set before MTIME is written, happens before `SbiTimer` begins.

## 6. Plan

1. `FwBase` with stores out of order: which of its invariants survive when the fences stand before the
   stores of `_boot_status`.
2. Halt event and system reset, in `SbiTlb`'s event processing, composed with the stop
   of `SbiHsm`.
3. The list of ecall extensions, and misaligned accesses and CSR emulation as pure algorithms.
