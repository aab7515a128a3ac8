-------------------------------- MODULE SbiTimer --------------------------------
(***************************************************************************)
(* The timer of a hart: lib/sbi/sbi_timer.c on the ACLINT MTIMER driver,   *)
(* lib/utils/timer/aclint_mtimer.c.  S-mode asks for a deadline; the       *)
(* firmware programs the comparator, takes the machine timer interrupt and *)
(* passes it on as the supervisor's STIP.  The time goes on while the      *)
(* firmware reads it, in halves if the device has no 64-bit registers.     *)
(*                                                                         *)
(* In M-mode interrupts are off, and only the hart itself uses its         *)
(* comparator: the stores of mtimer_time_wr32 and the changes of mip and   *)
(* mie that follow are one step.                                           *)
(***************************************************************************)
EXTENDS Integers

CONSTANTS
  Half,       \* values of one half of a register, 2^32
  TimeMax,    \* bound: the time stops here
  Deadlines,  \* what S-mode passes to set_timer
  Deltas,     \* what a hypervisor writes to htimedelta
  NoTime

Never == Half * Half - 1    \* -1ULL

ASSUME TimerAssumption ==
  /\ Half \in Nat \ {0, 1}
  /\ TimeMax \in 0 .. Never - 1
  /\ Deadlines \subseteq 0 .. Never
  /\ Deltas \subseteq 0 .. Never
  /\ NoTime \notin Nat

VARIABLES
  wide,       \* has_64bit_mmio
  time,       \* MTIME
  cmp,        \* MTIMECMP of the hart
  mtie,       \* mie.MTIE
  stip,       \* mip.STIP
  delta,      \* time_delta
  rd,         \* where the hart is in mtimer_time_rd32, "no" outside M-mode
  hi, lo,     \* the halves it read
  since,      \* history: the time when it began to read
  deadline    \* history: the last deadline S-mode asked for

timerVars == <<wide, time, cmp, mtie, stip, delta, rd, hi, lo, since, deadline>>
readVars == <<rd, hi, lo, since>>
-----------------------------------------------------------------------------
(* sbi_timer_init and aclint_mtimer_warm_init on a hart that starts.  The  *)
(* device has been synchronised with its reference, which the first of its *)
(* harts does once, in the boot (time_delta_computed).                     *)
TimerInit ==
  /\ wide \in BOOLEAN
  /\ time = 0
  /\ cmp = Never
  /\ mtie = FALSE /\ stip = FALSE
  /\ delta = 0
  /\ rd = "no" /\ hi = 0 /\ lo = 0 /\ since = 0
  /\ deadline = NoTime

Tick ==
  /\ time < TimeMax
  /\ time' = time + 1
  /\ UNCHANGED <<wide, cmp, mtie, stip, delta, readVars, deadline>>

(* sbi_timer_event_start, mtimer_event_start *)
TimerEventStart(next) ==
  /\ cmp' = next
  /\ stip' = FALSE
  /\ mtie' = TRUE
  /\ deadline' = next
  /\ UNCHANGED <<wide, time, delta, readVars>>

(* sbi_timer_process, in the machine timer interrupt *)
Mtip == mtie /\ time >= cmp

(* Mutant: the interrupt is not passed on.                                 *)
TimerProcess_Drop ==
  /\ mtie' = FALSE
  /\ UNCHANGED <<wide, time, cmp, stip, delta, readVars, deadline>>

TimerProcess ==
  /\ mtie' = FALSE
  /\ stip' = TRUE
  /\ UNCHANGED <<wide, time, cmp, delta, readVars, deadline>>

(* sbi_timer_set_delta *)
TimerSetDelta(d) == delta' = d /\ UNCHANGED <<wide, time, cmp, mtie, stip, readVars, deadline>>

(* sbi_timer_exit, mtimer_event_stop *)
TimerExit ==
  /\ cmp' = Never
  /\ stip' = FALSE
  /\ mtie' = FALSE
  /\ deadline' = NoTime
  /\ UNCHANGED <<wide, time, delta, readVars>>

(* sbi_timer_init, aclint_mtimer_warm_init when the hart starts again;     *)
(* aclint_mtimer_sync then finds time_delta_computed set and does nothing. *)
TimerWarmInit ==
  /\ delta' = 0
  /\ cmp' = Never
  /\ UNCHANGED <<wide, time, mtie, stip, readVars, deadline>>
-----------------------------------------------------------------------------
(* sbi_timer_value, mtimer_value: the device is read at once, ...          *)
ReadBegin ==
  /\ rd = "no"
  /\ rd' = IF wide THEN "all" ELSE "hi"
  /\ since' = time
  /\ UNCHANGED <<wide, time, cmp, mtie, stip, delta, hi, lo, deadline>>

ReadAll ==
  /\ rd = "all"
  /\ rd' = "done" /\ hi' = time \div Half /\ lo' = time % Half
  /\ UNCHANGED <<wide, time, cmp, mtie, stip, delta, since, deadline>>

(* ... or in halves, until the upper half did not change meanwhile.        *)
(* Mutant: the upper half is not cut off.                                  *)
ReadHi_Whole ==
  /\ rd = "hi"
  /\ rd' = "lo" /\ hi' = time
  /\ UNCHANGED <<wide, time, cmp, mtie, stip, delta, lo, since, deadline>>

ReadHi ==
  /\ rd = "hi"
  /\ rd' = "lo" /\ hi' = time \div Half
  /\ UNCHANGED <<wide, time, cmp, mtie, stip, delta, lo, since, deadline>>

ReadLo ==
  /\ rd = "lo"
  /\ rd' = "check" /\ lo' = time % Half
  /\ UNCHANGED <<wide, time, cmp, mtie, stip, delta, hi, since, deadline>>

(* Mutant: the upper half is read once.                                    *)
ReadCheck_Once ==
  /\ rd = "check"
  /\ rd' = "done"
  /\ UNCHANGED <<wide, time, cmp, mtie, stip, delta, hi, lo, since, deadline>>

ReadCheck ==
  /\ rd = "check"
  /\ rd' = IF hi = time \div Half THEN "done" ELSE "hi"
  /\ UNCHANGED <<wide, time, cmp, mtie, stip, delta, hi, lo, since, deadline>>

(* What sbi_timer_value and sbi_timer_virt_value return.                   *)
TimeValue(virt) == (hi * Half + lo + (IF virt THEN delta ELSE 0)) % (Half * Half)

ReadEnd ==
  /\ rd = "done"
  /\ rd' = "no" /\ hi' = 0 /\ lo' = 0 /\ since' = 0
  /\ UNCHANGED <<wide, time, cmp, mtie, stip, delta, deadline>>

Read == ReadAll \/ ReadHi \/ ReadLo \/ ReadCheck \/ ReadEnd
-----------------------------------------------------------------------------
TimerTypeOK ==
  /\ wide \in BOOLEAN /\ mtie \in BOOLEAN /\ stip \in BOOLEAN
  /\ time \in 0 .. TimeMax /\ since \in 0 .. TimeMax
  /\ cmp \in 0 .. Never /\ delta \in 0 .. Never
  /\ rd \in {"no", "all", "hi", "lo", "check", "done"}
  /\ hi \in 0 .. Half - 1 /\ lo \in 0 .. Half - 1
  /\ deadline \in 0 .. Never \cup {NoTime}

(* S-mode never sees a timer interrupt before the deadline it asked for    *)
(* last, nor one of a deadline from before the hart stopped; and a read of *)
(* the time, in halves while the time goes on, gives a value that the time *)
(* had since the read began, shifted by the delta for a guest.             *)
TimerOnTime ==
  /\ stip => deadline # NoTime /\ deadline <= time
  /\ rd = "done" => \A virt \in BOOLEAN :
       \E t \in since .. time : TimeValue(virt) = (t + (IF virt THEN delta ELSE 0)) % (Half * Half)

(* A deadline that comes is answered: the interrupt is pending in S-mode   *)
(* sooner or later, unless S-mode asks for another deadline or the hart    *)
(* stops.                                                                  *)
TimerFires == \A d \in Deadlines : d <= TimeMax => (deadline = d ~> stip \/ deadline # d)
-----------------------------------------------------------------------------
(* An inductive invariant for TimerOnTime: the halves in hand are those of *)
(* times that have come since the read began, the upper half's first.      *)
TimerInv ==
  /\ mtie => cmp = deadline
  /\ stip => deadline # NoTime /\ deadline <= time
  /\ since <= time
  /\ rd = "lo" => \E t \in since .. time : hi = t \div Half
  /\ rd = "check" => \E t \in since .. time : \E u \in t .. time : hi = t \div Half /\ lo = u % Half
  /\ rd = "done" => hi * Half + lo \in since .. time
=============================================================================
