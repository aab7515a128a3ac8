-------------------------------- MODULE SbiHsm --------------------------------
(***************************************************************************)
(* The life of a hart in OpenSBI: boot (lib/sbi/sbi_init.c) and hart state *)
(* management (lib/sbi/sbi_hsm.c), from reset through cold or warm boot to *)
(* S-mode, and from there through the HSM calls that start another hart or *)
(* stop or suspend the calling one.                                        *)
(*                                                                         *)
(* A step of a hart is an access to state that other harts use, together   *)
(* with the local work up to the next such access.  The sections under     *)
(* coldboot_lock are single steps (TicketLock).  Calls that are refused    *)
(* before they change anything are not modelled.                           *)
(***************************************************************************)
EXTENDS Integers, FiniteSets

CONSTANTS
  Harts,
  Capable,      \* harts whose misa supports the next mode
  DomainBoot,   \* boot harts of the domains that sbi_domain_finalize starts
  HsmDev,       \* hart_start/hart_stop of the HSM device (external)
  MayFail,      \* whether platform and device operations may return errors
  Tags,         \* values of the start and resume arguments
  BootTag,      \* the arguments the firmware was entered with
  NoCall

ASSUME HsmAssumption ==
  /\ Capable \in SUBSET Harts /\ Capable # {}
  /\ DomainBoot \in SUBSET Harts
  /\ HsmDev \in {"none", "secondary", "hotplug"}
  /\ MayFail \in BOOLEAN
  /\ BootTag \notin Tags

VARIABLES
  lottery,   \* coldboot_lottery
  done,      \* coldboot_done
  waiting,   \* coldboot_wait_hmask
  state,     \* hdata->state
  args,      \* scratch->next_arg1, next_addr, next_mode
  booted,    \* harts whose init_count is not 0
  msip,      \* harts with a pending software interrupt
  pc,        \* where each hart is
  call,      \* the sbi_hsm_hart_start a hart is in
  left,      \* domain boot harts sbi_domain_finalize has yet to start
  asked      \* the arguments each hart was last told to enter S-mode with

vars == <<lottery, done, waiting, state, args, booted, msip, pc, call, left, asked>>
bootVars == <<lottery, done, waiting, booted, left>>
startVars == <<args, call, asked>>

Fields == {"arg1", "addr", "mode"}
Whole(t) == [f \in Fields |-> t]

HsmStates == {"UNINIT", "STARTED", "STOPPED", "START_PENDING", "STOP_PENDING",
              "SUSPENDED", "RESUME_PENDING"}

ColdPCs == {"cold_hsm", "cold_ipi", "cold_domains", "cold_done", "cold_wake", "cold_count"}
WarmPCs == {"warm_mark", "warm_poll", "warm_wfi", "warm_unmark", "warm_state",
            "hsm_wait", "hsm_wfi", "warm_init", "warm_ipi", "warm_count"}
ResumePCs == {"resume_start", "resume_finish"}
SmodePCs == {"smode", "susp_cas", "susp_wfi", "susp_nonret", "susp_restore"}
StopPCs == {"exit_ipi", "hsm_exit", "dev_stop"}
StartPCs == {"start_args", "start_kick"}
PCs == ColdPCs \cup WarmPCs \cup ResumePCs \cup SmodePCs \cup StopPCs \cup StartPCs
         \cup {"off", "reset", "next_jump", "switch", "hung", "invalid"}

Calls == [target : Harts, tag : Tags, todo : SUBSET Fields,
          counted : BOOLEAN, from : {"smode", "cold_domains"}]

ASSUME NoCallAssumption == NoCall \notin Calls

Goto(h, l) == pc' = [pc EXCEPT ![h] = l]

(* atomic_cmpxchg of the hart's own state; a mismatch is reported and the  *)
(* hart hangs.                                                             *)
Cmpxchg(h, old, new, l) ==
  IF state[h] = old
  THEN state' = [state EXCEPT ![h] = new] /\ Goto(h, l)
  ELSE Goto(h, "invalid") /\ UNCHANGED state

(* Without a device that starts harts all of them come out of reset, else  *)
(* only one does.  Software interrupts may be pending from before.         *)
Init ==
  /\ lottery = FALSE
  /\ done = FALSE
  /\ waiting = {}
  /\ state = [h \in Harts |-> "UNINIT"]
  /\ args = [h \in Harts |-> Whole(BootTag)]
  /\ booted = {}
  /\ msip \in SUBSET Harts
  /\ \E b \in Capable :
       pc = [h \in Harts |-> IF HsmDev = "none" \/ h = b THEN "reset" ELSE "off"]
  /\ call = [h \in Harts |-> NoCall]
  /\ left = DomainBoot
  /\ asked = [h \in Harts |-> BootTag]
-----------------------------------------------------------------------------
(* Boot.                                                                   *)

(* Mutant: the lottery is read and never taken.                            *)
Lottery_NotTaken(h) ==
  /\ pc[h] = "reset"
  /\ Goto(h, IF lottery \/ h \notin Capable THEN "warm_mark" ELSE "cold_hsm")
  /\ UNCHANGED <<bootVars, startVars, state, msip>>

(* sbi_init: one capable hart wins the lottery and does the cold boot.     *)
Lottery(h) ==
  /\ pc[h] = "reset"
  /\ IF h \in Capable
     THEN lottery' = TRUE /\ Goto(h, IF lottery THEN "warm_mark" ELSE "cold_hsm")
     ELSE Goto(h, "warm_mark") /\ UNCHANGED lottery
  /\ UNCHANGED <<startVars, done, waiting, state, booted, msip, left>>

(* sbi_hsm_init of the cold boot hart: every other hart is stopped.        *)
ColdStates(h) == [g \in Harts |-> IF g = h THEN "START_PENDING" ELSE "STOPPED"]

(* init_coldboot up to sbi_hsm_init *)
ColdHsmInit(h) ==
  /\ pc[h] = "cold_hsm"
  /\ state' = ColdStates(h)
  /\ Goto(h, "cold_ipi")
  /\ UNCHANGED <<bootVars, startVars, msip>>

(* sbi_ipi_init clears the software interrupt of the calling hart.         *)
ColdIpiInit(h) ==
  /\ pc[h] = "cold_ipi"
  /\ msip' = msip \ {h}
  /\ Goto(h, "cold_domains")
  /\ UNCHANGED <<bootVars, startVars, state>>

(* sbi_domain_finalize: the boot hart of a domain is started, or, if it is *)
(* the calling one, gets the domain's arguments.                           *)
ColdOwnDomain(h, t) ==
  /\ pc[h] = "cold_domains"
  /\ h \in left
  /\ left' = left \ {h}
  /\ args' = [args EXCEPT ![h] = Whole(t)]
  /\ asked' = [asked EXCEPT ![h] = t]
  /\ UNCHANGED <<lottery, done, waiting, state, booted, msip, pc, call>>

ColdFinalized(h) ==
  /\ pc[h] = "cold_domains"
  /\ left = {}
  /\ Goto(h, "cold_done")
  /\ UNCHANGED <<bootVars, startVars, state, msip>>

(* wake_coldboot_harts: first coldboot_done is set, ...                    *)
ColdDone(h) ==
  /\ pc[h] = "cold_done"
  /\ done' = TRUE
  /\ Goto(h, "cold_wake")
  /\ UNCHANGED <<startVars, lottery, waiting, state, booted, msip, left>>

(* Mutant: the test of the hart itself is inverted.                        *)
ColdWake_OnlySelf(h) ==
  /\ pc[h] = "cold_wake"
  /\ msip' = msip \cup (waiting \cap {h})
  /\ Goto(h, "cold_count")
  /\ UNCHANGED <<bootVars, startVars, state>>

(* ... then, under the lock, the harts that wait get an interrupt.         *)
ColdWake(h) ==
  /\ pc[h] = "cold_wake"
  /\ msip' = msip \cup (waiting \ {h})
  /\ Goto(h, "cold_count")
  /\ UNCHANGED <<bootVars, startVars, state>>

(* Mutant: only the cold boot counts.                                      *)
CountInit_ColdOnly(h) ==
  /\ pc[h] \in {"cold_count", "warm_count"}
  /\ booted' = IF pc[h] = "cold_count" THEN booted \cup {h} ELSE booted
  /\ Goto(h, "next_jump")
  /\ UNCHANGED <<startVars, lottery, done, waiting, state, msip, left>>

(* (init_count)++, in init_coldboot and in init_warm_startup               *)
CountInit(h) ==
  /\ pc[h] \in {"cold_count", "warm_count"}
  /\ booted' = booted \cup {h}
  /\ Goto(h, "next_jump")
  /\ UNCHANGED <<startVars, lottery, done, waiting, state, msip, left>>

(* sbi_hsm_prepare_next_jump *)
NextJump(h) ==
  /\ pc[h] = "next_jump"
  /\ Cmpxchg(h, "START_PENDING", "STARTED", "switch")
  /\ UNCHANGED <<bootVars, startVars, msip>>

(* sbi_hart_switch_mode reads the arguments and leaves for S-mode, which   *)
(* the hart must have.                                                     *)
SwitchMode(h) ==
  /\ pc[h] = "switch"
  /\ Goto(h, IF h \in Capable THEN "smode" ELSE "hung")
  /\ UNCHANGED <<bootVars, startVars, state, msip>>

(* Mutant: the hart does not mark itself.                                  *)
WarmMark_Unmarked(h) ==
  /\ pc[h] = "warm_mark"
  /\ Goto(h, "warm_poll")
  /\ UNCHANGED <<bootVars, startVars, state, msip>>

(* wait_for_coldboot: the hart marks itself, ...                           *)
WarmMark(h) ==
  /\ pc[h] = "warm_mark"
  /\ waiting' = waiting \cup {h}
  /\ Goto(h, "warm_poll")
  /\ UNCHANGED <<startVars, lottery, done, state, booted, msip, left>>

(* ... looks at coldboot_done, ...                                         *)
WarmPoll(h) ==
  /\ pc[h] = "warm_poll"
  /\ Goto(h, IF done THEN "warm_unmark" ELSE "warm_wfi")
  /\ UNCHANGED <<bootVars, startVars, state, msip>>

(* ... sleeps until it has a software interrupt, which it does not clear,  *)
WarmWfi(h) ==
  /\ pc[h] = "warm_wfi"
  /\ h \in msip
  /\ Goto(h, "warm_poll")
  /\ UNCHANGED <<bootVars, startVars, state, msip>>

(* ... and unmarks itself.                                                 *)
WarmUnmark(h) ==
  /\ pc[h] = "warm_unmark"
  /\ waiting' = waiting \ {h}
  /\ Goto(h, "warm_state")
  /\ UNCHANGED <<startVars, lottery, done, state, booted, msip, left>>

(* Mutant: every state but STOPPED is taken for a resume.                  *)
WarmState_NotStopped(h) ==
  /\ pc[h] = "warm_state"
  /\ Goto(h, IF state[h] # "STOPPED" THEN "resume_start" ELSE "hsm_wait")
  /\ UNCHANGED <<bootVars, startVars, state, msip>>

(* init_warmboot tells a resume from a start by the hart's state.          *)
WarmState(h) ==
  /\ pc[h] = "warm_state"
  /\ Goto(h, IF state[h] = "SUSPENDED" THEN "resume_start" ELSE "hsm_wait")
  /\ UNCHANGED <<bootVars, startVars, state, msip>>

(* sbi_hsm_hart_wait: the loop around wfi, ...                             *)
HsmWait(h) ==
  /\ pc[h] = "hsm_wait"
  /\ Goto(h, IF state[h] = "START_PENDING" THEN "warm_init" ELSE "hsm_wfi")
  /\ UNCHANGED <<bootVars, startVars, state, msip>>

(* ... which returns when an interrupt is pending, ...                     *)
HsmWfi(h) ==
  /\ pc[h] = "hsm_wfi"
  /\ h \in msip
  /\ Goto(h, "hsm_wait")
  /\ UNCHANGED <<bootVars, startVars, state, msip>>

(* ... and may return for no reason at all.                                *)
SpuriousWfi(h) ==
  /\ pc[h] = "hsm_wfi"
  /\ h \notin msip
  /\ Goto(h, "hsm_wait")
  /\ UNCHANGED <<bootVars, startVars, state, msip>>

(* init_warm_startup up to sbi_platform_irqchip_init                       *)
WarmInit(h) ==
  /\ pc[h] = "warm_init"
  /\ Goto(h, "warm_ipi")
  /\ UNCHANGED <<bootVars, startVars, state, msip>>

(* sbi_ipi_init and the rest of init_warm_startup                          *)
WarmIpiInit(h) ==
  /\ pc[h] = "warm_ipi"
  /\ msip' = msip \ {h}
  /\ Goto(h, "warm_count")
  /\ UNCHANGED <<bootVars, startVars, state>>

(* init_warm_resume: sbi_hsm_hart_resume_start, the re-initialisation of   *)
(* the hart, and sbi_hsm_hart_resume_finish                                *)
ResumeStart(h) ==
  /\ pc[h] = "resume_start"
  /\ Cmpxchg(h, "SUSPENDED", "RESUME_PENDING", "resume_finish")
  /\ UNCHANGED <<bootVars, startVars, msip>>

ResumeFinish(h) ==
  /\ pc[h] = "resume_finish"
  /\ Cmpxchg(h, "RESUME_PENDING", "STARTED", "switch")
  /\ UNCHANGED <<bootVars, startVars, msip>>

(* A failing initialisation step, or a hart_stop of the device that comes  *)
(* back, ends in sbi_hart_hang.                                            *)
InitPCs == {"cold_hsm", "cold_ipi", "cold_domains", "warm_init", "warm_ipi", "warm_count",
            "resume_finish", "dev_stop"}

InitFails(h) ==
  /\ MayFail
  /\ pc[h] \in InitPCs
  /\ Goto(h, "hung")
  /\ UNCHANGED <<bootVars, startVars, state, msip>>
-----------------------------------------------------------------------------
(* The HSM calls.                                                          *)

(* Mutant: only STARTED is refused.                                        *)
Claim_NotStarted(h, g, t, from) ==
  /\ state[g] # "STARTED"
  /\ state' = [state EXCEPT ![g] = "START_PENDING"]
  /\ asked' = [asked EXCEPT ![g] = t]
  /\ call' = [call EXCEPT ![h] = [target |-> g, tag |-> t, counted |-> g \in booted,
                                  todo |-> Fields, from |-> from]]
  /\ Goto(h, "start_args")
  /\ UNCHANGED args

(* sbi_hsm_hart_start: hart g is moved from STOPPED to START_PENDING, and  *)
(* sbi_init_count is read; the arguments are stored after that.            *)
Claim(h, g, t, from) ==
  /\ state[g] = "STOPPED"
  /\ state' = [state EXCEPT ![g] = "START_PENDING"]
  /\ asked' = [asked EXCEPT ![g] = t]
  /\ call' = [call EXCEPT ![h] = [target |-> g, tag |-> t, counted |-> g \in booted,
                                  todo |-> Fields, from |-> from]]
  /\ Goto(h, "start_args")
  /\ UNCHANGED args

(* SBI_EXT_HSM_HART_START; any other state of g is an error return.        *)
HartStart(h, g, t) ==
  /\ pc[h] = "smode"
  /\ Claim(h, g, t, "smode")
  /\ UNCHANGED <<bootVars, msip>>

(* sbi_domain_finalize: the boot hart of another domain is started.        *)
DomainStart(h, g, t) ==
  /\ pc[h] = "cold_domains"
  /\ g \in left \ {h}
  /\ left' = left \ {g}
  /\ Claim(h, g, t, "cold_domains")
  /\ UNCHANGED <<lottery, done, waiting, booted, msip>>

(* Mutant: the hart is woken before the last of the arguments is stored.   *)
StartStore_KickEarly(h, f) ==
  /\ pc[h] = "start_args"
  /\ f \in call[h].todo
  /\ args' = [args EXCEPT ![call[h].target][f] = call[h].tag]
  /\ call' = [call EXCEPT ![h].todo = @ \ {f}]
  /\ Goto(h, IF \E g \in Fields : call[h].todo \subseteq {f, g} THEN "start_kick" ELSE "start_args")
  /\ UNCHANGED <<bootVars, state, msip, asked>>

(* The stores of the arguments, plain ones, in any order.                  *)
StartStore(h, f) ==
  /\ pc[h] = "start_args"
  /\ f \in call[h].todo
  /\ args' = [args EXCEPT ![call[h].target][f] = call[h].tag]
  /\ call' = [call EXCEPT ![h].todo = @ \ {f}]
  /\ Goto(h, IF call[h].todo = {f} THEN "start_kick" ELSE "start_args")
  /\ UNCHANGED <<bootVars, state, msip, asked>>

(* Mutant: a device without hart_stop is not used.                         *)
ByDevice_Hotplug(c) == HsmDev = "hotplug"

(* hsm_device_has_hart_hotplug, hsm_device_has_hart_secondary_boot         *)
ByDevice(c) == HsmDev = "hotplug" \/ (HsmDev = "secondary" /\ ~c.counted)

(* Mutant: the interrupt goes to the calling hart.                         *)
KickByIpi_Self(h) ==
  /\ pc[h] = "start_kick"
  /\ ~ByDevice(call[h])
  /\ msip' = msip \cup {h}
  /\ Goto(h, call[h].from)
  /\ call' = [call EXCEPT ![h] = NoCall]
  /\ UNCHANGED <<bootVars, state, args, asked>>

(* sbi_hsm_hart_start ends with an interrupt to the hart, ...              *)
KickByIpi(h) ==
  /\ pc[h] = "start_kick"
  /\ ~ByDevice(call[h])
  /\ msip' = msip \cup {call[h].target}
  /\ Goto(h, call[h].from)
  /\ call' = [call EXCEPT ![h] = NoCall]
  /\ UNCHANGED <<bootVars, state, args, asked>>

(* ... or with the device, which powers the hart up ...                    *)
KickByDevice(h) ==
  /\ pc[h] = "start_kick"
  /\ ByDevice(call[h])
  /\ pc[call[h].target] = "off"
  /\ pc' = [pc EXCEPT ![h] = call[h].from, ![call[h].target] = "reset"]
  /\ call' = [call EXCEPT ![h] = NoCall]
  /\ UNCHANGED <<bootVars, state, msip, args, asked>>

(* ... or returns an error, as it does for a hart that is up: the caller   *)
(* gets the error and the hart's state stays START_PENDING.                *)
KickFails(h) ==
  /\ pc[h] = "start_kick"
  /\ ByDevice(call[h])
  /\ MayFail \/ pc[call[h].target] # "off"
  /\ Goto(h, IF call[h].from = "smode" THEN "smode" ELSE "hung")
  /\ call' = [call EXCEPT ![h] = NoCall]
  /\ UNCHANGED <<bootVars, state, msip, args, asked>>

(* sbi_hsm_hart_stop, from SBI_EXT_HSM_HART_STOP or a halt interrupt       *)
HartStop(h) ==
  /\ pc[h] = "smode"
  /\ state[h] = "STARTED"
  /\ state' = [state EXCEPT ![h] = "STOP_PENDING"]
  /\ Goto(h, "exit_ipi")
  /\ UNCHANGED <<bootVars, startVars, msip>>

(* sbi_exit: sbi_ipi_exit takes the interrupts that are pending, ...       *)
ExitIpi(h) ==
  /\ pc[h] = "exit_ipi"
  /\ msip' = msip \ {h}
  /\ Goto(h, "hsm_exit")
  /\ UNCHANGED <<bootVars, startVars, state>>

(* Mutant: the device is not used to stop the hart.                        *)
HsmExit_Warmboot(h) ==
  /\ pc[h] = "hsm_exit"
  /\ Cmpxchg(h, "STOP_PENDING", "STOPPED", "reset")
  /\ UNCHANGED <<bootVars, startVars, msip>>

(* ... and sbi_hsm_exit stops the hart: by the device if it can, else by   *)
(* going back to warm boot.                                                *)
HsmExit(h) ==
  /\ pc[h] = "hsm_exit"
  /\ Cmpxchg(h, "STOP_PENDING", "STOPPED", IF HsmDev = "hotplug" THEN "dev_stop" ELSE "reset")
  /\ UNCHANGED <<bootVars, startVars, msip>>

DevStop(h) ==
  /\ pc[h] = "dev_stop"
  /\ Goto(h, "off")
  /\ UNCHANGED <<bootVars, startVars, state, msip>>

(* sbi_hsm_hart_suspend: the resume arguments are stored, ...              *)
Suspend(h, t) ==
  /\ pc[h] = "smode"
  /\ args' = [args EXCEPT ![h] = Whole(t)]
  /\ asked' = [asked EXCEPT ![h] = t]
  /\ Goto(h, "susp_cas")
  /\ UNCHANGED <<bootVars, call, state, msip>>

(* ... the state is set, and the hart suspends: retentively or not, or not *)
(* at all when the platform does not know the suspend type.                *)
SuspendCas(h) ==
  /\ pc[h] = "susp_cas"
  /\ IF state[h] = "STARTED"
     THEN /\ state' = [state EXCEPT ![h] = "SUSPENDED"]
          /\ \E l \in {"susp_wfi", "susp_nonret", "susp_restore"} : Goto(h, l)
     ELSE Goto(h, "susp_restore") /\ UNCHANGED state
  /\ UNCHANGED <<bootVars, startVars, msip>>

(* Some interrupt ends the suspension; a non-retentive one resumes through *)
(* warm boot.                                                              *)
SuspendWake(h) ==
  /\ pc[h] \in {"susp_wfi", "susp_nonret"}
  /\ Goto(h, IF pc[h] = "susp_wfi" THEN "susp_restore" ELSE "reset")
  /\ UNCHANGED <<bootVars, startVars, state, msip>>

SuspendRestore(h) ==
  /\ pc[h] = "susp_restore"
  /\ Cmpxchg(h, "SUSPENDED", "STARTED", "smode")
  /\ UNCHANGED <<bootVars, startVars, msip>>

(* A software interrupt in S-mode: sbi_ipi_process clears it.              *)
TakeIpi(h) ==
  /\ pc[h] = "smode"
  /\ h \in msip
  /\ msip' = msip \ {h}
  /\ UNCHANGED <<bootVars, startVars, state, pc>>
-----------------------------------------------------------------------------
(* What a hart does of its own accord in M-mode ...                        *)
Run(h) ==
  \/ Lottery(h) \/ ColdHsmInit(h) \/ ColdIpiInit(h) \/ (\E t \in Tags : ColdOwnDomain(h, t))
  \/ (\E g \in Harts, t \in Tags : DomainStart(h, g, t))
  \/ ColdFinalized(h) \/ ColdDone(h) \/ ColdWake(h)
  \/ CountInit(h) \/ NextJump(h) \/ SwitchMode(h)
  \/ WarmMark(h) \/ WarmPoll(h) \/ WarmWfi(h) \/ WarmUnmark(h) \/ WarmState(h)
  \/ HsmWait(h) \/ HsmWfi(h) \/ WarmInit(h) \/ WarmIpiInit(h)
  \/ ResumeStart(h) \/ ResumeFinish(h) \/ InitFails(h)
  \/ (\E f \in Fields : StartStore(h, f)) \/ KickByIpi(h) \/ KickByDevice(h) \/ KickFails(h)
  \/ ExitIpi(h) \/ HsmExit(h) \/ DevStop(h)
  \/ SuspendCas(h) \/ SuspendRestore(h)

(* ... and what the supervisor and the outside world choose.               *)
Choose(h) ==
  \/ SpuriousWfi(h) \/ SuspendWake(h) \/ TakeIpi(h)
  \/ \E t \in Tags : Suspend(h, t) \/ (\E g \in Harts : HartStart(h, g, t))
  \/ HartStop(h)

Next == \E h \in Harts : Run(h) \/ Choose(h)

Spec == Init /\ [][Next]_vars

(* A hart in M-mode keeps executing: nothing there waits except for the    *)
(* interrupts that the guards of WarmWfi and HsmWfi name.                  *)
FairSpec == Spec /\ \A h \in Harts : WF_vars(Run(h))
-----------------------------------------------------------------------------
TypeOK ==
  /\ lottery \in BOOLEAN /\ done \in BOOLEAN
  /\ waiting \in SUBSET Harts
  /\ state \in [Harts -> HsmStates]
  /\ args \in [Harts -> [Fields -> Tags \cup {BootTag}]]
  /\ booted \in SUBSET Harts
  /\ msip \in SUBSET Harts
  /\ pc \in [Harts -> PCs]
  /\ call \in [Harts -> Calls \cup {NoCall}]
  /\ left \in SUBSET Harts
  /\ asked \in [Harts -> Tags \cup {BootTag}]

(* No atomic_cmpxchg of a hart's own state ever finds another value than   *)
(* the one it expects: the "hart is in invalid state" errors of sbi_hsm.c  *)
(* cannot happen, whatever the other harts start at the same time.         *)
NoInvalidState == \A h \in Harts : pc[h] # "invalid"

(* A hart that sleeps in wait_for_coldboot after coldboot_done was set has *)
(* its interrupt, or the cold hart is still to send it.                    *)
ColdWakeNotLost ==
  \A h \in Harts :
    pc[h] = "warm_wfi" /\ done /\ h \notin msip =>
      h \in waiting /\ \E c \in Harts : pc[c] = "cold_wake"

(* A hart that sleeps in sbi_hsm_hart_wait and is wanted has its interrupt *)
(* or some caller of sbi_hsm_hart_start is still to send it.               *)
StartNotLost ==
  \A h \in Harts :
    pc[h] = "hsm_wfi" /\ state[h] = "START_PENDING" /\ h \notin msip =>
      \E g \in Harts : call[g] # NoCall /\ call[g].target = h

(* A hart enters S-mode with the arguments of the call that started or     *)
(* suspended it, all of them.  The code publishes START_PENDING before it  *)
(* stores them, so what keeps the hart from leaving with old ones can only *)
(* be that it is powered up after the stores, by a device that starts and  *)
(* stops harts; the hart that waits awake in sbi_hsm_hart_wait may do so.  *)
EntersAsAsked ==
  [][\A h \in Harts :
       pc[h] = "switch" /\ pc'[h] = "smode" => args[h] = Whole(asked[h])]_vars

(* hart_start of a device that only boots harts is never called for a hart *)
(* that is up: the init_count that was read is not out of date.            *)
DeviceStartsOff ==
  \A h \in Harts :
    pc[h] = "start_kick" /\ HsmDev = "secondary" /\ ByDevice(call[h]) =>
      pc[call[h].target] = "off"

(* A powered-off hart is START_PENDING only while somebody is starting it: *)
(* "if a hart is already transition to start or stop, another start call   *)
(* is considered as invalid request".                                      *)
PendingHartIsComing ==
  \A h \in Harts :
    pc[h] = "off" /\ state[h] = "START_PENDING" =>
      \E g \in Harts : call[g] # NoCall /\ call[g].target = h

(* A hart that was claimed by sbi_hsm_hart_start gets to run.              *)
Started == \A h \in Harts : state[h] = "START_PENDING" ~> state[h] = "STARTED"

(* No hart stays in wait_for_coldboot.                                     *)
ColdWaitEnds == \A h \in Harts : pc[h] = "warm_mark" ~> pc[h] = "warm_state"
-----------------------------------------------------------------------------
(* The inductive invariant.                                                *)

(* A hart in sbi_hsm_hart_start, for the supervisor or for a domain.       *)
Calling(h, from) == pc[h] \in StartPCs /\ call[h].from = from

ColdHart(h) == pc[h] \in ColdPCs \/ Calling(h, "cold_domains")

(* Where a hart may be before the cold boot is done.                       *)
EarlyPCs == {"off", "reset", "warm_mark", "warm_poll", "warm_wfi"}

(* A call record exists exactly while the call runs.                       *)
CallInv == \A h \in Harts : pc[h] \in StartPCs <=> call[h] # NoCall

(* Where a hart is determines its HSM state, up to a start by another.     *)
HartState(h) ==
  /\ pc[h] # "invalid"
  /\ pc[h] \in (ColdPCs \ {"cold_hsm"}) => state[h] = "START_PENDING"
  /\ pc[h] \in {"warm_init", "warm_ipi", "warm_count", "next_jump"} => state[h] = "START_PENDING"
  /\ Calling(h, "cold_domains") => state[h] = "START_PENDING"
  /\ pc[h] \in {"switch", "smode", "susp_cas"} => state[h] = "STARTED"
  /\ Calling(h, "smode") => state[h] = "STARTED"
  /\ pc[h] \in {"resume_start", "susp_wfi", "susp_nonret", "susp_restore"} => state[h] = "SUSPENDED"
  /\ pc[h] = "resume_finish" => state[h] = "RESUME_PENDING"
  /\ pc[h] \in {"exit_ipi", "hsm_exit"} => state[h] = "STOP_PENDING"
  /\ pc[h] \in {"hsm_wait", "hsm_wfi", "dev_stop"} => state[h] \in {"STOPPED", "START_PENDING"}
  /\ pc[h] \in EarlyPCs \cup {"warm_unmark", "warm_state"} =>
       state[h] \in {"UNINIT", "STOPPED", "START_PENDING", "SUSPENDED"}

PcState == \A h \in Harts : HartState(h)

(* There is one cold boot; until it has initialised the HSM states, and    *)
(* then until it is done, the other harts are kept out.                    *)
BootInv ==
  /\ \A g, h \in Harts : ColdHart(g) /\ ColdHart(h) => g = h
  /\ ~lottery => ~done /\ \A h \in Harts : state[h] = "UNINIT" /\ pc[h] \in EarlyPCs
  /\ \A h \in Harts : pc[h] = "cold_hsm" =>
       \A g \in Harts : state[g] = "UNINIT" /\ (g = h \/ pc[g] \in EarlyPCs)
  /\ \A h \in Harts : ColdHart(h) /\ pc[h] # "cold_hsm" => \A g \in Harts : state[g] # "UNINIT"
  /\ done => \A h \in Harts : state[h] # "UNINIT"
  /\ \A h \in Harts : ColdHart(h) => (done <=> pc[h] \in {"cold_wake", "cold_count"})
  /\ ~done => \A h \in Harts : ColdHart(h) \/ pc[h] \in EarlyPCs \cup {"hung"}

(* Waiting harts are marked, and no wake-up is lost.                       *)
WakeInv ==
  /\ \A h \in Harts : pc[h] \in {"warm_poll", "warm_wfi"} => h \in waiting
  /\ ColdWakeNotLost

HsmInv == TypeOK /\ CallInv /\ PcState /\ BootInv /\ WakeInv
-----------------------------------------------------------------------------
(* The harts that the device starts, and what is needed of them beyond     *)
(* HsmInv to see that no start is lost.                                    *)
Offline(h) == HsmDev = "hotplug" \/ (HsmDev = "secondary" /\ h \notin booted)

(* Such a hart comes up only to be started or to resume, and so never      *)
(* sleeps in sbi_hsm_hart_wait.                                            *)
ComesUpWanted ==
  /\ HsmDev # "none" /\ ~lottery =>
       \A g, h \in Harts : pc[g] # "off" /\ pc[h] # "off" => g = h
  /\ \A h \in Harts :
       /\ Offline(h) /\ lottery
            /\ pc[h] \in (EarlyPCs \ {"off"}) \cup {"warm_unmark", "warm_state", "hsm_wait"}
            => state[h] \in {"START_PENDING", "SUSPENDED"}
       /\ pc[h] = "hsm_wfi" => ~Offline(h)
       /\ pc[h] = "off" => Offline(h)
       /\ pc[h] = "dev_stop" => HsmDev = "hotplug"
       /\ pc[h] = "hung" /\ HsmDev # "hotplug" => state[h] # "STOPPED"

(* Every hart that got as far as S-mode has counted itself.                *)
CountedInv ==
  \A h \in Harts :
    pc[h] = "next_jump" \/ state[h] \in {"STARTED", "SUSPENDED", "RESUME_PENDING", "STOP_PENDING"} =>
      h \in booted

(* The count that a start was based on still stands, the device finds the  *)
(* hart off or on its way there, and no other call is starting that hart.  *)
DeviceCallInv ==
  \A h \in Harts : call[h] # NoCall =>
    /\ call[h].counted => call[h].target \in booted
    /\ ByDevice(call[h]) =>
         /\ state[call[h].target] = "START_PENDING"
         /\ \/ pc[call[h].target] = "off"
            \/ HsmDev = "hotplug" /\ pc[call[h].target] \in {"dev_stop", "hung"}
         /\ \A g \in Harts : call[g] # NoCall /\ call[g].target = call[h].target => g = h

DeviceInv == ComesUpWanted /\ CountedInv /\ DeviceCallInv

(* With a device that starts every hart, an argument that is not the one   *)
(* asked for is still to be stored, by the call that is starting the hart. *)
ArgsInv ==
  HsmDev = "hotplug" =>
    \A h \in Harts :
      /\ \A f \in Fields : args[h][f] # asked[h] =>
           \E g \in Harts : call[g] # NoCall /\ call[g].target = h /\ f \in call[g].todo
      /\ call[h] # NoCall =>
           /\ call[h].tag = asked[call[h].target]
           /\ pc[h] = "start_kick" => call[h].todo = {}

StartInv == DeviceInv /\ StartNotLost
=============================================================================
