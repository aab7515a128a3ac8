--------------------------------- MODULE SbiTrap ---------------------------------
(***************************************************************************)
(* The firmware at run time on one hart: sbi_trap_handler and what it      *)
(* calls.  Traps are answered by the firmware (ecalls for the timer and    *)
(* the PMU, emulated instructions, misaligned accesses), or redirected to  *)
(* the supervisor or the guest (lib/sbi/sbi_trap.c).  SbiTimer and SbiPmu  *)
(* are the components behind the handlers.                                 *)
(*                                                                         *)
(* A trap is handled with interrupts off, in one step, but for reads of    *)
(* the time.  Outside the firmware are a supervisor or hypervisor (HS),    *)
(* its guest (VS), and their user modes.                                   *)
(***************************************************************************)
EXTENDS SbiTimer, SbiPmu

CONSTANT Setups   \* bound: <<what S-mode uses of the firmware, wide, feat>> of a behaviour

(* Codes of the firmware events counted here.                              *)
MisalignedLoad == 0
MisalignedStore == 1
AccessLoad == 2
AccessStore == 3
IllegalInsn == 4
SetTimerCode == 5

ASSUME TrapAssumption ==
  /\ Setups \subseteq {"timer", "hw", "fw", "trap"} \X BOOLEAN \X Features
  /\ FwMax > SetTimerCode

VARIABLES
  work,       \* what S-mode does
  up,         \* the hart is started
  mode,       \* "S" or "U"; with virt, the mode outside the firmware
  virt,
  s,          \* sstatus.SIE, SPIE, SPP and sepc
  vs,         \* vsstatus.SIE, SPIE, SPP and vsepc
  h,          \* hstatus.SPV and SPVP
  hsFrame,    \* history: what the trap that HS handles interrupted
  vsFrame     \* history: what the trap that VS handles interrupted

ctxVars == <<mode, virt, s, vs, h, hsFrame, vsFrame>>
vars == <<timerVars, pmuVars, ctxVars, work, up>>

Status == [ie : BOOLEAN, pie : BOOLEAN, pp : {"S", "U"}, epc : {"none", "insn", "fw"}]
Frame == [mode : {"S", "U"}, virt : BOOLEAN, ie : BOOLEAN, spv : BOOLEAN]
Clear == [ie |-> FALSE, pie |-> FALSE, pp |-> "U", epc |-> "none"]

Init ==
  /\ TimerInit /\ PmuInit
  /\ \E w \in Setups : work = w[1] /\ wide = w[2] /\ feat = w[3]
  /\ up = TRUE
  /\ mode = "S" /\ virt = FALSE
  /\ s = Clear /\ vs = Clear
  /\ h = [spv |-> FALSE, spvp |-> "U"]
  /\ hsFrame = None /\ vsFrame = None

(* The hart runs outside the firmware, in any mode or as S-mode of HS.     *)
Running == up /\ rd = "no" /\ PmuReady
InHs == Running /\ mode = "S" /\ ~virt
-----------------------------------------------------------------------------
(* sbi_trap_redirect: page faults of a guest go to the guest, all else     *)
(* goes to HS.                                                             *)
PageFaults == {"fetch_page", "load_page", "store_page"}
ToVs(trap) == virt /\ trap.cause \in PageFaults

(* Mutant: SIE is cleared before it is saved.                              *)
Push_ClearFirst(st, trap) == [ie |-> FALSE, pie |-> FALSE, pp |-> mode, epc |-> trap.epc]
Push(st, trap) == [ie |-> FALSE, pie |-> st.ie, pp |-> mode, epc |-> trap.epc]

Redirect(trap) ==
  /\ mode' = "S"
  /\ virt' = ToVs(trap)
  /\ h' = IF virt /\ ~ToVs(trap) THEN [spv |-> TRUE, spvp |-> mode] ELSE h
  /\ IF ToVs(trap)
     THEN /\ vs' = Push(vs, trap)
          /\ vsFrame' = [mode |-> mode, virt |-> TRUE, ie |-> vs.ie, spv |-> h.spv]
          /\ UNCHANGED <<s, hsFrame>>
     ELSE /\ s' = Push(s, trap)
          /\ hsFrame' = [mode |-> mode, virt |-> virt, ie |-> s.ie, spv |-> h.spv]
          /\ UNCHANGED <<vs, vsFrame>>

(* The trap of the interrupted instruction.                                *)
Trap(cause) == [cause |-> cause, epc |-> "insn"]

(* An access of the firmware on behalf of S-mode (sbi_load_..., sbi_get_   *)
(* insn) that traps: __sbi_expected_trap leaves the firmware's own epc,    *)
(* which every caller replaces before it redirects the trap.               *)
Unpriv(causes) == {[cause |-> c, epc |-> "fw"] : c \in causes}
Mine(uptrap) == [uptrap EXCEPT !.epc = "insn"]
LoadTraps == Unpriv({"load_page", "load_access"})
StoreTraps == Unpriv({"store_page", "store_access"})
FetchTraps == Unpriv({"fetch_page", "fetch_access"})
-----------------------------------------------------------------------------
(* sbi_trap_handler, interrupts: the machine timer.                        *)
TimerInterrupt ==
  /\ Running
  /\ Mtip
  /\ TimerProcess
  /\ UNCHANGED <<pmuVars, ctxVars, work, up>>

(* Ecalls: sbi_ecall_handler with the time, the legacy and the PMU         *)
(* extension.  Only S-mode of HS gets there.                               *)
SetTimer(d) ==
  /\ InHs /\ work \in {"timer", "fw"}
  /\ work = "fw" => d = Never
  /\ TimerEventStart(d)
  /\ IncrFw(SetTimerCode)
  /\ UNCHANGED <<ctxVars, work, up>>

(* sbi_load_hart_mask_unpriv of the legacy extension fails: SBI_ETRAP      *)
EcallTrap(uptrap) ==
  /\ InHs /\ work = "trap"
  /\ Redirect(Mine(uptrap))
  /\ UNCHANGED <<timerVars, pmuVars, work, up>>

PmuEvents == {e \in HwEvents : work = "hw"} \cup {<<e, 0>> : e \in {f \in FwEvents : work = "fw"}}

PmuCall ==
  /\ InHs /\ work \in {"hw", "fw"}
  /\ \E r \in Requests :
       \/ \E e \in PmuEvents, clear, start \in BOOLEAN :
            \/ CfgMatch(r[1], r[2], e[1], e[2], clear, start)
            \/ CfgSkip(r[1], r[2], e[1], clear, start)
       \/ \E ival \in {None, 0, 1} : CtrStart(r[1], r[2], ival)
       \/ \E reset \in BOOLEAN : CtrStop(r[1], r[2], reset)
  /\ UNCHANGED <<timerVars, ctxVars, work, up>>

(* The same calls of another hart, as far as they reach this one's row.    *)
OtherHart(code) ==
  /\ work = "fw" /\ PmuReady
  /\ Intrude(code)
  /\ UNCHANGED <<timerVars, ctxVars, work, up>>

(* sbi_illegal_insn_handler: a read of the TIME CSR, a write of            *)
(* htimedelta, or nothing that the firmware emulates.                      *)
EmulateTime ==
  /\ Running /\ work = "timer"
  /\ ReadBegin
  /\ IncrFw(IllegalInsn)
  /\ UNCHANGED <<ctxVars, work, up>>

TimeRead == Read /\ UNCHANGED <<pmuVars, ctxVars, work, up>>

EmulateDelta(d) ==
  /\ InHs /\ work = "timer"
  /\ TimerSetDelta(d)
  /\ IncrFw(IllegalInsn)
  /\ UNCHANGED <<ctxVars, work, up>>

IllegalInsnTrap ==
  /\ Running /\ work = "trap"
  /\ IncrFw(IllegalInsn)
  /\ \/ Redirect(Trap("illegal"))
     \/ \E uptrap \in FetchTraps : Redirect(Mine(uptrap))
  /\ UNCHANGED <<timerVars, work, up>>

(* sbi_misaligned_load_handler, sbi_misaligned_store_handler: the access   *)
(* is made in bytes, or not emulated, or the fetch of the instruction or a *)
(* byte traps.                                                             *)
Misaligned ==
  /\ Running /\ work = "fw"
  /\ \E code \in {MisalignedLoad, MisalignedStore} : IncrFw(code)
  /\ UNCHANGED <<timerVars, ctxVars, work, up>>

MisalignedTrap(code, traps) ==
  /\ Running /\ work = "trap"
  /\ IncrFw(code)
  /\ \/ Redirect(Trap("misaligned"))
     \/ \E uptrap \in FetchTraps \cup traps : Redirect(Mine(uptrap))
  /\ UNCHANGED <<timerVars, work, up>>

(* The other exceptions are redirected; access faults are counted.         *)
AccessFault(code) ==
  /\ Running /\ work = "trap"
  /\ IncrFw(code)
  /\ Redirect(Trap("access"))
  /\ UNCHANGED <<timerVars, work, up>>

OtherTrap(cause) ==
  /\ Running /\ work = "trap"
  /\ Redirect(Trap(cause))
  /\ UNCHANGED <<timerVars, pmuVars, work, up>>

(* The cold boot, of which the rest is in Init.                            *)
ColdBoot == PmuAdd /\ UNCHANGED <<timerVars, ctxVars, work, up>>

(* sbi_exit of a hart that stops, and its init when it is started again.   *)
HartStop ==
  /\ InHs
  /\ up' = FALSE
  /\ PmuExit /\ TimerExit
  /\ UNCHANGED <<ctxVars, work>>

HartStart ==
  /\ ~up
  /\ up' = TRUE
  /\ PmuWarmInit /\ TimerWarmInit
  /\ s' = Clear
  /\ hsFrame' = None
  /\ UNCHANGED <<mode, virt, vs, h, vsFrame, work>>
-----------------------------------------------------------------------------
(* Outside the firmware: sret in HS and in VS, ...                         *)
HsSret ==
  /\ InHs
  /\ hsFrame # None
  /\ mode' = s.pp /\ virt' = h.spv
  /\ s' = [ie |-> s.pie, pie |-> TRUE, pp |-> "U", epc |-> "none"]
  /\ h' = [h EXCEPT !.spv = FALSE]
  /\ hsFrame' = None
  /\ UNCHANGED <<timerVars, pmuVars, vs, vsFrame, work, up>>

VsSret ==
  /\ Running /\ mode = "S" /\ virt
  /\ vsFrame # None
  /\ mode' = vs.pp
  /\ vs' = [ie |-> vs.pie, pie |-> TRUE, pp |-> "U", epc |-> "none"]
  /\ vsFrame' = None
  /\ UNCHANGED <<timerVars, pmuVars, virt, s, h, hsFrame, work, up>>

(* ... HS gets ready for a guest, enters its user mode or a guest, and VS  *)
(* its user mode; both may leave a trap behind, and switch interrupts.     *)
HsPrepare ==
  /\ InHs /\ work = "trap"
  /\ h' = [h EXCEPT !.spv = TRUE]
  /\ hsFrame = None
  /\ UNCHANGED <<timerVars, pmuVars, mode, virt, s, vs, hsFrame, vsFrame, work, up>>

HsEnter(m, v, ie) ==
  /\ InHs /\ work = "trap"
  /\ v \/ m = "U"
  /\ mode' = m /\ virt' = v
  /\ s' = [Clear EXCEPT !.ie = ie, !.pie = TRUE]
  /\ h' = [h EXCEPT !.spv = FALSE]
  /\ hsFrame' = None
  /\ UNCHANGED <<timerVars, pmuVars, vs, vsFrame, work, up>>

VsEnter(ie) ==
  /\ Running /\ work = "trap" /\ mode = "S" /\ virt
  /\ mode' = "U"
  /\ vs' = [Clear EXCEPT !.ie = ie, !.pie = TRUE]
  /\ vsFrame' = None
  /\ UNCHANGED <<timerVars, pmuVars, virt, s, h, hsFrame, work, up>>

HsInterrupts(ie) ==
  /\ InHs /\ work = "trap" /\ hsFrame = None
  /\ s' = [s EXCEPT !.ie = ie]
  /\ UNCHANGED <<timerVars, pmuVars, mode, virt, vs, h, hsFrame, vsFrame, work, up>>

TimePasses == work = "timer" /\ Tick /\ UNCHANGED <<pmuVars, ctxVars, work, up>>
-----------------------------------------------------------------------------
Handler ==
  \/ TimerInterrupt
  \/ \E d \in Deadlines : SetTimer(d)
  \/ \E t \in LoadTraps : EcallTrap(t)
  \/ PmuCall
  \/ EmulateTime \/ TimeRead
  \/ \E d \in Deltas : EmulateDelta(d)
  \/ IllegalInsnTrap \/ Misaligned
  \/ MisalignedTrap(MisalignedLoad, LoadTraps) \/ MisalignedTrap(MisalignedStore, StoreTraps)
  \/ \E code \in {AccessLoad, AccessStore} : AccessFault(code)
  \/ \E cause \in PageFaults \cup {"guest_page", "vs_ecall"} : OtherTrap(cause)
  \/ ColdBoot \/ HartStop \/ HartStart

Outside ==
  \/ HsSret \/ VsSret \/ HsPrepare
  \/ \E m \in {"S", "U"}, v, ie \in BOOLEAN : HsEnter(m, v, ie)
  \/ \E ie \in BOOLEAN : VsEnter(ie) \/ HsInterrupts(ie)
  \/ \E code \in Intruded : OtherHart(code)
  \/ TimePasses

Next == Handler \/ Outside

Spec == Init /\ [][Next]_vars

(* The time goes on, the firmware keeps running, and an interrupt that is  *)
(* pending again and again outside M-mode is taken.                        *)
FairSpec == Spec /\ WF_vars(TimePasses) /\ WF_vars(TimeRead) /\ SF_vars(TimerInterrupt)
-----------------------------------------------------------------------------
TypeOK ==
  /\ TimerTypeOK /\ PmuTypeOK
  /\ up \in BOOLEAN /\ virt \in BOOLEAN /\ mode \in {"S", "U"}
  /\ s \in Status /\ vs \in Status
  /\ h \in [spv : BOOLEAN, spvp : {"S", "U"}]
  /\ hsFrame \in Frame \cup {None} /\ vsFrame \in Frame \cup {None}

(* A redirected trap looks like one that the hardware delegated: when its  *)
(* handler returns with sret, the hart is back in the mode, the world and  *)
(* with the interrupt enable it had, at the instruction that trapped; also *)
(* if the host handled traps of the guest while the guest handled one.     *)
(* Exempt are traps of HS itself while hstatus.SPV is set, which           *)
(* sbi_trap_redirect does not clear.                                       *)
RedirectRoundTrip ==
  [][/\ HsSret /\ (hsFrame.spv => hsFrame.virt) =>
          /\ mode' = hsFrame.mode /\ virt' = hsFrame.virt /\ s'.ie = hsFrame.ie /\ s.epc = "insn"
          /\ hsFrame.virt => h.spvp = hsFrame.mode
     /\ VsSret => mode' = vsFrame.mode /\ virt' /\ vs'.ie = vsFrame.ie /\ vs.epc = "insn"]_vars
-----------------------------------------------------------------------------
(* An inductive invariant for the properties of the firmware at run time.  *)

(* What sret restores is what the trap interrupted.                        *)
FrameInv ==
  /\ hsFrame # None =>
       /\ s.pp = hsFrame.mode /\ s.pie = hsFrame.ie /\ s.epc = "insn"
       /\ IF hsFrame.virt THEN h.spv /\ h.spvp = hsFrame.mode ELSE h.spv = hsFrame.spv
  /\ vsFrame # None => vs.pp = vsFrame.mode /\ vs.pie = vsFrame.ie /\ vs.epc = "insn"

TrapInv == TypeOK /\ TimerInv /\ PmuInv(up) /\ FrameInv /\ (~up => ~mtie)
=============================================================================
