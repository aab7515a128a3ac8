----------------------------- MODULE SbiTrapProofs -----------------------------
(* Proofs about the firmware at run time: the timer, the PMU and the traps *)
(* that are redirected.                                                    *)
EXTENDS SbiTrap, NumberLemmas

(* The timer.                                                              *)
LEMMA Halves ==
  ASSUME NEW t \in 0 .. TimeMax
  PROVE  \E q \in 0 .. Half - 1, r \in 0 .. Half - 1 : q = t \div Half /\ r = t % Half /\ q * Half + r = t
  <1>1. PICK q \in Nat, r \in 0 .. Half - 1 : q = t \div Half /\ r = t % Half /\ q * Half + r = t
    BY TimerAssumption, DivMod
  <1>2. t < Half * Half
    BY TimerAssumption DEF Never
  <1>3. q < Half
    <2> SUFFICES ASSUME q >= Half PROVE FALSE
      BY TimerAssumption
    <2>1. q * Half >= Half * Half
      BY TimerAssumption
    <2>2. PICK x \in Nat, y \in Nat : x = q * Half /\ y = Half * Half
      BY TimerAssumption
    <2> QED
      BY <1>1, <1>2, <2>1, <2>2
  <1> QED
    BY <1>1, <1>3, TimerAssumption

(* The lower half was read between two reads of the same upper half.       *)
LEMMA SameUpperHalf ==
  ASSUME NEW t \in 0 .. TimeMax, NEW u \in 0 .. TimeMax, NEW v \in 0 .. TimeMax, t <= u, u <= v,
         NEW a, NEW b, a = t \div Half, a = v \div Half, b = u % Half
  PROVE  a * Half + b = u
  <1>1. Half \in Nat \ {0} /\ t \in Nat /\ u \in Nat /\ v \in Nat
    BY TimerAssumption
  <1>2. t \div Half <= u \div Half /\ u \div Half <= v \div Half
    BY <1>1, DivMonotone
  <1>3. a \in Int /\ u \div Half \in Int
    BY <1>1
  <1>4. a = u \div Half
    BY <1>2, <1>3
  <1> QED
    BY <1>4, Halves

LEMMA NeverIsNat == Never \in Nat /\ TimeMax \in Nat
  BY TimerAssumption DEF Never

LEMMA TimerSteps ==
  ASSUME TimerTypeOK, TimerInv
  PROVE  /\ UNCHANGED timerVars => TimerTypeOK' /\ TimerInv'
         /\ Tick => TimerTypeOK' /\ TimerInv'
         /\ \A d \in Deadlines : TimerEventStart(d) => TimerTypeOK' /\ TimerInv'
         /\ Mtip /\ TimerProcess => TimerTypeOK' /\ TimerInv'
         /\ \A d \in Deltas : TimerSetDelta(d) => TimerTypeOK' /\ TimerInv'
         /\ TimerExit => TimerTypeOK' /\ TimerInv' /\ ~mtie'
         /\ ~mtie /\ TimerWarmInit => TimerTypeOK' /\ TimerInv'
         /\ ReadBegin => TimerTypeOK' /\ TimerInv'
         /\ Read => TimerTypeOK' /\ TimerInv'
  <1> USE NeverIsNat DEF TimerTypeOK, TimerInv, readVars
  <1>1. ASSUME UNCHANGED timerVars PROVE TimerTypeOK' /\ TimerInv'
    BY <1>1 DEF timerVars
  <1>2. ASSUME Tick PROVE TimerTypeOK' /\ TimerInv'
    <2>1. TimerTypeOK' /\ time' = time + 1 /\ UNCHANGED <<wide, cmp, mtie, stip, delta, rd, hi, lo, since, deadline>>
      BY <1>2 DEF Tick
    <2>2. ASSUME rd = "check"
          PROVE  \E t \in since .. time' : \E u \in t .. time' : hi = t \div Half /\ lo = u % Half
      <3>1. PICK t \in since .. time : \E u \in t .. time : hi = t \div Half /\ lo = u % Half
        BY <2>2
      <3>2. PICK u \in t .. time : hi = t \div Half /\ lo = u % Half
        BY <3>1
      <3> QED
        BY <2>1, <3>2
    <2>3. ASSUME rd = "lo" PROVE \E t \in since .. time' : hi = t \div Half
      BY <2>1, <2>3
    <2>4. ASSUME rd = "done" PROVE hi * Half + lo \in since .. time'
      BY <2>1, <2>4
    <2>5. ASSUME stip PROVE deadline # NoTime /\ deadline <= time'
      BY <2>1, <2>5, TimerAssumption
    <2>6. since <= time'
      BY <2>1
    <2> QED
      BY <2>1, <2>2, <2>3, <2>4, <2>5, <2>6
  <1>3. ASSUME NEW d \in Deadlines, TimerEventStart(d) PROVE TimerTypeOK' /\ TimerInv'
    <2>1. d \in 0 .. Never
      BY TimerAssumption
    <2> QED
      BY <1>3, <2>1 DEF TimerEventStart
  <1>4. ASSUME Mtip, TimerProcess PROVE TimerTypeOK' /\ TimerInv'
    <2>1. mtie /\ cmp = deadline /\ cmp <= time /\ deadline # NoTime
      BY <1>4, TimerAssumption DEF Mtip
    <2>2. mtie' = FALSE /\ stip' = TRUE /\ UNCHANGED <<wide, time, cmp, delta, rd, hi, lo, since, deadline>>
      BY <1>4 DEF TimerProcess
    <2> QED
      BY <2>1, <2>2
  <1>5. ASSUME NEW d \in Deltas, TimerSetDelta(d) PROVE TimerTypeOK' /\ TimerInv'
    <2>1. d \in 0 .. Never
      BY TimerAssumption
    <2> QED
      BY <1>5, <2>1 DEF TimerSetDelta
  <1>6. ASSUME TimerExit PROVE TimerTypeOK' /\ TimerInv' /\ ~mtie'
    <2>1. cmp' = Never /\ stip' = FALSE /\ mtie' = FALSE /\ deadline' = NoTime
          /\ UNCHANGED <<wide, time, delta, rd, hi, lo, since>>
      BY <1>6 DEF TimerExit
    <2>2. TimerTypeOK'
      <3>1. cmp' \in 0 .. Never
        BY <2>1
      <3>2. deadline' \in 0 .. Never \cup {NoTime}
        BY <2>1
      <3>3. mtie' \in BOOLEAN /\ stip' \in BOOLEAN
        BY <2>1
      <3> QED
        BY <2>1, <3>1, <3>2, <3>3
    <2>3. TimerInv'
      BY <2>1
    <2>4. ~mtie'
      BY <2>1
    <2> QED
      BY <2>2, <2>3, <2>4
  <1>7. ASSUME ~mtie, TimerWarmInit PROVE TimerTypeOK' /\ TimerInv'
    BY <1>7 DEF TimerWarmInit
  <1>8. ASSUME ReadBegin PROVE TimerTypeOK' /\ TimerInv'
    BY <1>8 DEF ReadBegin
  <1>9. PICK q \in 0 .. Half - 1, r \in 0 .. Half - 1 : q = time \div Half /\ r = time % Half /\ q * Half + r = time
    BY Halves
  <1>10. ASSUME ReadAll PROVE TimerTypeOK' /\ TimerInv'
    <2>1. rd' = "done" /\ hi' = q /\ lo' = r /\ UNCHANGED <<wide, time, cmp, mtie, stip, delta, since, deadline>>
      BY <1>9, <1>10 DEF ReadAll
    <2>2. hi' * Half + lo' \in since' .. time'
      BY <1>9, <2>1
    <2> QED
      BY <2>1, <2>2
  <1>11. ASSUME ReadHi PROVE TimerTypeOK' /\ TimerInv'
    <2>1. TimerTypeOK' /\ rd' = "lo"
      BY <1>9, <1>11 DEF ReadHi
    <2>2. \E t \in since' .. time' : hi' = t \div Half
      BY <1>11 DEF ReadHi
    <2> QED
      BY <1>11, <2>1, <2>2 DEF ReadHi
  <1>12. ASSUME ReadLo PROVE TimerTypeOK' /\ TimerInv'
    <2>1. TimerTypeOK' /\ rd' = "check"
      BY <1>9, <1>12 DEF ReadLo
    <2>2. PICK t \in since .. time : hi = t \div Half
      BY <1>12 DEF ReadLo
    <2>3. time \in t .. time /\ hi' = t \div Half /\ lo' = time % Half
      BY <1>12, <2>2 DEF ReadLo
    <2>4. \E v \in since' .. time' : \E u \in v .. time' : hi' = v \div Half /\ lo' = u % Half
      BY <1>12, <2>3 DEF ReadLo
    <2> QED
      BY <1>12, <2>1, <2>4 DEF ReadLo
  <1>13. ASSUME ReadCheck PROVE TimerTypeOK' /\ TimerInv'
    <2>1. TimerTypeOK' /\ (rd' = "hi" \/ (rd' = "done" /\ hi = time \div Half))
      BY <1>13 DEF ReadCheck
    <2>2. PICK t \in since .. time : \E u \in t .. time : hi = t \div Half /\ lo = u % Half
      BY <1>13 DEF ReadCheck
    <2>3. PICK u \in t .. time : hi = t \div Half /\ lo = u % Half
      BY <2>2
    <2>4. t \in 0 .. TimeMax /\ u \in 0 .. TimeMax /\ t <= u /\ u <= time /\ u \in since .. time
      OBVIOUS
    <2>5. hi = time \div Half => hi * Half + lo = u
      BY <2>3, <2>4, SameUpperHalf
    <2> QED
      BY <1>13, <2>1, <2>4, <2>5 DEF ReadCheck
  <1>14. ASSUME ReadEnd PROVE TimerTypeOK' /\ TimerInv'
    BY <1>14, TimerAssumption DEF ReadEnd
  <1> HIDE DEF TimerTypeOK, TimerInv
  <1> QED
    BY <1>1, <1>2, <1>3, <1>4, <1>5, <1>6, <1>7, <1>8, <1>10, <1>11, <1>12, <1>13, <1>14 DEF Read
-----------------------------------------------------------------------------
(* Redirected traps.                                                       *)
CtxOK ==
  /\ up \in BOOLEAN /\ virt \in BOOLEAN /\ mode \in {"S", "U"}
  /\ s \in Status /\ vs \in Status
  /\ h \in [spv : BOOLEAN, spvp : {"S", "U"}]
  /\ hsFrame \in Frame \cup {None} /\ vsFrame \in Frame \cup {None}
  /\ FrameInv

LEMMA ClearType == Clear \in Status
  BY DEF Clear, Status

LEMMA Pushes ==
  ASSUME NEW st \in Status, NEW trap, trap.epc = "insn", mode \in {"S", "U"}
  PROVE  /\ Push(st, trap) \in Status
         /\ Push(st, trap).pp = mode /\ Push(st, trap).pie = st.ie /\ Push(st, trap).epc = "insn"
  BY DEF Push, Status

LEMMA RedirectKeeps ==
  ASSUME CtxOK, NEW trap, trap.epc = "insn", Redirect(trap), up' \in BOOLEAN
  PROVE  CtxOK'
  <1> USE DEF CtxOK
  <1>1. CASE ToVs(trap)
    <2> DEFINE f == [mode |-> mode, virt |-> TRUE, ie |-> vs.ie, spv |-> h.spv]
    <2>1. /\ mode' = "S" /\ virt' = TRUE /\ h' = h /\ s' = s /\ hsFrame' = hsFrame
          /\ vs' = Push(vs, trap) /\ vsFrame' = f
      BY <1>1 DEF Redirect, ToVs
    <2>2. f \in Frame
      BY DEF Frame, Status
    <2>3. vs' \in Status /\ vs'.pp = f.mode /\ vs'.pie = f.ie /\ vs'.epc = "insn"
      BY <2>1, Pushes
    <2> HIDE DEF f
    <2> QED
      BY <2>1, <2>2, <2>3 DEF FrameInv
  <1>2. CASE ~ToVs(trap)
    <2> DEFINE f == [mode |-> mode, virt |-> virt, ie |-> s.ie, spv |-> h.spv]
    <2>1. /\ mode' = "S" /\ virt' = FALSE /\ s' = Push(s, trap) /\ hsFrame' = f /\ UNCHANGED <<vs, vsFrame>>
          /\ h' = IF virt THEN [spv |-> TRUE, spvp |-> mode] ELSE h
      BY <1>2 DEF Redirect, ToVs
    <2>2. f \in Frame
      BY DEF Frame, Status
    <2>3. s' \in Status /\ s'.pp = f.mode /\ s'.pie = f.ie /\ s'.epc = "insn"
      BY <2>1, Pushes
    <2>4. h' \in [spv : BOOLEAN, spvp : {"S", "U"}] /\ (virt => h'.spv = TRUE /\ h'.spvp = f.mode) /\ (~virt => h'.spv = f.spv)
      BY <2>1
    <2>5. f.virt = virt
      OBVIOUS
    <2> HIDE DEF f
    <2>6. hsFrame' # None => /\ s'.pp = hsFrame'.mode /\ s'.pie = hsFrame'.ie /\ s'.epc = "insn"
                             /\ IF hsFrame'.virt THEN h'.spv /\ h'.spvp = hsFrame'.mode ELSE h'.spv = hsFrame'.spv
      BY <2>1, <2>3, <2>4, <2>5
    <2> QED
      BY <2>1, <2>2, <2>3, <2>4, <2>6 DEF FrameInv
  <1> QED
    BY <1>1, <1>2

LEMMA TrapEpc ==
  /\ \A c : Trap(c).epc = "insn"
  /\ \A t \in LoadTraps \cup StoreTraps \cup FetchTraps : Mine(t).epc = "insn"
  BY DEF Trap, LoadTraps, StoreTraps, FetchTraps, Unpriv, Mine

LEMMA CtxSteps ==
  ASSUME CtxOK
  PROVE  /\ UNCHANGED <<ctxVars, up>> => CtxOK'
         /\ \A t \in LoadTraps : EcallTrap(t) => CtxOK'
         /\ IllegalInsnTrap => CtxOK'
         /\ \A code : MisalignedTrap(code, LoadTraps) => CtxOK'
         /\ \A code : MisalignedTrap(code, StoreTraps) => CtxOK'
         /\ \A code : AccessFault(code) => CtxOK'
         /\ \A cause : OtherTrap(cause) => CtxOK'
         /\ HartStop => CtxOK'
         /\ HartStart => CtxOK'
         /\ HsSret => CtxOK'
         /\ VsSret => CtxOK'
         /\ HsPrepare => CtxOK'
         /\ \A m \in {"S", "U"}, v, ie \in BOOLEAN : HsEnter(m, v, ie) => CtxOK'
         /\ \A ie \in BOOLEAN : VsEnter(ie) => CtxOK'
         /\ \A ie \in BOOLEAN : HsInterrupts(ie) => CtxOK'
  <1>0. ASSUME UNCHANGED up PROVE up' \in BOOLEAN
    BY <1>0 DEF CtxOK
  <1>1. ASSUME UNCHANGED <<ctxVars, up>> PROVE CtxOK'
    BY <1>1 DEF CtxOK, FrameInv, ctxVars
  <1>2. ASSUME NEW t \in LoadTraps, EcallTrap(t) PROVE CtxOK'
    BY <1>0, <1>2, RedirectKeeps, TrapEpc DEF EcallTrap
  <1>3. ASSUME IllegalInsnTrap PROVE CtxOK'
    BY <1>0, <1>3, RedirectKeeps, TrapEpc DEF IllegalInsnTrap
  <1>4. ASSUME NEW code, MisalignedTrap(code, LoadTraps) PROVE CtxOK'
    BY <1>0, <1>4, RedirectKeeps, TrapEpc DEF MisalignedTrap
  <1>5. ASSUME NEW code, MisalignedTrap(code, StoreTraps) PROVE CtxOK'
    BY <1>0, <1>5, RedirectKeeps, TrapEpc DEF MisalignedTrap
  <1>6. ASSUME NEW code, AccessFault(code) PROVE CtxOK'
    BY <1>0, <1>6, RedirectKeeps, TrapEpc DEF AccessFault
  <1>7. ASSUME NEW cause, OtherTrap(cause) PROVE CtxOK'
    BY <1>0, <1>7, RedirectKeeps, TrapEpc DEF OtherTrap
  <1> USE DEF CtxOK, FrameInv
  <1>8. ASSUME HartStop PROVE CtxOK'
    BY <1>8 DEF HartStop, ctxVars
  <1>9. ASSUME HartStart PROVE CtxOK'
    BY <1>9, ClearType DEF HartStart
  <1>10. ASSUME HsSret PROVE CtxOK'
    BY <1>10 DEF HsSret, Status
  <1>11. ASSUME VsSret PROVE CtxOK'
    BY <1>11 DEF VsSret, Status
  <1>12. ASSUME HsPrepare PROVE CtxOK'
    BY <1>12 DEF HsPrepare
  <1>13. ASSUME NEW m \in {"S", "U"}, NEW v \in BOOLEAN, NEW ie \in BOOLEAN, HsEnter(m, v, ie) PROVE CtxOK'
    BY <1>13 DEF HsEnter, Status, Clear
  <1>14. ASSUME NEW ie \in BOOLEAN, VsEnter(ie) PROVE CtxOK'
    BY <1>14 DEF VsEnter, Status, Clear
  <1>15. ASSUME NEW ie \in BOOLEAN, HsInterrupts(ie) PROVE CtxOK'
    BY <1>15 DEF HsInterrupts, Status
  <1> HIDE DEF CtxOK
  <1> QED
    BY <1>1, <1>2, <1>3, <1>4, <1>5, <1>6, <1>7, <1>8, <1>9, <1>10, <1>11, <1>12, <1>13, <1>14, <1>15
-----------------------------------------------------------------------------
(* The PMU: the counters and the indices of events.                        *)
LEMMA Counters ==
  /\ Total \in Nat /\ Codes \in Nat \ {0}
  /\ HwCtrs \subseteq Ctrs /\ FwCtrs \subseteq Ctrs /\ HwCtrs \cap FwCtrs = {}
  /\ Fixed \subseteq Ctrs /\ Fixed \cap HwCtrs = {} /\ Fixed \cap FwCtrs = {}
  /\ \A c \in Ctrs : c >= 3 <=> c \in HwCtrs \cup FwCtrs
  /\ \A c \in Ctrs : c \in Fixed \cup HwCtrs \cup FwCtrs
  /\ \A c \in HwCtrs : c <= NumHw /\ c # 1
  /\ \A c \in Nat : c \in HwCtrs <=> c <= NumHw /\ c \notin Fixed
  <1>1. NumHw \in Nat /\ NumHw >= 2 /\ FwCtrMax \in Nat /\ FwCtrMax >= 1 /\ Codes \in Nat \ {0}
    BY PmuAssumption
  <1> USE DEF Total, Ctrs, HwCtrs, FwCtrs, Fixed
  <1>2. Total \in Nat
    BY <1>1
  <1>3. HwCtrs \subseteq Ctrs /\ FwCtrs \subseteq Ctrs /\ HwCtrs \cap FwCtrs = {}
    BY <1>1
  <1>4. Fixed \subseteq Ctrs /\ Fixed \cap HwCtrs = {} /\ Fixed \cap FwCtrs = {}
    BY <1>1
  <1>5. \A c \in Ctrs : c >= 3 <=> c \in HwCtrs \cup FwCtrs
    BY <1>1
  <1>6. \A c \in Ctrs : c \in Fixed \cup HwCtrs \cup FwCtrs
    BY <1>1
  <1>7. \A c \in HwCtrs : c <= NumHw /\ c # 1
    BY <1>1
  <1>8. \A c \in Nat : c \in HwCtrs <=> c <= NumHw /\ c \notin Fixed
    BY <1>1
  <1> QED
    BY <1>1, <1>2, <1>3, <1>4, <1>5, <1>6, <1>7, <1>8

LEMMA FixedEvents ==
  /\ Cycles \in Nat /\ Instructions \in Nat
  /\ Type(Cycles) # Fw /\ Type(Instructions) # Fw
  <1>1. ASSUME NEW e \in {1, 2} PROVE Type(e) # Fw
    <2>1. Codes \in Nat \ {0} /\ e \in 0 .. Codes - 1 /\ 0 * Codes + e = e
      BY PmuAssumption
    <2>2. e \div Codes = 0
      BY <2>1, DivUnique
    <2> QED
      BY <2>2 DEF Type, Fw
  <1> QED
    BY <1>1 DEF Cycles, Instructions

LEMMA RequestIs ==
  ASSUME NEW r \in Requests, Fls(r[2]) < Total
  PROVE  r[1] \in Nat /\ r[2] \subseteq Ctrs
  <1>1. r[1] \in Nat /\ r[2] \in SUBSET (0 .. 63)
    BY PmuAssumption DEF Word
  <1>2. CASE r[2] = {}
    BY <1>1, <1>2
  <1>3. CASE r[2] # {}
    <2>1. Max(r[2]) \in r[2] /\ \A c \in r[2] : c <= Max(r[2])
      BY <1>1, <1>3, MaxIn
    <2> QED
      BY <1>1, <1>3, <2>1, Counters DEF Ctrs, Fls
  <1> QED
    BY <1>2, <1>3

(* Which counters a firmware event is on.                                  *)
LEMMA FwCounters ==
  ASSUME GrantInv, NEW c \in Ctrs
  PROVE  /\ IsFw(c) <=> c \in FwCtrs /\ active[c] # None
         /\ \A code : c \in Users(code) <=> IsFw(c) /\ Code(active[c]) = code
  <1>1. IsFw(c) <=> c \in FwCtrs /\ active[c] # None
    BY DEF IsFw, Valid, GrantInv
  <1> QED
    BY <1>1 DEF Users

LEMMA AddType ==
  ASSUME NEW m \in Seq(HwEvent), NEW e \in HwEvent
  PROVE  AddHwEvent(m, e) \in Seq(HwEvent)
  BY DEF AddHwEvent

(* Steps that leave the counters alone.                                    *)
LEMMA PmuAddKeeps ==
  ASSUME PmuTypeOK, PmuAdd
  PROVE  PmuTypeOK' /\ UNCHANGED <<feat, active, inhibit, sel, fw, use, stray, again>>
  <1>1. Offered \in Seq(HwEvent) /\ added \in 0 .. Len(Offered) /\ added < Len(Offered)
    BY PmuAssumption DEF PmuTypeOK, PmuAdd
  <1>2. Offered[added + 1] \in HwEvent
    BY <1>1
  <1>3. map' \in Seq(HwEvent)
    BY <1>2, AddType DEF PmuTypeOK, PmuAdd
  <1>4. Len(Offered) \in Nat /\ added' = added + 1
    BY <1>1 DEF PmuAdd
  <1>5. added' \in 0 .. Len(Offered)
    BY <1>1, <1>4
  <1> QED
    BY <1>3, <1>5 DEF PmuTypeOK, PmuAdd

(* The counters, seen by event: what a step that keeps the assignment of   *)
(* counters does to the counts.                                            *)
Use == [grants : Nat, run : BOOLEAN, count : 0 .. CountMod - 1 \cup {None}, alone : BOOLEAN]
FwState == [count : 0 .. CountMod - 1, started : BOOLEAN]

Recounts ==
  /\ UNCHANGED <<feat, map, added, active, sel, again>>
  /\ inhibit' \subseteq 0 .. NumHw
  /\ stray' \in [codes : SUBSET (0 .. FwMax - 1), ctrs : SUBSET HwCtrs]
  /\ stray.codes \subseteq stray'.codes
  /\ \A c \in HwCtrs : active[c] = None /\ c \in inhibit \cup stray.ctrs => c \in inhibit' \cup stray'.ctrs
  /\ fw' \in [0 .. FwMax - 1 -> FwState] /\ use' \in [Ctrs -> Use]
  /\ \A c \in Ctrs : use'[c].grants = use[c].grants /\ use'[c].alone = use[c].alone

LEMMA RecountKeeps ==
  ASSUME PmuTypeOK, NEW on \in BOOLEAN, PmuInv(on), Recounts, on \/ stray'.ctrs = stray.ctrs,
         \A code \in 0 .. FwMax - 1 :
           code \notin stray'.codes /\ Users(code) = {} /\ ~fw[code].started => ~fw'[code].started,
         \A c \in FwCtrs, code \in 0 .. FwMax - 1 : code \notin stray'.codes /\ Users(code) = {c} =>
           /\ fw[code].started = use[c].run => fw'[code].started = use'[c].run
           /\ (use[c].count # None => fw[code].count = use[c].count) /\ fw[code].started = use[c].run =>
                (use'[c].count # None => fw'[code].count = use'[c].count)
  PROVE  PmuTypeOK' /\ PmuInv(on)'
  <1>1. PmuTypeOK'
    BY DEF PmuTypeOK, Recounts, Use, FwState
  <1>2. GrantInv'
    BY Counters DEF PmuInv, GrantInv, Recounts
  <1>3. \A code : Users(code)' = Users(code) /\ (Tracked(code, on)' => Tracked(code, on) /\ code \in 0 .. FwMax - 1 /\ code \notin stray'.codes)
    BY DEF Users, Tracked, Recounts
  <1>4. \A code \in 0 .. FwMax - 1 : Tracked(code, on)' /\ Users(code)' = {} => ~fw'[code].started
    BY <1>3 DEF PmuInv, CountInv
  <1>5. ASSUME NEW c \in FwCtrs, use'[c].alone PROVE Counts(c, on)'
    <2>1. use[c].alone /\ active' = active
      BY <1>5, Counters DEF Recounts
    <2>2. Counts(c, on)
      BY <2>1 DEF PmuInv, CountInv
    <2> QED
      BY <1>3, <2>1, <2>2 DEF Counts
  <1>6. CountInv(on)'
    BY <1>4, <1>5 DEF CountInv
  <1>7. ~on => stray'.ctrs = {} /\ \A c \in Ctrs : c >= 3 => active'[c] = None
    BY DEF PmuInv, Recounts
  <1> QED
    BY <1>1, <1>2, <1>6, <1>7 DEF PmuInv

(* What goes astray.                                                       *)
LEMMA AstrayIs ==
  ASSUME PmuTypeOK, NEW codes, NEW ctrs \in SUBSET HwCtrs, Astray(codes, ctrs)
  PROVE  /\ stray' \in [codes : SUBSET (0 .. FwMax - 1), ctrs : SUBSET HwCtrs]
         /\ stray.codes \subseteq stray'.codes /\ stray'.ctrs = stray.ctrs \cup ctrs
         /\ \A code \in codes : code \in 0 .. FwMax - 1 => code \in stray'.codes
         /\ codes = {} /\ ctrs = {} => stray' = stray
  <1>1. stray \in [codes : SUBSET (0 .. FwMax - 1), ctrs : SUBSET HwCtrs] /\ DOMAIN fw = 0 .. FwMax - 1
    BY DEF PmuTypeOK
  <1>2. stray' = [codes |-> stray.codes \cup (codes \cap (0 .. FwMax - 1)), ctrs |-> stray.ctrs \cup ctrs]
    BY <1>1 DEF Astray
  <1> QED
    BY <1>1, <1>2

LEMMA IncrKeeps ==
  ASSUME PmuTypeOK, PmuInv(TRUE), NEW code \in 0 .. FwMax - 1, IncrFw(code)
  PROVE  PmuTypeOK' /\ PmuInv(TRUE)'
  <1> DEFINE inc(n) == (n + 1) % CountMod
  <1>1. ASSUME NEW n \in 0 .. CountMod - 1 PROVE inc(n) \in 0 .. CountMod - 1
    <2>1. CountMod \in Nat \ {0} /\ n + 1 \in Nat
      BY PmuAssumption
    <2> QED
      BY <2>1
  <1> HIDE DEF inc
  <1>2. /\ UNCHANGED <<feat, map, added, active, inhibit, sel, stray, again>>
        /\ fw' = IF fw[code].started THEN [fw EXCEPT ![code].count = inc(@)] ELSE fw
        /\ use' = [c \in Ctrs |->
                    IF c \in Users(code) /\ use[c].run /\ use[c].count # None
                    THEN [use[c] EXCEPT !.count = inc(@)] ELSE use[c]]
    BY DEF IncrFw, bootVars, inc
  <1>3. /\ fw \in [0 .. FwMax - 1 -> FwState] /\ use \in [Ctrs -> Use] /\ inhibit \subseteq 0 .. NumHw
        /\ stray \in [codes : SUBSET (0 .. FwMax - 1), ctrs : SUBSET HwCtrs]
    BY DEF PmuTypeOK, FwState, Use
  <1>4. /\ fw' \in [0 .. FwMax - 1 -> FwState]
        /\ \A k \in 0 .. FwMax - 1 : fw'[k].started = fw[k].started /\ (k # code \/ ~fw[code].started => fw'[k] = fw[k])
        /\ fw[code].started => fw'[code].count = inc(fw[code].count)
    BY <1>1, <1>2, <1>3 DEF FwState
  <1>5. /\ use' \in [Ctrs -> Use]
        /\ \A c \in Ctrs :
             /\ use'[c].grants = use[c].grants /\ use'[c].alone = use[c].alone /\ use'[c].run = use[c].run
             /\ c \in Users(code) /\ use[c].run /\ use[c].count # None => use'[c].count = inc(use[c].count)
             /\ ~(c \in Users(code) /\ use[c].run /\ use[c].count # None) => use'[c] = use[c]
    BY <1>1, <1>2, <1>3 DEF Use
  <1>6. Recounts
    BY <1>2, <1>3, <1>4, <1>5 DEF Recounts
  <1>7. \A k \in 0 .. FwMax - 1 : Users(k) = {} /\ ~fw[k].started => ~fw'[k].started
    BY <1>4
  <1>8. ASSUME NEW c \in FwCtrs, NEW k \in 0 .. FwMax - 1, Users(k) = {c}
        PROVE  /\ fw[k].started = use[c].run => fw'[k].started = use'[c].run
               /\ (use[c].count # None => fw[k].count = use[c].count) /\ fw[k].started = use[c].run =>
                    (use'[c].count # None => fw'[k].count = use'[c].count)
    <2>1. Code(active[c]) = k /\ c \in Ctrs
      BY <1>8, Counters DEF Users
    <2>2. c \in Users(code) <=> k = code
      BY <1>8, <2>1 DEF Users
    <2> QED
      BY <1>4, <1>5, <2>1, <2>2
  <1> QED
    BY <1>6, <1>7, <1>8, RecountKeeps

LEMMA StartHwKeeps ==
  ASSUME PmuTypeOK, NEW cs
  PROVE  StartHw(cs) \subseteq 0 .. NumHw /\ \A c \in inhibit : c \notin cs => c \in StartHw(cs)
  BY DEF PmuTypeOK, StartHw, Startable

LEMMA StartKeeps ==
  ASSUME PmuTypeOK, PmuInv(TRUE), NEW base, NEW ctrs, ctrs \subseteq Ctrs, NEW ival \in {None, 0, 1},
         CtrStart(base, ctrs, ival)
  PROVE  PmuTypeOK' /\ PmuInv(TRUE)'
  <1> DEFINE fws == {c \in ctrs : base <= c /\ IsFw(c)}
             codes == {Code(active[c]) : c \in fws}
             hws == {c \in ctrs : base <= c /\ Valid(c) /\ ~IsFw(c)}
  <1>1. /\ UNCHANGED <<feat, map, added, active, sel, stray, again>>
        /\ fw' = [code \in DOMAIN fw |->
                    IF code \notin codes THEN fw[code]
                    ELSE [count |-> IF ival = None THEN fw[code].count ELSE ival, started |-> TRUE]]
        /\ inhibit' = StartHw(hws)
        /\ use' = [c \in Ctrs |->
                     IF c \notin fws THEN use[c]
                     ELSE [use[c] EXCEPT !.run = TRUE, !.count = IF ival = None THEN @ ELSE ival]]
    BY DEF CtrStart, bootVars
  <1>2. /\ fw \in [0 .. FwMax - 1 -> FwState] /\ use \in [Ctrs -> Use]
        /\ stray \in [codes : SUBSET (0 .. FwMax - 1), ctrs : SUBSET HwCtrs]
    BY DEF PmuTypeOK, FwState, Use
  <1>3. \A c \in hws : active[c] # None
    BY DEF Valid
  <1>4. \A c \in FwCtrs, code \in 0 .. FwMax - 1 : Users(code) = {c} => (code \in codes <=> c \in fws)
    <2>1. \A c \in fws, code \in 0 .. FwMax - 1 : Code(active[c]) = code <=> c \in Users(code)
      BY FwCounters DEF PmuInv
    <2> HIDE DEF fws
    <2> QED
      BY <2>1
  <1>5. \A code \in 0 .. FwMax - 1 : Users(code) = {} => code \notin codes
    <2>1. \A c \in fws, code \in 0 .. FwMax - 1 : Code(active[c]) = code <=> c \in Users(code)
      BY FwCounters DEF PmuInv
    <2> HIDE DEF fws
    <2> QED
      BY <2>1
  <1>6. inhibit' \subseteq 0 .. NumHw /\ \A c \in HwCtrs : active[c] = None /\ c \in inhibit => c \in inhibit'
    <2> HIDE DEF hws
    <2> QED
      BY <1>1, <1>3, StartHwKeeps
  <1> HIDE DEF fws, codes, hws
  <1>7. ival # None => ival \in 0 .. CountMod - 1
    BY PmuAssumption
  <1>8. /\ fw' \in [0 .. FwMax - 1 -> FwState]
        /\ \A code \in 0 .. FwMax - 1 :
             IF code \in codes THEN fw'[code].started = TRUE /\ fw'[code].count = (IF ival = None THEN fw[code].count ELSE ival)
                               ELSE fw'[code] = fw[code]
    BY <1>1, <1>2, <1>7 DEF FwState
  <1>9. /\ use' \in [Ctrs -> Use]
        /\ \A c \in Ctrs :
             /\ use'[c].grants = use[c].grants /\ use'[c].alone = use[c].alone
             /\ IF c \in fws THEN use'[c].run = TRUE /\ use'[c].count = (IF ival = None THEN use[c].count ELSE ival)
                             ELSE use'[c] = use[c]
    BY <1>1, <1>2, <1>7 DEF Use
  <1>10. Recounts
    BY <1>1, <1>2, <1>6, <1>8, <1>9 DEF Recounts
  <1>11. \A code \in 0 .. FwMax - 1 : Users(code) = {} /\ ~fw[code].started => ~fw'[code].started
    BY <1>5, <1>8
  <1>12. ASSUME NEW c \in FwCtrs, NEW k \in 0 .. FwMax - 1, Users(k) = {c}
        PROVE  /\ fw[k].started = use[c].run => fw'[k].started = use'[c].run
               /\ (use[c].count # None => fw[k].count = use[c].count) /\ fw[k].started = use[c].run =>
                    (use'[c].count # None => fw'[k].count = use'[c].count)
    BY <1>4, <1>8, <1>9, <1>12, Counters
  <1> QED
    BY <1>10, <1>11, <1>12, RecountKeeps

LEMMA SetupIs ==
  ASSUME PmuTypeOK, NEW c, NEW e, NEW clear \in BOOLEAN, NEW start \in BOOLEAN, Setup(c, e, clear, start)
  PROVE  /\ fw' \in [0 .. FwMax - 1 -> FwState]
         /\ \A k \in 0 .. FwMax - 1 : Type(e) # Fw \/ k # Code(e) => fw'[k] = fw[k]
         /\ Type(e) # Fw => fw' = fw
         /\ Type(e) = Fw /\ Code(e) \in 0 .. FwMax - 1 =>
              /\ fw'[Code(e)].started = (start \/ fw[Code(e)].started)
              /\ fw'[Code(e)].count = IF clear THEN 0 ELSE fw[Code(e)].count
         /\ inhibit' = IF Type(e) = Hw /\ start THEN StartHw({c}) ELSE inhibit
  <1>1. fw \in [0 .. FwMax - 1 -> FwState]
    BY DEF PmuTypeOK, FwState
  <1>2. fw' = [code \in 0 .. FwMax - 1 |->
                IF Type(e) # Fw \/ code # Code(e) THEN fw[code]
                ELSE [count |-> IF clear THEN 0 ELSE fw[code].count, started |-> start \/ fw[code].started]]
    BY <1>1 DEF Setup
  <1>3. inhibit' = IF Type(e) = Hw /\ start THEN StartHw({c}) ELSE inhibit
    BY DEF Setup
  <1>4. ASSUME NEW k \in 0 .. FwMax - 1
        PROVE  [count |-> IF clear THEN 0 ELSE fw[k].count, started |-> start \/ fw[k].started] \in FwState
    BY <1>1, PmuAssumption DEF FwState
  <1>5. fw' \in [0 .. FwMax - 1 -> FwState]
    BY <1>1, <1>2, <1>4
  <1>6. Type(e) # Fw => fw' = fw
    BY <1>1, <1>2
  <1>7. \A k \in 0 .. FwMax - 1 : Type(e) # Fw \/ k # Code(e) => fw'[k] = fw[k]
    BY <1>2
  <1>8. Type(e) = Fw /\ Code(e) \in 0 .. FwMax - 1 =>
          /\ fw'[Code(e)].started = (start \/ fw[Code(e)].started)
          /\ fw'[Code(e)].count = IF clear THEN 0 ELSE fw[Code(e)].count
    BY <1>2
  <1> QED
    BY <1>3, <1>5, <1>6, <1>7, <1>8

LEMMA SkipKeeps ==
  ASSUME PmuTypeOK, PmuInv(TRUE), NEW base \in Nat, NEW ctrs, NEW e, NEW clear \in BOOLEAN, NEW start \in BOOLEAN,
         CfgSkip(base, ctrs, e, clear, start)
  PROVE  PmuTypeOK' /\ PmuInv(TRUE)'
  <1> DEFINE named == base \in Users(Code(e))
             forced(c) == IF Type(e) = Hw /\ start THEN {d \in HwCtrs : d = c /\ active[d] = None} ELSE {}
  <1>1. fw \in [0 .. FwMax - 1 -> FwState] /\ use \in [Ctrs -> Use] /\ inhibit \subseteq 0 .. NumHw
    BY DEF PmuTypeOK, FwState, Use
  <1>2. PICK c : /\ Setup(c, e, clear, start)
                 /\ Astray(IF Type(e) = Fw /\ ~named THEN {Code(e)} ELSE {}, forced(c))
    BY DEF CfgSkip
  <1>3. UNCHANGED <<feat, map, added, active, sel, again>>
    BY DEF CfgSkip, bootVars
  <1>4. use' = IF Type(e) # Fw \/ ~named THEN use
               ELSE [use EXCEPT ![base] = [use[base] EXCEPT !.run = use[base].run \/ start,
                                                            !.count = IF clear THEN 0 ELSE use[base].count]]
    BY DEF CfgSkip
  <1>5. forced(c) \in SUBSET HwCtrs
    OBVIOUS
  <1> HIDE DEF forced
  <1>6. /\ stray' \in [codes : SUBSET (0 .. FwMax - 1), ctrs : SUBSET HwCtrs]
        /\ stray.codes \subseteq stray'.codes /\ stray'.ctrs = stray.ctrs \cup forced(c)
        /\ Type(e) = Fw /\ ~named /\ Code(e) \in 0 .. FwMax - 1 => Code(e) \in stray'.codes
    BY <1>2, <1>5, AstrayIs
  <1>7. /\ fw' \in [0 .. FwMax - 1 -> FwState]
        /\ \A k \in 0 .. FwMax - 1 : Type(e) # Fw \/ k # Code(e) => fw'[k] = fw[k]
        /\ Type(e) = Fw /\ Code(e) \in 0 .. FwMax - 1 =>
             /\ fw'[Code(e)].started = (start \/ fw[Code(e)].started)
             /\ fw'[Code(e)].count = IF clear THEN 0 ELSE fw[Code(e)].count
        /\ inhibit' = IF Type(e) = Hw /\ start THEN StartHw({c}) ELSE inhibit
    BY <1>2, SetupIs
  <1>8. /\ inhibit' \subseteq 0 .. NumHw
        /\ \A d \in HwCtrs : active[d] = None /\ d \in inhibit \cup stray.ctrs => d \in inhibit' \cup stray'.ctrs
    <2>1. StartHw({c}) \subseteq 0 .. NumHw /\ \A d \in inhibit : d # c => d \in StartHw({c})
      BY StartHwKeeps
    <2>2. Type(e) = Hw /\ start => \A d \in HwCtrs : d = c /\ active[d] = None => d \in forced(c)
      BY DEF forced
    <2> QED
      BY <1>1, <1>6, <1>7, <2>1, <2>2
  <1>9. CASE Type(e) # Fw \/ ~named
    <2>1. use' = use
      BY <1>4, <1>9
    <2>2. Recounts
      BY <1>1, <1>3, <1>6, <1>7, <1>8, <2>1 DEF Recounts
    <2>3. \A k \in 0 .. FwMax - 1 : k \notin stray'.codes => fw'[k] = fw[k]
      BY <1>6, <1>7, <1>9
    <2> QED
      BY <2>1, <2>2, <2>3, RecountKeeps
  <1>10. CASE Type(e) = Fw /\ named
    <2>1. base \in FwCtrs /\ base \in Ctrs /\ Code(active[base]) = Code(e)
      BY <1>10, Counters DEF Users
    <2>2. /\ use' \in [Ctrs -> Use]
          /\ \A d \in Ctrs : use'[d].grants = use[d].grants /\ use'[d].alone = use[d].alone
          /\ \A d \in Ctrs : d # base => use'[d] = use[d]
          /\ use'[base].run = (use[base].run \/ start) /\ use'[base].count = IF clear THEN 0 ELSE use[base].count
      <3>1. PICK b \in BOOLEAN, n \in 0 .. CountMod - 1 \cup {None} :
              b = (use[base].run \/ start) /\ n = IF clear THEN 0 ELSE use[base].count
        <4>1. (use[base].run \/ start) \in BOOLEAN
          OBVIOUS
        <4>2. (IF clear THEN 0 ELSE use[base].count) \in 0 .. CountMod - 1 \cup {None}
          BY <1>1, <2>1, PmuAssumption DEF Use
        <4> QED
          BY <4>1, <4>2
      <3>2. use' = [use EXCEPT ![base] = [use[base] EXCEPT !.run = b, !.count = n]]
        BY <1>4, <1>10, <3>1, Zenon
      <3>3. /\ use' \in [Ctrs -> Use]
            /\ \A d \in Ctrs : use'[d].grants = use[d].grants /\ use'[d].alone = use[d].alone
            /\ \A d \in Ctrs : d # base => use'[d] = use[d]
            /\ use'[base].run = b /\ use'[base].count = n
        BY <1>1, <2>1, <3>2 DEF Use
      <3> QED
        BY <3>1, <3>3, Zenon
    <2>3. Recounts
      BY <1>3, <1>6, <1>7, <1>8, <2>2 DEF Recounts
    <2>4. \A k \in 0 .. FwMax - 1 : Users(k) = {} /\ ~fw[k].started => ~fw'[k].started
      BY <1>7, <1>10
    <2>5. ASSUME NEW d \in FwCtrs, NEW k \in 0 .. FwMax - 1, Users(k) = {d}
          PROVE  /\ fw[k].started = use[d].run => fw'[k].started = use'[d].run
                 /\ (use[d].count # None => fw[k].count = use[d].count) /\ fw[k].started = use[d].run =>
                      (use'[d].count # None => fw'[k].count = use'[d].count)
      <3>1. k = Code(e) <=> d = base
        <4>1. k = Code(e) => d = base
          BY <1>10, <2>5
        <4>2. d \in Users(k)
          BY <2>5
        <4>3. d = base => Code(active[base]) = k
          BY <4>2 DEF Users
        <4> QED
          BY <2>1, <4>1, <4>3
      <3>2. d \in Ctrs /\ use[base].run \in BOOLEAN
        BY <1>1, <2>1, Counters DEF Use
      <3>3. CASE d = base
        <4>1. fw[k].started \in BOOLEAN
          BY <1>1 DEF FwState
        <4>2. /\ fw'[k].started = (start \/ fw[k].started)
              /\ fw'[k].count = IF clear THEN 0 ELSE fw[k].count
          BY <1>7, <1>10, <3>1, <3>3
        <4> QED
          BY <2>2, <3>2, <3>3, <4>1, <4>2
      <3>4. CASE d # base
        BY <1>7, <2>2, <3>1, <3>2, <3>4
      <3> QED
        BY <3>3, <3>4
    <2> QED
      BY <2>3, <2>4, <2>5, RecountKeeps
  <1> QED
    BY <1>9, <1>10

(* A call of another hart, also while this one is stopped.                 *)
LEMMA IntrudeKeeps ==
  ASSUME PmuTypeOK, NEW on \in BOOLEAN, PmuInv(on), NEW k \in 0 .. FwMax - 1, Intrude(k)
  PROVE  PmuTypeOK' /\ PmuInv(on)'
  <1>1. fw \in [0 .. FwMax - 1 -> FwState] /\ use \in [Ctrs -> Use] /\ inhibit \subseteq 0 .. NumHw
    BY DEF PmuTypeOK, FwState, Use
  <1>2. PICK n \in 0 .. CountMod - 1, b \in BOOLEAN : fw' = [fw EXCEPT ![k] = [count |-> n, started |-> b]]
    BY DEF Intrude
  <1>3. UNCHANGED <<feat, map, added, active, inhibit, sel, use, again>> /\ Astray({k}, {})
    BY DEF Intrude, bootVars
  <1>4. /\ stray' \in [codes : SUBSET (0 .. FwMax - 1), ctrs : SUBSET HwCtrs]
        /\ stray.codes \subseteq stray'.codes /\ stray'.ctrs = stray.ctrs /\ k \in stray'.codes
    <2>1. /\ stray' \in [codes : SUBSET (0 .. FwMax - 1), ctrs : SUBSET HwCtrs]
          /\ stray.codes \subseteq stray'.codes /\ stray'.ctrs = stray.ctrs \cup {}
          /\ \A code \in {k} : code \in 0 .. FwMax - 1 => code \in stray'.codes
      BY <1>3, AstrayIs
    <2> QED
      BY <2>1
  <1>5. fw' \in [0 .. FwMax - 1 -> FwState] /\ \A code \in 0 .. FwMax - 1 : code # k => fw'[code] = fw[code]
    BY <1>1, <1>2 DEF FwState
  <1>6. Recounts
    BY <1>1, <1>3, <1>4, <1>5 DEF Recounts
  <1>7. \A code \in 0 .. FwMax - 1 : code \notin stray'.codes => fw'[code] = fw[code]
    BY <1>4, <1>5
  <1> QED
    BY <1>3, <1>4, <1>6, <1>7, RecountKeeps

(* The firmware events of a set of counters.                               *)
LEMMA CodesOf ==
  ASSUME GrantInv, NEW cs, cs \subseteq Ctrs, NEW code
  PROVE  code \in {Code(active[c]) : c \in {d \in cs : IsFw(d)}} <=> Users(code) \cap cs # {}
  <1>1. \A c \in cs : c \in Users(code) <=> IsFw(c) /\ Code(active[c]) = code
    BY FwCounters
  <1> QED
    BY <1>1

LEMMA StopKeeps ==
  ASSUME PmuTypeOK, PmuInv(TRUE), NEW base, NEW ctrs, ctrs \subseteq Ctrs, NEW reset \in BOOLEAN,
         CtrStop(base, ctrs, reset)
  PROVE  PmuTypeOK' /\ PmuInv(TRUE)'
  <1> DEFINE valid == {c \in ctrs : base <= c /\ Valid(c)}
             codes == {Code(active[c]) : c \in {d \in valid : IsFw(d)}}
             hws == {c \in valid : ~IsFw(c)}
  <1>1. /\ UNCHANGED <<feat, map, added, stray, again>>
        /\ fw' = [code \in DOMAIN fw |->
                    IF code \in codes THEN [fw[code] EXCEPT !.started = FALSE] ELSE fw[code]]
        /\ inhibit' = StopHw(hws)
        /\ active' = [c \in Ctrs |-> IF reset /\ c \in valid THEN None ELSE active[c]]
        /\ sel' = [c \in HwCtrs |-> IF reset /\ c \in valid THEN None ELSE sel[c]]
        /\ use' = [c \in Ctrs |->
                    IF c \notin valid THEN use[c]
                    ELSE IF reset THEN Free ELSE [use[c] EXCEPT !.run = FALSE]]
    BY DEF CtrStop, bootVars
  <1>2. fw \in [0 .. FwMax - 1 -> FwState] /\ use \in [Ctrs -> Use] /\ inhibit \subseteq 0 .. NumHw
    BY DEF PmuTypeOK, FwState, Use
  <1>3. /\ active \in [Ctrs -> Nat \cup {None}]
        /\ sel \in [HwCtrs -> (Nat \X Nat) \cup {None}]
        /\ stray \in [codes : SUBSET (0 .. FwMax - 1), ctrs : SUBSET HwCtrs]
    BY DEF PmuTypeOK
  <1>4. valid \subseteq Ctrs /\ \A c \in Ctrs : c \in valid <=> c \in ctrs /\ base <= c /\ active[c] # None
    BY DEF Valid
  <1>5. /\ \A code \in 0 .. FwMax - 1 : code \in codes <=> Users(code) \cap valid # {}
        /\ \A code : \A c \in Users(code) : c \in FwCtrs /\ active[c] # None
    <2> HIDE DEF valid
    <2> QED
      BY <1>4, CodesOf DEF PmuInv, Users
  <1>6. hws \subseteq Ctrs /\ \A c \in valid : c \notin FwCtrs => c \in hws
    BY <1>4, FwCounters DEF PmuInv
  <1> HIDE DEF valid, codes, hws
  <1>7. /\ inhibit' \subseteq 0 .. NumHw /\ inhibit \subseteq inhibit'
        /\ \A c \in hws : "inhibit" \in feat /\ c \in HwCtrs => c \in inhibit'
    <2>1. Startable(hws) \subseteq 0 .. NumHw
      <3>1. \A c \in Startable(hws) : c \in Ctrs /\ c <= NumHw
        BY <1>6 DEF Startable
      <3>2. NumHw \in Nat /\ \A c \in Ctrs : c \in Nat
        BY PmuAssumption, Counters DEF Ctrs
      <3> QED
        BY <3>1, <3>2
    <2>2. \A c \in hws : c \in HwCtrs => c \in Startable(hws)
      BY Counters DEF Startable
    <2> QED
      BY <1>1, <1>2, <2>1, <2>2 DEF StopHw
  <1>8. /\ fw' \in [0 .. FwMax - 1 -> FwState]
        /\ \A code \in 0 .. FwMax - 1 :
             /\ fw'[code].count = fw[code].count
             /\ IF code \in codes THEN fw'[code].started = FALSE ELSE fw'[code] = fw[code]
    BY <1>1, <1>2 DEF FwState
  <1>9. CASE ~reset
    <2>1. active' = active /\ sel' = sel
      BY <1>1, <1>3, <1>9
    <2>2. /\ use' \in [Ctrs -> Use]
          /\ \A c \in Ctrs :
               /\ use'[c].grants = use[c].grants /\ use'[c].alone = use[c].alone /\ use'[c].count = use[c].count
               /\ IF c \in valid THEN use'[c].run = FALSE ELSE use'[c] = use[c]
      BY <1>1, <1>2, <1>9 DEF Use
    <2>3. Recounts
      BY <1>1, <1>3, <1>7, <1>8, <2>1, <2>2 DEF Recounts
    <2>4. \A code \in 0 .. FwMax - 1 : Users(code) = {} /\ ~fw[code].started => ~fw'[code].started
      BY <1>8
    <2>5. ASSUME NEW c \in FwCtrs, NEW k \in 0 .. FwMax - 1, Users(k) = {c}
          PROVE  /\ fw[k].started = use[c].run => fw'[k].started = use'[c].run
                 /\ (use[c].count # None => fw[k].count = use[c].count) /\ fw[k].started = use[c].run =>
                      (use'[c].count # None => fw'[k].count = use'[c].count)
      <3>1. c \in Ctrs /\ (k \in codes <=> c \in valid)
        BY <1>5, <2>5, Counters
      <3> QED
        BY <1>8, <2>2, <3>1
    <2> QED
      BY <2>3, <2>4, <2>5, RecountKeeps
  <1>10. CASE reset
    <2>1. Free \in Use
      BY DEF Free, Use
    <2>2. /\ use' \in [Ctrs -> Use]
          /\ \A c \in Ctrs : use'[c] = IF c \in valid THEN Free ELSE use[c]
      BY <1>1, <1>2, <1>10, <2>1
    <2>3. /\ active' \in [Ctrs -> Nat \cup {None}]
          /\ \A c \in Ctrs : active'[c] = IF c \in valid THEN None ELSE active[c]
          /\ sel' \in [HwCtrs -> (Nat \X Nat) \cup {None}]
          /\ \A c \in HwCtrs : sel'[c] = IF c \in valid THEN None ELSE sel[c]
      BY <1>1, <1>3, <1>10
    <2>4. PmuTypeOK'
      BY <1>1, <1>3, <1>7, <1>8, <2>2, <2>3 DEF PmuTypeOK, Use, FwState
    <2>5. GrantInv'
      <3>1. \A c \in HwCtrs \cup FwCtrs : use'[c].grants = IF active'[c] = None THEN 0 ELSE 1
        BY <2>2, <2>3, Counters DEF PmuInv, GrantInv, Free
      <3>2. \A c \in Ctrs : active'[c] # None => active'[c] = active[c]
        BY <2>3
      <3>3. ASSUME NEW c \in HwCtrs
            PROVE  IF active'[c] = None THEN "inhibit" \in feat => c \in inhibit' \cup stray.ctrs
                                        ELSE sel'[c] # None /\ sel'[c][1] = active'[c]
        BY <1>6, <1>7, <2>3, Counters DEF PmuInv, GrantInv
      <3> QED
        BY <1>1, <3>1, <3>2, <3>3, Counters DEF PmuInv, GrantInv
    <2>6. \A code : Users(code)' = Users(code) \ valid
      BY <2>3, Counters DEF Users
    <2>7. \A code \in 0 .. FwMax - 1 : Tracked(code, TRUE)' <=> Tracked(code, TRUE)
      BY <1>1 DEF Tracked
    <2>8. \A code \in 0 .. FwMax - 1 : Tracked(code, TRUE)' /\ Users(code)' = {} => ~fw'[code].started
      <3> SUFFICES ASSUME NEW code \in 0 .. FwMax - 1, Tracked(code, TRUE)', Users(code)' = {}
                   PROVE  ~fw'[code].started
        OBVIOUS
      <3>1. CASE Users(code) = {}
        <4>1. ~fw[code].started
          BY <2>7, <3>1 DEF PmuInv, CountInv
        <4> QED
          BY <1>8, <4>1
      <3>2. CASE Users(code) # {}
        BY <1>5, <1>8, <2>6, <3>2
      <3> QED
        BY <3>1, <3>2
    <2>9. ASSUME NEW c \in FwCtrs, use'[c].alone PROVE Counts(c, TRUE)'
      <3>1. c \in Ctrs /\ c \notin valid /\ use'[c] = use[c] /\ use[c].alone /\ active'[c] = active[c]
        BY <2>2, <2>3, <2>9, Counters DEF Free
      <3>2. Counts(c, TRUE)
        BY <3>1 DEF PmuInv, CountInv
      <3>3. PICK code : code = Code(active[c])
        OBVIOUS
      <3>4. Users(code) = {c} /\ Users(code)' = {c}
        BY <2>6, <3>1, <3>2, <3>3 DEF Counts
      <3>5. code \in 0 .. FwMax - 1 => fw'[code] = fw[code]
        BY <1>5, <1>8, <3>1, <3>4
      <3>6. Tracked(code, TRUE)' => code \in 0 .. FwMax - 1 /\ Tracked(code, TRUE)
        BY <2>7 DEF Tracked
      <3>7. Tracked(code, TRUE)' =>
              /\ fw'[code].started = use'[c].run
              /\ use'[c].count # None => fw'[code].count = use'[c].count
        BY <3>1, <3>2, <3>3, <3>5, <3>6 DEF Counts
      <3> QED
        BY <3>1, <3>2, <3>3, <3>4, <3>7 DEF Counts
    <2>10. CountInv(TRUE)'
      BY <2>8, <2>9 DEF CountInv
    <2> QED
      BY <2>4, <2>5, <2>10 DEF PmuInv
  <1> QED
    BY <1>9, <1>10

(* What the searches of pmu_ctr_find_fw and pmu_ctr_find_hw give.          *)
LEMMA FindFwIs ==
  ASSUME NEW base, NEW ctrs, NEW c, c = FindFw(base, ctrs), c # None
  PROVE  c \in FwCtrs /\ active[c] = None
  <1> DEFINE free == {d \in FwCtrs : d \in ctrs /\ base <= d /\ active[d] = None}
  <1>1. free # {} /\ c = Min(free)
    BY DEF FindFw
  <1>2. free \in SUBSET Nat
    BY PmuAssumption DEF FwCtrs, Total
  <1> QED
    BY <1>1, <1>2, MinIn

LEMMA EntryIs ==
  ASSUME PmuTypeOK, NEW e, NEW data
  PROVE  Entry(e, data) \subseteq HwCtrs
  <1> DEFINE found == {k \in DOMAIN map : map[k].start <= e /\ e <= map[k].end /\ (e = RawIdx => map[k].select = data)}
  <1>1. Entry(e, data) = IF found = {} THEN {} ELSE map[Min(found)].ctrs \ Fixed
    BY DEF Entry
  <1>2. map \in Seq(HwEvent) /\ found \in SUBSET DOMAIN map /\ found \in SUBSET Nat
    BY DEF PmuTypeOK
  <1> HIDE DEF found
  <1>3. ASSUME found # {} PROVE map[Min(found)] \in HwEvent
    <2>1. Min(found) \in DOMAIN map
      BY <1>2, <1>3, MinIn
    <2> QED
      BY <1>2, <2>1
  <1>4. ASSUME found # {} PROVE map[Min(found)].ctrs \subseteq 0 .. NumHw
    BY <1>3, <1>4 DEF HwEvent
  <1>5. (0 .. NumHw) \ Fixed \subseteq HwCtrs
    BY PmuAssumption, Counters
  <1> QED
    BY <1>1, <1>4, <1>5

LEMMA FindHwIs ==
  ASSUME PmuTypeOK, NEW base, NEW ctrs, NEW e, NEW data, NEW c, c = FindHw(base, ctrs, e, data), c # None
  PROVE  \/ c \in Ctrs \ (HwCtrs \cup FwCtrs)
         \/ c \in HwCtrs /\ active[c] = None
  <1>1. FixedCtr(e) # None => FixedCtr(e) \in Ctrs \ (HwCtrs \cup FwCtrs)
    <2>1. FixedCtr(e) \in {0, 2, None}
      BY DEF FixedCtr
    <2> QED
      BY <2>1, Counters DEF Fixed
  <1>2. FreeHw(base, ctrs, e, data) \subseteq HwCtrs /\ \A d \in FreeHw(base, ctrs, e, data) : active[d] = None
    BY EntryIs DEF FreeHw
  <1>3. FreeHw(base, ctrs, e, data) # {} => Max(FreeHw(base, ctrs, e, data)) \in FreeHw(base, ctrs, e, data)
    <2>1. NumHw \in Nat /\ FreeHw(base, ctrs, e, data) \in SUBSET (0 .. NumHw)
      BY <1>2, PmuAssumption DEF HwCtrs
    <2> QED
      BY <2>1, MaxIn
  <1> QED
    BY <1>1, <1>2, <1>3 DEF FindHw

LEMMA GrantOnce ==
  /\ Min({2, 0 + 1}) = 1
  /\ \A n \in Nat : Min({2, n + 1}) \in Nat
  <1>1. Min({2, 0 + 1}) = 1
    BY DEF Min
  <1>2. \A n \in Nat : Min({2, n + 1}) \in Nat
    <2> TAKE n \in Nat
    <2>1. {2, n + 1} \in SUBSET Nat /\ {2, n + 1} # {}
      OBVIOUS
    <2>2. Min({2, n + 1}) \in {2, n + 1}
      BY <2>1, MinIn
    <2> QED
      BY <2>2
  <1> QED
    BY <1>1, <1>2

(* A counter is given out: for a firmware event, ...                       *)
LEMMA MatchFwKeeps ==
  ASSUME PmuTypeOK, PmuInv(TRUE), NEW base, NEW ctrs, NEW e \in Nat, Type(e) = Fw, NEW data,
         NEW clear \in BOOLEAN, NEW start \in BOOLEAN, CfgMatch(base, ctrs, e, data, clear, start)
  PROVE  PmuTypeOK' /\ PmuInv(TRUE)'
  <1>1. PICK k : k = Code(e)
    OBVIOUS
  <1>2. PICK c : c = FindFw(base, ctrs) /\ c # None
    BY DEF CfgMatch, Find
  <1>3. c \in FwCtrs /\ c \in Ctrs /\ c \notin HwCtrs /\ active[c] = None /\ c = Find(base, ctrs, e, data) /\ e # None
    BY <1>2, FindFwIs, Counters, PmuAssumption DEF Find
  <1>4. /\ UNCHANGED <<feat, map, added, again, sel>>
        /\ active' = IF Lost(e) THEN active ELSE [active EXCEPT ![c] = e]
        /\ Setup(c, e, clear, start)
        /\ use' = IF Lost(e) THEN use
                  ELSE [d \in Ctrs |->
                    IF d = c THEN Granted(use[c], e, clear, start)
                    ELSE IF d \in Users(k) THEN [use[d] EXCEPT !.alone = FALSE] ELSE use[d]]
        /\ Astray(IF Lost(e) THEN {k} ELSE {}, {})
    BY <1>1, <1>3 DEF CfgMatch, bootVars
  <1>5. fw \in [0 .. FwMax - 1 -> FwState] /\ use \in [Ctrs -> Use] /\ inhibit \subseteq 0 .. NumHw
    BY DEF PmuTypeOK, FwState, Use
  <1>6. active \in [Ctrs -> Nat \cup {None}]
    BY DEF PmuTypeOK
  <1>7. /\ stray' \in [codes : SUBSET (0 .. FwMax - 1), ctrs : SUBSET HwCtrs]
        /\ stray.codes \subseteq stray'.codes /\ stray'.ctrs = stray.ctrs
        /\ Lost(e) /\ k \in 0 .. FwMax - 1 => k \in stray'.codes
        /\ ~Lost(e) => stray' = stray
    <2>1. CASE Lost(e)
      <3>1. Astray({k}, {})
        BY <1>4, <2>1
      <3>2. /\ stray' \in [codes : SUBSET (0 .. FwMax - 1), ctrs : SUBSET HwCtrs]
            /\ stray.codes \subseteq stray'.codes /\ stray'.ctrs = stray.ctrs \cup {}
            /\ \A code \in {k} : code \in 0 .. FwMax - 1 => code \in stray'.codes
        BY <3>1, AstrayIs
      <3> QED
        BY <2>1, <3>2
    <2>2. CASE ~Lost(e)
      <3>1. Astray({}, {})
        BY <1>4, <2>2
      <3>2. stray' \in [codes : SUBSET (0 .. FwMax - 1), ctrs : SUBSET HwCtrs] /\ stray' = stray
        BY <3>1, AstrayIs
      <3> QED
        BY <2>2, <3>2
    <2> QED
      BY <2>1, <2>2
  <1>8. /\ fw' \in [0 .. FwMax - 1 -> FwState]
        /\ \A j \in 0 .. FwMax - 1 : j # k => fw'[j] = fw[j]
        /\ k \in 0 .. FwMax - 1 =>
             /\ fw'[k].started = (start \/ fw[k].started)
             /\ fw'[k].count = IF clear THEN 0 ELSE fw[k].count
        /\ inhibit' = inhibit
    <2>1. Type(e) # Hw
      BY DEF Hw, Fw
    <2>2. /\ fw' \in [0 .. FwMax - 1 -> FwState]
          /\ \A j \in 0 .. FwMax - 1 : Type(e) # Fw \/ j # Code(e) => fw'[j] = fw[j]
          /\ Type(e) = Fw /\ Code(e) \in 0 .. FwMax - 1 =>
               /\ fw'[Code(e)].started = (start \/ fw[Code(e)].started)
               /\ fw'[Code(e)].count = IF clear THEN 0 ELSE fw[Code(e)].count
          /\ inhibit' = IF Type(e) = Hw /\ start THEN StartHw({c}) ELSE inhibit
      BY <1>4, SetupIs
    <2> QED
      BY <1>1, <2>1, <2>2
  <1>9. ASSUME Lost(e) PROVE PmuTypeOK' /\ PmuInv(TRUE)'
    <2>1. active' = active /\ use' = use
      BY <1>4, <1>9
    <2>2. Recounts
      BY <1>4, <1>5, <1>7, <1>8, <2>1 DEF Recounts
    <2>3. \A j \in 0 .. FwMax - 1 : j \notin stray'.codes => fw'[j] = fw[j]
      BY <1>7, <1>8, <1>9
    <2> QED
      BY <2>1, <2>2, <2>3, RecountKeeps
  <1> SUFFICES ASSUME ~Lost(e) PROVE PmuTypeOK' /\ PmuInv(TRUE)'
    BY <1>9
  <1>10. use[c].grants = 0 /\ Min({2, use[c].grants + 1}) = 1
    BY <1>3, GrantOnce DEF PmuInv, GrantInv
  <1>11. /\ use' \in [Ctrs -> Use]
         /\ use'[c].grants = 1 /\ use'[c].run = start /\ use'[c].count = IF clear THEN 0 ELSE None
         /\ use'[c].alone = (Users(k) = {})
         /\ \A d \in Ctrs : d # c =>
              /\ use'[d].grants = use[d].grants
              /\ IF d \in Users(k) THEN use'[d].alone = FALSE ELSE use'[d] = use[d]
    <2> DEFINE new == [grants |-> 1, run |-> start, count |-> IF clear THEN 0 ELSE None, alone |-> Users(k) = {}]
    <2>1. new \in Use
      BY PmuAssumption DEF Use
    <2>2. Granted(use[c], e, clear, start) = new
      BY <1>1, <1>10 DEF Granted
    <2>3. use' = [d \in Ctrs |-> IF d = c THEN new ELSE IF d \in Users(k) THEN [use[d] EXCEPT !.alone = FALSE] ELSE use[d]]
      BY <1>4, <2>2
    <2>4. \A d \in Ctrs : /\ [use[d] EXCEPT !.alone = FALSE] \in Use
                          /\ [use[d] EXCEPT !.alone = FALSE].grants = use[d].grants
                          /\ [use[d] EXCEPT !.alone = FALSE].alone = FALSE
      BY <1>5 DEF Use
    <2>5. /\ new.grants = 1 /\ new.run = start /\ new.count = IF clear THEN 0 ELSE None
          /\ new.alone = (Users(k) = {})
      OBVIOUS
    <2> HIDE DEF new
    <2> QED
      BY <1>3, <1>5, <2>1, <2>3, <2>4, <2>5
  <1>12. /\ active' \in [Ctrs -> Nat \cup {None}]
         /\ active'[c] = e /\ \A d \in Ctrs : d # c => active'[d] = active[d]
    BY <1>3, <1>4, <1>6
  <1>13. PmuTypeOK'
    BY <1>4, <1>7, <1>8, <1>11, <1>12 DEF PmuTypeOK, Use, FwState
  <1>14. GrantInv'
    <2>1. \A d \in HwCtrs \cup FwCtrs : use'[d].grants = IF active'[d] = None THEN 0 ELSE 1
      BY <1>3, <1>11, <1>12, Counters DEF PmuInv, GrantInv
    <2>2. \A d \in Ctrs : active'[d] # None => (Type(active'[d]) = Fw <=> d \in FwCtrs)
      BY <1>3, <1>12 DEF PmuInv, GrantInv
    <2>3. \A d \in HwCtrs : d \in Ctrs /\ active'[d] = active[d]
      BY <1>3, <1>12, Counters
    <2> QED
      BY <1>4, <1>7, <1>8, <2>1, <2>2, <2>3 DEF PmuInv, GrantInv
  <1>15. \A j : Users(j)' = Users(j) \cup (IF j = k THEN {c} ELSE {})
    BY <1>1, <1>3, <1>12, Counters DEF Users
  <1>16. \A j : Tracked(j, TRUE)' => Tracked(j, TRUE) /\ j \in 0 .. FwMax - 1
    BY <1>4, <1>7 DEF Tracked
  <1>17. ASSUME NEW j \in 0 .. FwMax - 1, Tracked(j, TRUE)', Users(j)' = {} PROVE ~fw'[j].started
    <2>1. j # k /\ Users(j) = {}
      BY <1>15, <1>17
    <2>2. ~fw[j].started
      BY <1>16, <1>17, <2>1 DEF PmuInv, CountInv
    <2> QED
      BY <1>8, <2>1, <2>2
  <1>18. ASSUME NEW d \in FwCtrs, use'[d].alone PROVE Counts(d, TRUE)'
    <2>1. CASE d = c
      <3>1. Users(k) = {} /\ Users(k)' = {c} /\ Code(active'[c]) = k /\ active'[c] # None
        BY <1>1, <1>3, <1>11, <1>12, <1>15, <1>18, <2>1
      <3>2. Tracked(k, TRUE)' => k \in 0 .. FwMax - 1 /\ ~fw[k].started
        BY <1>16, <3>1 DEF PmuInv, CountInv
      <3>3. Tracked(k, TRUE)' => fw'[k].started = start
        BY <1>8, <3>2
      <3>4. Tracked(k, TRUE)' => (use'[c].count # None => fw'[k].count = use'[c].count)
        BY <1>8, <1>11, <3>2
      <3> QED
        BY <1>11, <2>1, <3>1, <3>3, <3>4 DEF Counts
    <2>2. CASE d # c
      <3>1. /\ d \in Ctrs /\ d \notin Users(k) /\ use'[d] = use[d] /\ use[d].alone
            /\ active'[d] = active[d]
        BY <1>11, <1>12, <1>18, <2>2, Counters
      <3>2. Counts(d, TRUE)
        BY <3>1 DEF PmuInv, CountInv
      <3>3. PICK code : code = Code(active[d])
        OBVIOUS
      <3>4. Users(code) = {d} /\ code # k /\ Users(code)' = {d}
        BY <1>15, <3>1, <3>2, <3>3 DEF Counts
      <3>5. Tracked(code, TRUE)' =>
              /\ fw'[code].started = use'[d].run
              /\ use'[d].count # None => fw'[code].count = use'[d].count
        BY <1>8, <1>16, <3>1, <3>2, <3>3, <3>4 DEF Counts
      <3> QED
        BY <3>1, <3>2, <3>3, <3>4, <3>5 DEF Counts
    <2> QED
      BY <2>1, <2>2
  <1>19. CountInv(TRUE)'
    BY <1>17, <1>18 DEF CountInv
  <1> QED
    BY <1>13, <1>14, <1>19 DEF PmuInv

(* ... and for an event of the hardware.                                   *)
LEMMA MatchHwKeeps ==
  ASSUME PmuTypeOK, PmuInv(TRUE), NEW base, NEW ctrs, NEW e \in Nat, Type(e) # Fw, NEW data \in Nat,
         NEW clear \in BOOLEAN, NEW start \in BOOLEAN, CfgMatch(base, ctrs, e, data, clear, start)
  PROVE  PmuTypeOK' /\ PmuInv(TRUE)'
  <1>1. PICK c : c = FindHw(base, ctrs, e, data) /\ c # None /\ c = Find(base, ctrs, e, data)
    BY DEF CfgMatch, Find
  <1>2. \/ c \in Ctrs \ (HwCtrs \cup FwCtrs)
        \/ c \in HwCtrs /\ active[c] = None
    BY <1>1, FindHwIs
  <1>3. c \in Ctrs /\ c \notin FwCtrs /\ e # None
    BY <1>2, Counters, PmuAssumption
  <1>4. ~Lost(e)
    BY DEF Lost
  <1>5. /\ UNCHANGED <<feat, map, added, again, fw, stray>>
        /\ active' = [active EXCEPT ![c] = e]
        /\ sel' = IF c \in HwCtrs THEN [sel EXCEPT ![c] = <<e, data>>] ELSE sel
        /\ inhibit' = IF Type(e) = Hw /\ start THEN StartHw({c}) ELSE inhibit
        /\ use' = [d \in Ctrs |-> IF d = c THEN [Free EXCEPT !.grants = Min({2, use[c].grants + 1})] ELSE use[d]]
    <2>1. Setup(c, e, clear, start) /\ Astray({}, {})
      BY <1>1, <1>4 DEF CfgMatch
    <2>2. fw' = fw /\ inhibit' = IF Type(e) = Hw /\ start THEN StartHw({c}) ELSE inhibit
      BY <2>1, SetupIs
    <2>3. stray' = stray
      BY <2>1, AstrayIs
    <2>4. use' = [d \in Ctrs |-> IF d = c THEN Granted(use[c], e, clear, start) ELSE use[d]]
      BY <1>1, <1>4 DEF CfgMatch
    <2>5. Granted(use[c], e, clear, start) = [Free EXCEPT !.grants = Min({2, use[c].grants + 1})]
      BY DEF Granted
    <2> QED
      BY <1>1, <1>4, <2>2, <2>3, <2>4, <2>5 DEF CfgMatch, bootVars
  <1>6. use \in [Ctrs -> Use] /\ inhibit \subseteq 0 .. NumHw
    BY DEF PmuTypeOK, Use
  <1>7. /\ active \in [Ctrs -> Nat \cup {None}]
        /\ sel \in [HwCtrs -> (Nat \X Nat) \cup {None}]
    BY DEF PmuTypeOK
  <1>8. PICK n \in Nat : n = Min({2, use[c].grants + 1}) /\ (c \in HwCtrs => n = 1)
    <2>1. use[c].grants \in Nat
      BY <1>3, <1>6 DEF Use
    <2>2. c \in HwCtrs => use[c].grants = 0
      BY <1>2 DEF PmuInv, GrantInv
    <2> QED
      BY <2>1, <2>2, GrantOnce
  <1>9. /\ use' \in [Ctrs -> Use] /\ use'[c].grants = n /\ use'[c].alone = FALSE
        /\ \A d \in Ctrs : d # c => use'[d] = use[d]
    BY <1>3, <1>5, <1>6, <1>8 DEF Use, Free
  <1>10. /\ active' \in [Ctrs -> Nat \cup {None}]
         /\ active'[c] = e /\ \A d \in Ctrs : d # c => active'[d] = active[d]
    BY <1>3, <1>5, <1>7
  <1>11. /\ sel' \in [HwCtrs -> (Nat \X Nat) \cup {None}]
         /\ c \in HwCtrs => sel'[c] = <<e, data>>
         /\ \A d \in HwCtrs : d # c => sel'[d] = sel[d]
    <2>1. <<e, data>> \in Nat \X Nat
      BY <1>3
    <2> QED
      BY <1>5, <1>7, <2>1
  <1>12. inhibit' \subseteq 0 .. NumHw /\ \A d \in inhibit : d # c => d \in inhibit'
    BY <1>5, <1>6, StartHwKeeps
  <1>13. PmuTypeOK'
    BY <1>5, <1>9, <1>10, <1>11, <1>12 DEF PmuTypeOK, Use
  <1>14. GrantInv'
    <2>1. \A d \in HwCtrs \cup FwCtrs : use'[d].grants = IF active'[d] = None THEN 0 ELSE 1
      BY <1>3, <1>8, <1>9, <1>10, Counters DEF PmuInv, GrantInv
    <2>2. \A d \in Ctrs : active'[d] # None => (Type(active'[d]) = Fw <=> d \in FwCtrs)
      BY <1>3, <1>10 DEF PmuInv, GrantInv
    <2>3. \A d \in FwCtrs : active'[d] = active[d]
      BY <1>3, <1>10, Counters
    <2>4. ASSUME NEW d \in HwCtrs
          PROVE  IF active'[d] = None THEN "inhibit" \in feat => d \in inhibit' \cup stray.ctrs
                                      ELSE sel'[d] # None /\ sel'[d][1] = active'[d]
      <3>1. CASE d = c
        <4>1. <<e, data>> # None /\ <<e, data>>[1] = e
          BY <1>3, PmuAssumption
        <4> QED
          BY <1>3, <1>10, <1>11, <3>1, <4>1
      <3>2. CASE d # c
        BY <1>10, <1>11, <1>12, <3>2, Counters DEF PmuInv, GrantInv
      <3> QED
        BY <3>1, <3>2
    <2> QED
      BY <1>5, <2>1, <2>2, <2>3, <2>4 DEF PmuInv, GrantInv
  <1>15. \A j : Users(j)' = Users(j) /\ (Tracked(j, TRUE)' <=> Tracked(j, TRUE))
    BY <1>3, <1>5, <1>10, Counters DEF Users, Tracked
  <1>16. \A d \in FwCtrs : use'[d] = use[d]
    BY <1>3, <1>9, Counters
  <1>17. CountInv(TRUE)'
    <2>1. \A j \in 0 .. FwMax - 1 : Tracked(j, TRUE)' /\ Users(j)' = {} => ~fw'[j].started
      BY <1>5, <1>15 DEF PmuInv, CountInv
    <2>2. ASSUME NEW d \in FwCtrs, use'[d].alone PROVE Counts(d, TRUE)'
      <3>1. active'[d] = active[d]
        BY <1>3, <1>10, Counters
      <3>2. Counts(d, TRUE)
        BY <1>16, <2>2 DEF PmuInv, CountInv
      <3> QED
        BY <1>5, <1>15, <1>16, <3>1, <3>2 DEF Counts
    <2> QED
      BY <2>1, <2>2 DEF CountInv
  <1> QED
    BY <1>13, <1>14, <1>17 DEF PmuInv

(* The hart stops and starts again.                                        *)
LEMMA ExitKeeps ==
  ASSUME PmuTypeOK, PmuInv(TRUE), PmuExit
  PROVE  PmuTypeOK' /\ PmuInv(FALSE)'
  <1>1. /\ UNCHANGED <<feat, map, added, sel, again>>
        /\ inhibit' = IF "inhibit" \in feat THEN HwCtrs ELSE inhibit
        /\ active' = [c \in Ctrs |-> IF c >= 3 THEN None ELSE active[c]]
        /\ fw' = [code \in DOMAIN fw |-> IF code < FwCtrMax THEN NoEvents[code] ELSE fw[code]]
        /\ use' = [c \in Ctrs |-> Free]
        /\ stray' = [codes |-> {code \in stray.codes : code >= FwCtrMax}, ctrs |-> {}]
    BY DEF PmuExit, ResetCounts, bootVars
  <1>2. fw \in [0 .. FwMax - 1 -> FwState] /\ inhibit \subseteq 0 .. NumHw
    BY DEF PmuTypeOK, FwState
  <1>3. active \in [Ctrs -> Nat \cup {None}]
    BY DEF PmuTypeOK
  <1>4. Free \in Use /\ HwCtrs \subseteq 0 .. NumHw /\ \A code \in 0 .. FwMax - 1 : NoEvents[code] \in FwState /\ ~NoEvents[code].started
    BY PmuAssumption DEF Free, Use, HwCtrs, NoEvents, FwState
  <1>5. /\ fw' \in [0 .. FwMax - 1 -> FwState] /\ use' \in [Ctrs -> Use] /\ inhibit' \subseteq 0 .. NumHw
        /\ active' \in [Ctrs -> Nat \cup {None}]
        /\ \A c \in Ctrs : active'[c] = IF c >= 3 THEN None ELSE active[c]
        /\ \A code \in 0 .. FwMax - 1 : code < FwCtrMax => ~fw'[code].started
    BY <1>1, <1>2, <1>3, <1>4
  <1>6. PmuTypeOK'
    <2>1. stray' \in [codes : SUBSET (0 .. FwMax - 1), ctrs : SUBSET HwCtrs]
      BY <1>1 DEF PmuTypeOK
    <2> QED
      BY <1>1, <1>5, <2>1 DEF PmuTypeOK, Use, FwState
  <1>7. \A c \in HwCtrs \cup FwCtrs : c \in Ctrs /\ active'[c] = None /\ use'[c] = Free
    BY <1>1, <1>5, Counters
  <1>8. GrantInv'
    <2>1. \A c \in Ctrs : active'[c] # None => (Type(active'[c]) = Fw <=> c \in FwCtrs)
      BY <1>5 DEF PmuInv, GrantInv
    <2>2. \A c \in HwCtrs : "inhibit" \in feat' => c \in inhibit'
      BY <1>1
    <2> QED
      BY <1>7, <2>1, <2>2 DEF GrantInv, Free
  <1>9. CountInv(FALSE)'
    <2>1. \A code \in 0 .. FwMax - 1 : Tracked(code, FALSE)' => ~fw'[code].started
      BY <1>5 DEF Tracked
    <2>2. \A c \in FwCtrs : ~use'[c].alone
      BY <1>7 DEF Free
    <2> QED
      BY <2>1, <2>2 DEF CountInv
  <1> QED
    BY <1>1, <1>5, <1>6, <1>8, <1>9 DEF PmuInv

LEMMA WarmKeeps ==
  ASSUME PmuTypeOK, PmuInv(FALSE), PmuWarmInit
  PROVE  PmuTypeOK' /\ PmuInv(TRUE)'
  <1>1. /\ UNCHANGED <<feat, map, added, sel, inhibit, use>>
        /\ active' = FixedEvent /\ again' = TRUE
        /\ fw' = [code \in DOMAIN fw |-> IF code < FwCtrMax THEN NoEvents[code] ELSE fw[code]]
        /\ stray' = [codes |-> {code \in stray.codes : code >= FwCtrMax}, ctrs |-> {}]
    BY DEF PmuWarmInit, ResetCounts, bootVars
  <1>2. fw \in [0 .. FwMax - 1 -> FwState]
    BY DEF PmuTypeOK, FwState
  <1>3. \A code \in 0 .. FwMax - 1 : NoEvents[code] \in FwState /\ ~NoEvents[code].started
    BY PmuAssumption DEF NoEvents, FwState
  <1>4. /\ fw' \in [0 .. FwMax - 1 -> FwState]
        /\ \A code \in 0 .. FwMax - 1 : code < FwCtrMax => ~fw'[code].started
    BY <1>1, <1>2, <1>3
  <1>5. /\ active' \in [Ctrs -> Nat \cup {None}]
        /\ \A c \in HwCtrs \cup FwCtrs : c \in Ctrs /\ active'[c] = None /\ active[c] = None
        /\ \A c \in Ctrs : active'[c] \in {Cycles, Instructions, None}
    <2>1. FixedEvent \in [Ctrs -> {Cycles, Instructions, None}] /\ \A c \in Ctrs : c >= 3 => FixedEvent[c] = None
      BY DEF FixedEvent
    <2>2. {Cycles, Instructions, None} \subseteq Nat \cup {None}
      BY FixedEvents
    <2>3. \A c \in HwCtrs \cup FwCtrs : c \in Ctrs /\ c >= 3
      BY Counters
    <2> QED
      BY <1>1, <2>1, <2>2, <2>3 DEF PmuInv
  <1>6. PmuTypeOK'
    <2>1. stray' \in [codes : SUBSET (0 .. FwMax - 1), ctrs : SUBSET HwCtrs]
      BY <1>1 DEF PmuTypeOK
    <2> QED
      BY <1>1, <1>4, <1>5, <2>1 DEF PmuTypeOK, FwState
  <1>7. GrantInv'
    <2>1. Type(Cycles) # Fw /\ Type(Instructions) # Fw
      BY FixedEvents
    <2>2. \A c \in HwCtrs \cup FwCtrs : use'[c].grants = 0
      BY <1>1, <1>5 DEF PmuInv, GrantInv
    <2>3. \A c \in HwCtrs : "inhibit" \in feat' => c \in inhibit'
      BY <1>1, <1>5 DEF PmuInv, GrantInv
    <2>4. \A c \in Ctrs : active'[c] # None => (Type(active'[c]) = Fw <=> c \in FwCtrs)
      BY <1>5, <2>1
    <2> QED
      BY <1>5, <2>2, <2>3, <2>4 DEF GrantInv
  <1>8. \A c \in FwCtrs : ~use[c].alone
    BY <1>5 DEF PmuInv, CountInv, Counts
  <1>9. CountInv(TRUE)'
    BY <1>1, <1>4, <1>8 DEF CountInv, Tracked
  <1> QED
    BY <1>6, <1>7, <1>9 DEF PmuInv

LEMMA PmuInvUp ==
  /\ up = TRUE => (PmuInv(up) <=> PmuInv(TRUE))
  /\ up = FALSE => (PmuInv(up) <=> PmuInv(FALSE))
  /\ up' = TRUE => (PmuInv(up)' <=> PmuInv(TRUE)')
  /\ up' = FALSE => (PmuInv(up)' <=> PmuInv(FALSE)')
  <1>1. up = TRUE => (PmuInv(up) <=> PmuInv(TRUE))
    BY DEF PmuInv, CountInv, Counts, Tracked
  <1>2. up = FALSE => (PmuInv(up) <=> PmuInv(FALSE))
    BY DEF PmuInv, CountInv, Counts, Tracked
  <1>3. up' = TRUE => (PmuInv(up)' <=> PmuInv(TRUE)')
    BY DEF PmuInv, CountInv, Counts, Tracked
  <1>4. up' = FALSE => (PmuInv(up)' <=> PmuInv(FALSE)')
    BY DEF PmuInv, CountInv, Counts, Tracked
  <1> QED
    BY <1>1, <1>2, <1>3, <1>4

LEMMA PmuSameKeeps ==
  ASSUME PmuTypeOK, PmuInv(up), UNCHANGED <<feat, active, inhibit, sel, fw, use, stray, again, up>>
  PROVE  PmuInv(up)'
  <1>1. GrantInv'
    BY DEF PmuInv, GrantInv
  <1>2. \A code : Users(code)' = Users(code) /\ (Tracked(code, up)' <=> Tracked(code, up))
    BY DEF Users, Tracked
  <1>3. \A c : Counts(c, up)' <=> Counts(c, up)
    BY <1>2 DEF Counts
  <1>4. CountInv(up)'
    BY <1>2, <1>3 DEF PmuInv, CountInv
  <1> QED
    BY <1>1, <1>4 DEF PmuInv

(* A call of S-mode.                                                       *)
LEMMA CallKeeps ==
  ASSUME PmuTypeOK, PmuInv(TRUE), PmuCall
  PROVE  PmuTypeOK' /\ PmuInv(TRUE)'
  <1>1. PICK r \in Requests :
          \/ \E e \in PmuEvents, clear, start \in BOOLEAN :
               \/ CfgMatch(r[1], r[2], e[1], e[2], clear, start)
               \/ CfgSkip(r[1], r[2], e[1], clear, start)
          \/ \E ival \in {None, 0, 1} : CtrStart(r[1], r[2], ival)
          \/ \E reset \in BOOLEAN : CtrStop(r[1], r[2], reset)
    BY DEF PmuCall
  <1>2. Fls(r[2]) < Total
    BY <1>1 DEF CfgMatch, CfgSkip, CtrStart, CtrStop
  <1>3. r[1] \in Nat /\ r[2] \subseteq Ctrs
    BY <1>2, RequestIs
  <1>4. ASSUME NEW e \in PmuEvents PROVE e[1] \in Nat /\ e[2] \in Nat
    <2>1. CASE e \in HwEvents
      BY <2>1, PmuAssumption
    <2>2. CASE e \in {<<f, 0>> : f \in FwEvents}
      BY <2>2, PmuAssumption
    <2> QED
      BY <2>1, <2>2 DEF PmuEvents
  <1>5. ASSUME NEW e \in PmuEvents, NEW clear \in BOOLEAN, NEW start \in BOOLEAN,
               CfgMatch(r[1], r[2], e[1], e[2], clear, start)
        PROVE  PmuTypeOK' /\ PmuInv(TRUE)'
    <2>1. CASE Type(e[1]) = Fw
      BY <1>4, <1>5, <2>1, MatchFwKeeps
    <2>2. CASE Type(e[1]) # Fw
      BY <1>4, <1>5, <2>2, MatchHwKeeps
    <2> QED
      BY <2>1, <2>2
  <1>6. ASSUME NEW e \in PmuEvents, NEW clear \in BOOLEAN, NEW start \in BOOLEAN,
               CfgSkip(r[1], r[2], e[1], clear, start)
        PROVE  PmuTypeOK' /\ PmuInv(TRUE)'
    BY <1>3, <1>6, SkipKeeps
  <1>7. ASSUME NEW ival \in {None, 0, 1}, CtrStart(r[1], r[2], ival) PROVE PmuTypeOK' /\ PmuInv(TRUE)'
    BY <1>3, <1>7, StartKeeps
  <1>8. ASSUME NEW reset \in BOOLEAN, CtrStop(r[1], r[2], reset) PROVE PmuTypeOK' /\ PmuInv(TRUE)'
    BY <1>3, <1>8, StopKeeps
  <1> QED
    BY <1>1, <1>5, <1>6, <1>7, <1>8
-----------------------------------------------------------------------------
(* The invariant of the firmware at run time.                              *)
LEMMA TrapInvParts ==
  /\ TrapInv <=> /\ TimerTypeOK /\ TimerInv /\ PmuTypeOK /\ PmuInv(up) /\ CtxOK /\ (~up => ~mtie)
  /\ TrapInv' <=> /\ TimerTypeOK' /\ TimerInv' /\ PmuTypeOK' /\ PmuInv(up)' /\ CtxOK' /\ (~up' => ~mtie')
  BY DEF TrapInv, TypeOK, CtxOK

LEMMA TrapInit ==
  ASSUME Init
  PROVE  TrapInv
  <1>1. PICK w \in Setups : work = w[1] /\ wide = w[2] /\ feat = w[3]
    BY DEF Init
  <1>2. wide \in BOOLEAN /\ feat \in SUBSET {"inhibit", "sscof"}
    BY <1>1, TrapAssumption, PmuAssumption
  <1>3. TimerTypeOK /\ TimerInv /\ mtie = FALSE
    <2>1. Never \in Nat /\ Half \in Nat /\ Half > 1 /\ TimeMax \in Nat
      BY TimerAssumption, NeverIsNat
    <2>2. /\ time = 0 /\ cmp = Never /\ mtie = FALSE /\ stip = FALSE /\ delta = 0
          /\ rd = "no" /\ hi = 0 /\ lo = 0 /\ since = 0 /\ deadline = NoTime
      BY DEF Init, TimerInit
    <2>3. time \in 0 .. TimeMax /\ since \in 0 .. TimeMax /\ cmp \in 0 .. Never /\ delta \in 0 .. Never
      BY <2>1, <2>2
    <2>4. TimerTypeOK
      <3>1. mtie \in BOOLEAN /\ stip \in BOOLEAN
        BY <2>2
      <3>2. hi \in 0 .. Half - 1 /\ lo \in 0 .. Half - 1
        BY <2>1, <2>2
      <3>3. deadline \in 0 .. Never \cup {NoTime}
        BY <2>2
      <3>4. rd \in {"no", "all", "hi", "lo", "check", "done"}
        BY <2>2
      <3> QED
        BY <1>2, <2>3, <3>1, <3>2, <3>3, <3>4 DEF TimerTypeOK
    <2>5. TimerInv
      BY <2>2 DEF TimerInv
    <2> QED
      BY <2>2, <2>4, <2>5
  <1>4. CtxOK
    BY ClearType DEF Init, CtxOK, FrameInv
  <1>5. /\ map = << >> /\ added = 0 /\ active = FixedEvent /\ inhibit = HwCtrs /\ sel = [c \in HwCtrs |-> None]
        /\ fw = NoEvents /\ use = [c \in Ctrs |-> Free] /\ stray = NoStray /\ again = FALSE
    BY DEF Init, PmuInit
  <1>6. FixedEvent \in [Ctrs -> {Cycles, Instructions, None}] /\ \A c \in Ctrs : c >= 3 => FixedEvent[c] = None
    BY DEF FixedEvent
  <1>7. \A c \in HwCtrs \cup FwCtrs : c \in Ctrs /\ active[c] = None /\ use[c] = Free
    BY <1>5, <1>6, Counters
  <1>8. PmuTypeOK
    <2>1. {Cycles, Instructions, None} \subseteq Nat \cup {None}
      BY FixedEvents
    <2>2. NoEvents \in [0 .. FwMax - 1 -> FwState]
      BY PmuAssumption DEF NoEvents, FwState
    <2>3. Free \in Use /\ HwCtrs \subseteq 0 .. NumHw
      BY PmuAssumption DEF Free, Use, HwCtrs
    <2>4. map \in Seq(HwEvent) /\ added \in 0 .. Len(Offered)
      <3>1. Len(Offered) \in Nat
        BY PmuAssumption
      <3> QED
        BY <1>5, <3>1
    <2>5. active \in [Ctrs -> Nat \cup {None}]
      BY <1>5, <1>6, <2>1
    <2>6. use \in [Ctrs -> Use]
      BY <1>5, <2>3
    <2>7. sel \in [HwCtrs -> (Nat \X Nat) \cup {None}]
      BY <1>5
    <2> QED
      BY <1>2, <1>5, <2>2, <2>3, <2>4, <2>5, <2>6, <2>7 DEF PmuTypeOK, Use, FwState, NoStray
  <1>9. GrantInv
    <2>1. Type(Cycles) # Fw /\ Type(Instructions) # Fw
      BY FixedEvents
    <2>2. \A c \in Ctrs : active[c] # None => (Type(active[c]) = Fw <=> c \in FwCtrs)
      BY <1>5, <1>6, <1>7, <2>1
    <2>3. Free.grants = 0
      BY DEF Free
    <2> QED
      BY <1>5, <1>7, <2>2, <2>3 DEF GrantInv
  <1>10. CountInv(TRUE)
    <2>1. \A code \in 0 .. FwMax - 1 : ~fw[code].started
      BY <1>5 DEF NoEvents
    <2>2. \A c \in FwCtrs : ~use[c].alone
      BY <1>7 DEF Free
    <2> QED
      BY <2>1, <2>2 DEF CountInv
  <1>11. up = TRUE
    BY DEF Init
  <1>12. PmuInv(up)
    BY <1>9, <1>10, <1>11, PmuInvUp DEF PmuInv
  <1> QED
    BY <1>3, <1>4, <1>8, <1>11, <1>12, TrapInvParts

(* What a step leaves of each component's invariant.                       *)
TimerKept == TimerTypeOK' /\ TimerInv'
PmuKept == PmuTypeOK' /\ PmuInv(up)'

LEMMA PmuSteps ==
  ASSUME TrapInv
  PROVE  /\ UNCHANGED <<pmuVars, up>> => PmuKept
         /\ PmuAdd /\ UNCHANGED up => PmuKept
         /\ \A code \in 0 .. 5 : up /\ IncrFw(code) /\ UNCHANGED up => PmuKept
         /\ PmuCall => PmuKept
         /\ \A code \in Intruded : Intrude(code) /\ UNCHANGED up => PmuKept
         /\ up /\ PmuExit /\ up' = FALSE => PmuKept
         /\ ~up /\ PmuWarmInit /\ up' = TRUE => PmuKept
  <1>1. up \in BOOLEAN /\ PmuTypeOK /\ PmuInv(up)
    BY TrapInvParts DEF CtxOK
  <1>2. ASSUME UNCHANGED <<pmuVars, up>> PROVE PmuKept
    <2>1. UNCHANGED <<feat, map, added, active, inhibit, sel, fw, use, stray, again, up>>
      BY <1>2 DEF pmuVars
    <2>2. PmuTypeOK'
      BY <1>1, <2>1 DEF PmuTypeOK
    <2> QED
      BY <1>1, <2>1, <2>2, PmuSameKeeps DEF PmuKept
  <1>3. ASSUME PmuAdd, UNCHANGED up PROVE PmuKept
    BY <1>1, <1>3, PmuAddKeeps, PmuSameKeeps DEF PmuKept
  <1>4. up => up = TRUE /\ PmuInv(TRUE)
    BY <1>1, PmuInvUp
  <1>5. ASSUME NEW code \in 0 .. 5, up, IncrFw(code), UNCHANGED up PROVE PmuKept
    <2>1. code \in 0 .. FwMax - 1
      BY TrapAssumption, PmuAssumption DEF SetTimerCode
    <2>2. up' = TRUE
      BY <1>4, <1>5
    <2> QED
      BY <1>1, <1>4, <1>5, <2>1, <2>2, IncrKeeps, PmuInvUp DEF PmuKept
  <1>6. ASSUME PmuCall PROVE PmuKept
    <2>1. up /\ up' = up
      BY <1>6 DEF PmuCall, InHs, Running
    <2> QED
      BY <1>1, <1>4, <1>6, <2>1, CallKeeps, PmuInvUp DEF PmuKept
  <1>7. ASSUME up, PmuExit, up' = FALSE PROVE PmuKept
    BY <1>1, <1>4, <1>7, ExitKeeps, PmuInvUp DEF PmuKept
  <1>8. ASSUME ~up, PmuWarmInit, up' = TRUE PROVE PmuKept
    BY <1>1, <1>8, WarmKeeps, PmuInvUp DEF PmuKept
  <1>9. ASSUME NEW code \in Intruded, Intrude(code), UNCHANGED up PROVE PmuKept
    <2>1. code \in 0 .. FwMax - 1
      BY PmuAssumption
    <2>2. CASE up
      <3>1. PmuTypeOK' /\ PmuInv(TRUE)'
        BY <1>1, <1>4, <1>9, <2>1, <2>2, IntrudeKeeps
      <3> QED
        BY <1>1, <1>9, <2>2, <3>1, PmuInvUp DEF PmuKept
    <2>3. CASE ~up
      <3>1. PmuTypeOK' /\ PmuInv(FALSE)'
        BY <1>1, <1>9, <2>1, <2>3, IntrudeKeeps, PmuInvUp
      <3> QED
        BY <1>1, <1>9, <2>3, <3>1, PmuInvUp DEF PmuKept
    <2> QED
      BY <1>1, <2>2, <2>3
  <1> QED
    BY <1>2, <1>3, <1>5, <1>6, <1>7, <1>8, <1>9

LEMMA TrapNext ==
  ASSUME TrapInv, [Next]_vars
  PROVE  TrapInv'
  <1>1. TimerTypeOK /\ TimerInv /\ PmuTypeOK /\ PmuInv(up) /\ CtxOK /\ up \in BOOLEAN /\ (~up => ~mtie)
    BY TrapInvParts DEF CtxOK
  <1>2. ASSUME TimerKept, PmuKept, CtxOK', ~up' => ~mtie' PROVE TrapInv'
    BY <1>2, TrapInvParts DEF TimerKept, PmuKept
  <1>3. ASSUME UNCHANGED up, up \/ mtie' = mtie PROVE ~up' => ~mtie'
    BY <1>1, <1>3
  <1>4. ASSUME UNCHANGED timerVars PROVE TimerKept /\ mtie' = mtie
    BY <1>1, <1>4, TimerSteps DEF TimerKept, timerVars
  <1>5. UNCHANGED <<ctxVars, up>> => CtxOK'
    BY <1>1, CtxSteps
  <1>6. UNCHANGED <<pmuVars, up>> => PmuKept
    BY PmuSteps
  <1>7. ASSUME UNCHANGED vars PROVE TrapInv'
    BY <1>2, <1>3, <1>4, <1>5, <1>6, <1>7 DEF vars
  <1>8. ASSUME TimerInterrupt PROVE TrapInv'
    <2>1. TimerKept
      BY <1>1, <1>8, TimerSteps DEF TimerInterrupt, TimerKept
    <2> QED
      BY <1>2, <1>3, <1>5, <1>6, <1>8, <2>1 DEF TimerInterrupt, Running
  <1>9. ASSUME NEW d \in Deadlines, SetTimer(d) PROVE TrapInv'
    <2>1. TimerKept
      BY <1>1, <1>9, TimerSteps DEF SetTimer, TimerKept
    <2>2. PmuKept
      BY <1>9, PmuSteps DEF SetTimer, SetTimerCode, InHs, Running
    <2> QED
      BY <1>2, <1>3, <1>5, <1>9, <2>1, <2>2 DEF SetTimer, InHs, Running
  <1>10. ASSUME NEW t \in LoadTraps, EcallTrap(t) PROVE TrapInv'
    <2>1. CtxOK'
      BY <1>1, <1>10, CtxSteps
    <2> QED
      BY <1>2, <1>3, <1>4, <1>6, <1>10, <2>1 DEF EcallTrap
  <1>11. ASSUME PmuCall PROVE TrapInv'
    <2>1. PmuKept
      BY <1>11, PmuSteps
    <2> QED
      BY <1>2, <1>3, <1>4, <1>5, <1>11, <2>1 DEF PmuCall
  <1>12. ASSUME EmulateTime PROVE TrapInv'
    <2>1. TimerKept
      BY <1>1, <1>12, TimerSteps DEF EmulateTime, TimerKept
    <2>2. PmuKept
      BY <1>12, PmuSteps DEF EmulateTime, IllegalInsn, Running
    <2> QED
      BY <1>2, <1>3, <1>5, <1>12, <2>1, <2>2 DEF EmulateTime, Running
  <1>13. ASSUME TimeRead PROVE TrapInv'
    <2>1. TimerKept
      BY <1>1, <1>13, TimerSteps DEF TimeRead, TimerKept
    <2>2. mtie' = mtie
      BY <1>13 DEF TimeRead, Read, ReadAll, ReadHi, ReadLo, ReadCheck, ReadEnd
    <2> QED
      BY <1>2, <1>3, <1>5, <1>6, <1>13, <2>1, <2>2 DEF TimeRead
  <1>14. ASSUME NEW d \in Deltas, EmulateDelta(d) PROVE TrapInv'
    <2>1. TimerKept
      BY <1>1, <1>14, TimerSteps DEF EmulateDelta, TimerKept
    <2>2. PmuKept
      BY <1>14, PmuSteps DEF EmulateDelta, IllegalInsn, InHs, Running
    <2> QED
      BY <1>2, <1>3, <1>5, <1>14, <2>1, <2>2 DEF EmulateDelta, InHs, Running
  <1>15. ASSUME IllegalInsnTrap PROVE TrapInv'
    <2>1. CtxOK'
      BY <1>1, <1>15, CtxSteps
    <2>2. PmuKept
      BY <1>15, PmuSteps DEF IllegalInsnTrap, IllegalInsn, Running
    <2> QED
      BY <1>2, <1>3, <1>4, <1>15, <2>1, <2>2 DEF IllegalInsnTrap
  <1>16. ASSUME Misaligned PROVE TrapInv'
    <2>1. PmuKept
      BY <1>16, PmuSteps DEF Misaligned, MisalignedLoad, MisalignedStore, Running
    <2> QED
      BY <1>2, <1>3, <1>4, <1>5, <1>16, <2>1 DEF Misaligned
  <1>17. ASSUME MisalignedTrap(MisalignedLoad, LoadTraps) \/ MisalignedTrap(MisalignedStore, StoreTraps) PROVE TrapInv'
    <2>1. CtxOK'
      BY <1>1, <1>17, CtxSteps
    <2>2. PmuKept
      BY <1>17, PmuSteps DEF MisalignedTrap, MisalignedLoad, MisalignedStore, Running
    <2> QED
      BY <1>2, <1>3, <1>4, <1>17, <2>1, <2>2 DEF MisalignedTrap
  <1>18. ASSUME NEW code \in {AccessLoad, AccessStore}, AccessFault(code) PROVE TrapInv'
    <2>1. CtxOK'
      BY <1>1, <1>18, CtxSteps
    <2>2. PmuKept
      BY <1>18, PmuSteps DEF AccessFault, AccessLoad, AccessStore, Running
    <2> QED
      BY <1>2, <1>3, <1>4, <1>18, <2>1, <2>2 DEF AccessFault
  <1>19. ASSUME NEW cause, OtherTrap(cause) PROVE TrapInv'
    <2>1. CtxOK'
      BY <1>1, <1>19, CtxSteps
    <2> QED
      BY <1>2, <1>3, <1>4, <1>6, <1>19, <2>1 DEF OtherTrap
  <1>20. ASSUME ColdBoot PROVE TrapInv'
    <2>1. PmuKept
      BY <1>20, PmuSteps DEF ColdBoot
    <2> QED
      BY <1>2, <1>3, <1>4, <1>5, <1>20, <2>1 DEF ColdBoot
  <1>21. ASSUME HartStop PROVE TrapInv'
    <2>1. TimerKept /\ ~mtie'
      BY <1>1, <1>21, TimerSteps DEF HartStop, TimerKept
    <2>2. PmuKept
      BY <1>21, PmuSteps DEF HartStop, InHs, Running
    <2>3. CtxOK'
      BY <1>1, <1>21, CtxSteps
    <2> QED
      BY <1>2, <2>1, <2>2, <2>3
  <1>22. ASSUME HartStart PROVE TrapInv'
    <2>1. TimerKept
      BY <1>1, <1>22, TimerSteps DEF HartStart, TimerKept
    <2>2. PmuKept
      BY <1>22, PmuSteps DEF HartStart
    <2>3. CtxOK'
      BY <1>1, <1>22, CtxSteps
    <2> QED
      BY <1>2, <1>22, <2>1, <2>2, <2>3 DEF HartStart
  <1>23. ASSUME Outside PROVE TrapInv'
    <2>1. ASSUME UNCHANGED <<timerVars, pmuVars, up>>, CtxOK' PROVE TrapInv'
      BY <1>2, <1>3, <1>4, <1>6, <2>1
    <2>2. CASE HsSret
      BY <1>1, <2>1, <2>2, CtxSteps DEF HsSret
    <2>3. CASE VsSret
      BY <1>1, <2>1, <2>3, CtxSteps DEF VsSret
    <2>4. CASE HsPrepare
      BY <1>1, <2>1, <2>4, CtxSteps DEF HsPrepare
    <2>5. ASSUME NEW m \in {"S", "U"}, NEW v \in BOOLEAN, NEW ie \in BOOLEAN, HsEnter(m, v, ie) PROVE TrapInv'
      <3>1. CtxOK'
        BY <1>1, <2>5, CtxSteps
      <3> QED
        BY <2>1, <2>5, <3>1 DEF HsEnter
    <2>6. ASSUME NEW ie \in BOOLEAN, VsEnter(ie) \/ HsInterrupts(ie) PROVE TrapInv'
      <3>1. CtxOK'
        BY <1>1, <2>6, CtxSteps
      <3> QED
        BY <2>1, <2>6, <3>1 DEF VsEnter, HsInterrupts
    <2>7. CASE TimePasses
      <3>1. TimerKept /\ mtie' = mtie
        BY <1>1, <2>7, TimerSteps DEF TimePasses, TimerKept, Tick
      <3> QED
        BY <1>2, <1>3, <1>5, <1>6, <2>7, <3>1 DEF TimePasses
    <2>8. ASSUME NEW code \in Intruded, OtherHart(code) PROVE TrapInv'
      <3>1. PmuKept
        BY <2>8, PmuSteps DEF OtherHart
      <3> QED
        BY <1>2, <1>3, <1>4, <1>5, <2>8, <3>1 DEF OtherHart
    <2> QED
      BY <1>23, <2>2, <2>3, <2>4, <2>5, <2>6, <2>7, <2>8 DEF Outside
  <1> QED
    BY <1>7, <1>8, <1>9, <1>10, <1>11, <1>12, <1>13, <1>14, <1>15, <1>16, <1>17, <1>18, <1>19,
       <1>20, <1>21, <1>22, <1>23 DEF Next, Handler
-----------------------------------------------------------------------------
(* Whatever the traps, the calls of S-mode and the passing of time, the    *)
(* invariant of the timer, the PMU and the redirected traps holds, and     *)
(* every variable keeps its type.                                          *)
THEOREM TrapInvHolds == Spec => [](TrapInv /\ TypeOK)
  <1>1. Init => TrapInv
    BY TrapInit
  <1>2. TrapInv /\ [Next]_vars => TrapInv'
    BY TrapNext
  <1>3. TrapInv => TypeOK
    BY DEF TrapInv
  <1> QED
    BY <1>1, <1>2, <1>3, PTL DEF Spec

(* sbi_timer.c: S-mode gets no timer interrupt before its deadline, and    *)
(* mtimer_time_rd32 reads a time that there was since it began, however    *)
(* the time goes on between the reads of the halves.                       *)
THEOREM TimerOnTimeHolds == Spec => []TimerOnTime
  <1>1. ASSUME TrapInv PROVE TimerOnTime
    <2>1. TimerTypeOK /\ TimerInv
      BY <1>1, TrapInvParts
    <2>2. ASSUME rd = "done", NEW v \in BOOLEAN
          PROVE  \E t \in since .. time : TimeValue(v) = (t + (IF v THEN delta ELSE 0)) % (Half * Half)
      <3>1. PICK t \in since .. time : t = hi * Half + lo
        BY <2>1, <2>2 DEF TimerInv
      <3>2. TimeValue(v) = (t + (IF v THEN delta ELSE 0)) % (Half * Half)
        BY <3>1 DEF TimeValue
      <3> QED
        BY <3>2
    <2> QED
      BY <2>1, <2>2 DEF TimerInv, TimerOnTime
  <1> QED
    BY <1>1, TrapInvHolds, PTL

(* sbi_pmu.c, for every sequence of requests for counters and of events,   *)
(* and calls of other harts: a programmable counter that counts, counts    *)
(* the event it is configured for; none is given out twice; and a firmware *)
(* counter that has its event for itself reads as S-mode expects, although *)
(* the firmware counts per event.  What a call changed astray is exempt.   *)
THEOREM PmuSoundHolds == Spec => []PmuSound
  <1>1. ASSUME TrapInv PROVE PmuSound
    <2>1. PmuTypeOK /\ PmuInv(up) /\ up \in BOOLEAN
      BY <1>1, TrapInvParts DEF CtxOK
    <2>2. GrantInv
      BY <2>1 DEF PmuInv
    <2>3. \A c \in HwCtrs \ stray.ctrs : "inhibit" \in feat /\ c \notin inhibit =>
            active[c] # None /\ sel[c] # None /\ sel[c][1] = active[c] /\ use[c].grants = 1
      BY <2>2 DEF GrantInv
    <2>4. \A c \in HwCtrs \cup FwCtrs : use[c].grants <= 1
      BY <2>2 DEF GrantInv
    <2>5. ASSUME NEW c \in FwCtrs, NEW code, code = Code(active[c]), use[c].alone,
                 code \in DOMAIN fw \ stray.codes, again => code < FwCtrMax
          PROVE  /\ fw[code].started = use[c].run
                 /\ use[c].count # None => CtrRead(c) = use[c].count
      <3>1. Counts(c, up) /\ active[c] # None
        BY <2>1, <2>5 DEF PmuInv, CountInv, Counts
      <3>2. up
        BY <2>1, <3>1, Counters DEF PmuInv
      <3>3. Tracked(code, up)
        BY <2>1, <2>5, <3>2 DEF Tracked, PmuTypeOK
      <3> QED
        BY <2>5, <3>1, <3>3 DEF Counts, CtrRead
    <2> QED
      BY <2>3, <2>4, <2>5 DEF PmuSound
  <1> QED
    BY <1>1, TrapInvHolds, PTL

(* sbi_trap_redirect: sret takes the supervisor or the guest back to what  *)
(* its trap interrupted, whatever traps came in between.                   *)
THEOREM RedirectRoundTripHolds == Spec => RedirectRoundTrip
  <1>1. ASSUME TrapInv, [Next]_vars
        PROVE  [/\ HsSret /\ (hsFrame.spv => hsFrame.virt) =>
                     /\ mode' = hsFrame.mode /\ virt' = hsFrame.virt /\ s'.ie = hsFrame.ie /\ s.epc = "insn"
                     /\ hsFrame.virt => h.spvp = hsFrame.mode
                /\ VsSret => mode' = vsFrame.mode /\ virt' /\ vs'.ie = vsFrame.ie /\ vs.epc = "insn"]_vars
    <2>1. CtxOK
      BY <1>1, TrapInvParts
    <2>2. ASSUME HsSret, hsFrame.spv => hsFrame.virt
          PROVE  /\ mode' = hsFrame.mode /\ virt' = hsFrame.virt /\ s'.ie = hsFrame.ie /\ s.epc = "insn"
                 /\ hsFrame.virt => h.spvp = hsFrame.mode
      <3>1. hsFrame \in Frame /\ hsFrame.virt \in BOOLEAN /\ hsFrame.spv \in BOOLEAN /\ h.spv \in BOOLEAN
        BY <2>1, <2>2 DEF CtxOK, HsSret, Frame
      <3>2. /\ s.pp = hsFrame.mode /\ s.pie = hsFrame.ie /\ s.epc = "insn"
            /\ IF hsFrame.virt THEN h.spv /\ h.spvp = hsFrame.mode ELSE h.spv = hsFrame.spv
        BY <2>1, <2>2 DEF CtxOK, HsSret, FrameInv
      <3>3. h.spv = hsFrame.virt
        BY <2>2, <3>1, <3>2
      <3>4. mode' = s.pp /\ virt' = h.spv /\ s'.ie = s.pie
        BY <2>2 DEF HsSret
      <3> QED
        BY <3>2, <3>3, <3>4
    <2>3. ASSUME VsSret PROVE mode' = vsFrame.mode /\ virt' /\ vs'.ie = vsFrame.ie /\ vs.epc = "insn"
      BY <2>1, <2>3 DEF CtxOK, VsSret, FrameInv
    <2> QED
      BY <2>2, <2>3
  <1> QED
    BY <1>1, TrapInvHolds, PTL DEF Spec, RedirectRoundTrip
=============================================================================
