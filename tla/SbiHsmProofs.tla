----------------------------- MODULE SbiHsmProofs -----------------------------
EXTENDS SbiHsm, TLAPS

(* The actions, grouped by what they write besides the hart's pc:          *)
(* boot bookkeeping only, ...                                              *)
BootStep(h) ==
  \/ Lottery(h) \/ ColdFinalized(h) \/ ColdDone(h) \/ CountInit(h) \/ SwitchMode(h)
  \/ WarmMark(h) \/ WarmPoll(h) \/ WarmWfi(h) \/ WarmUnmark(h) \/ WarmState(h)
  \/ HsmWait(h) \/ HsmWfi(h) \/ SpuriousWfi(h) \/ WarmInit(h) \/ InitFails(h)
  \/ DevStop(h) \/ SuspendWake(h)

(* ... software interrupts, ...                                            *)
IpiStep(h) ==
  ColdIpiInit(h) \/ WarmIpiInit(h) \/ ExitIpi(h) \/ TakeIpi(h) \/ ColdWake(h)

(* ... the hart's own state, ...                                           *)
StateStep(h) ==
  \/ NextJump(h) \/ ResumeStart(h) \/ ResumeFinish(h) \/ HartStop(h) \/ HsmExit(h)
  \/ SuspendCas(h) \/ SuspendRestore(h)

(* ... its own arguments, ...                                              *)
ArgsStep(h, t) == Suspend(h, t) \/ ColdOwnDomain(h, t)

(* ... the state and the arguments of another hart, ...                    *)
ClaimStep(h, g, t) == HartStart(h, g, t) \/ DomainStart(h, g, t)

(* ... and the end of that call.                                           *)
KickStep(h) == KickByIpi(h) \/ KickByDevice(h) \/ KickFails(h)

LEMMA StepCases ==
  ASSUME NEW h, Run(h) \/ Choose(h)
  PROVE  \/ BootStep(h) \/ IpiStep(h) \/ StateStep(h) \/ ColdHsmInit(h) \/ KickStep(h)
         \/ \E t \in Tags : ArgsStep(h, t)
         \/ \E g \in Harts, t \in Tags : ClaimStep(h, g, t)
         \/ \E f \in Fields : StartStore(h, f)
  BY DEF Run, Choose, BootStep, IpiStep, StateStep, KickStep, ArgsStep, ClaimStep

LEMMA TypeInit == Init => TypeOK
  <1> SUFFICES ASSUME Init PROVE TypeOK
    OBVIOUS
  <1>1. args \in [Harts -> [Fields -> Tags \cup {BootTag}]]
    BY DEF Init, Whole
  <1>2. pc \in [Harts -> PCs]
    BY DEF Init, PCs
  <1>3. state \in [Harts -> HsmStates]
    BY DEF Init, HsmStates
  <1>4. left \in SUBSET Harts
    BY HsmAssumption DEF Init
  <1> QED
    BY <1>1, <1>2, <1>3, <1>4 DEF Init, TypeOK

(* The record that Claim makes.                                            *)
LEMMA ClaimCall ==
  ASSUME TypeOK, NEW h \in Harts, NEW g \in Harts, NEW t \in Tags,
         NEW from \in {"smode", "cold_domains"}, Claim(h, g, t, from)
  PROVE  /\ call'[h] \in Calls
         /\ call'[h].target = g /\ call'[h].from = from /\ call'[h].counted = (g \in booted)
         /\ call'[h].tag = t /\ call'[h].todo = Fields
         /\ call' = [call EXCEPT ![h] = call'[h]]
  <1> DEFINE c == [target |-> g, tag |-> t, counted |-> g \in booted, todo |-> Fields, from |-> from]
  <1>2. call' = [call EXCEPT ![h] = c]
    BY DEF Claim
  <1>3. (g \in booted) \in BOOLEAN
    OBVIOUS
  <1>4. c \in Calls
    BY <1>3 DEF Calls
  <1>5. c.target = g /\ c.from = from /\ c.counted = (g \in booted) /\ c.tag = t /\ c.todo = Fields
    OBVIOUS
  <1>6. call'[h] = c
    BY <1>2 DEF TypeOK
  <1> QED
    BY <1>2, <1>4, <1>5, <1>6

(* What Claim does to the types, for both of its callers.                  *)
LEMMA ClaimType ==
  ASSUME TypeOK, NEW h \in Harts, NEW g \in Harts, NEW t \in Tags,
         NEW from \in {"smode", "cold_domains"}, Claim(h, g, t, from)
  PROVE  /\ state' \in [Harts -> HsmStates]
         /\ args' \in [Harts -> [Fields -> Tags \cup {BootTag}]]
         /\ asked' \in [Harts -> Tags \cup {BootTag}]
         /\ call' \in [Harts -> Calls \cup {NoCall}]
         /\ pc' \in [Harts -> PCs]
  <1>5. call' \in [Harts -> Calls \cup {NoCall}]
    BY ClaimCall DEF TypeOK
  <1>7. args' \in [Harts -> [Fields -> Tags \cup {BootTag}]]
    BY DEF Claim, TypeOK
  <1>8. pc' \in [Harts -> PCs]
    BY DEF Claim, TypeOK, Goto, PCs, StartPCs
  <1> QED
    BY <1>5, <1>7, <1>8 DEF Claim, TypeOK, HsmStates

(* The record of a call in progress.                                       *)
LEMMA CallFacts ==
  ASSUME TypeOK, CallInv, NEW h \in Harts, pc[h] \in StartPCs
  PROVE  /\ call[h] \in Calls /\ call[h] # NoCall
         /\ call[h].target \in Harts /\ call[h].tag \in Tags
         /\ call[h].from \in {"smode", "cold_domains"} /\ call[h].todo \in SUBSET Fields
  <1>1. call[h] \in Calls /\ call[h] # NoCall
    BY DEF CallInv, TypeOK
  <1> QED
    BY <1>1 DEF Calls

(* StartStore keeps the record but for the field it has stored.            *)
LEMMA StoreCall ==
  ASSUME TypeOK, CallInv, NEW h \in Harts, NEW f \in Fields, StartStore(h, f)
  PROVE  /\ call'[h] \in Calls
         /\ call'[h].target = call[h].target /\ call'[h].from = call[h].from
         /\ call'[h].counted = call[h].counted
         /\ call'[h].tag = call[h].tag /\ call'[h].todo = call[h].todo \ {f}
         /\ call' = [call EXCEPT ![h] = call'[h]]
  <1> DEFINE c == call[h]
             d == [c EXCEPT !.todo = c.todo \ {f}]
  <1>1. c \in Calls
    BY CallFacts DEF StartStore, StartPCs
  <1>2. call' = [call EXCEPT ![h] = d]
    BY DEF StartStore
  <1>3. call'[h] = d
    BY <1>2 DEF TypeOK
  <1>4. d \in Calls /\ d.target = c.target /\ d.from = c.from /\ d.counted = c.counted
             /\ d.tag = c.tag /\ d.todo = c.todo \ {f}
    <2> HIDE DEF c
    <2> QED BY <1>1 DEF Calls
  <1> QED
    BY <1>2, <1>3, <1>4

LEMMA TypeStep ==
  ASSUME TypeOK, CallInv, NEW h \in Harts, Run(h) \/ Choose(h)
  PROVE  TypeOK'
  <1> USE DEF TypeOK, bootVars, startVars, Goto, PCs, ColdPCs, WarmPCs, ResumePCs, SmodePCs, StopPCs, StartPCs
  <1>1. CASE BootStep(h)
    BY <1>1, ZenonT(30) DEF BootStep, Lottery, ColdFinalized, ColdDone, WarmPoll, WarmWfi, WarmState, HsmWait, HsmWfi,
         SpuriousWfi, WarmInit, InitFails, DevStop, SuspendWake, SwitchMode, CountInit, WarmMark, WarmUnmark
  <1>2. CASE IpiStep(h)
    BY <1>2 DEF IpiStep, ColdIpiInit, WarmIpiInit, ExitIpi, TakeIpi, ColdWake
  <1>3. CASE StateStep(h)
    BY <1>3, SMTT(30) DEF StateStep, NextJump, ResumeStart, ResumeFinish, HartStop, HsmExit, SuspendCas, SuspendRestore,
         Cmpxchg, HsmStates
  <1>4. CASE ColdHsmInit(h)
    BY <1>4 DEF ColdHsmInit, ColdStates, HsmStates
  <1>5. CASE KickStep(h)
    <2>1. call[h].target \in Harts /\ call[h].from \in {"smode", "cold_domains"}
      BY <1>5, CallFacts DEF KickStep, KickByIpi, KickByDevice, KickFails
    <2> DEFINE g == call[h].target  l == call[h].from
    <2>2. pc' \in [Harts -> PCs]
      <3>1. \/ pc' = [pc EXCEPT ![h] = l] \/ pc' = [pc EXCEPT ![h] = "hung"]
            \/ pc' = [pc EXCEPT ![h] = l, ![g] = "reset"] \/ pc' = [pc EXCEPT ![h] = "smode"]
        BY <1>5 DEF KickStep, KickByIpi, KickByDevice, KickFails
      <3>2. g \in Harts /\ l \in PCs
        BY <2>1
      <3> HIDE DEF g, l
      <3> QED
        BY <3>1, <3>2, ZenonT(30)
    <2>3. msip' \in SUBSET Harts
      BY <1>5, <2>1 DEF KickStep, KickByIpi, KickByDevice, KickFails
    <2> QED
      BY <1>5, <2>2, <2>3 DEF KickStep, KickByIpi, KickByDevice, KickFails
  <1>6. ASSUME NEW t \in Tags, ArgsStep(h, t) PROVE TypeOK'
    <2>1. Whole(t) \in [Fields -> Tags \cup {BootTag}]
      BY DEF Whole
    <2>2. args' \in [Harts -> [Fields -> Tags \cup {BootTag}]]
      <3> DEFINE w == Whole(t)
      <3>1. args' = [args EXCEPT ![h] = w] /\ w \in [Fields -> Tags \cup {BootTag}]
        BY <1>6, <2>1 DEF ArgsStep, Suspend, ColdOwnDomain
      <3> HIDE DEF w
      <3> QED
        BY <3>1
    <2>3. asked' \in [Harts -> Tags \cup {BootTag}] /\ left' \in SUBSET Harts /\ pc' \in [Harts -> PCs]
      BY <1>6 DEF ArgsStep, Suspend, ColdOwnDomain
    <2>4. UNCHANGED <<lottery, done, waiting, state, booted, msip, call>>
      BY <1>6 DEF ArgsStep, Suspend, ColdOwnDomain
    <2> QED
      BY <2>2, <2>3, <2>4
  <1>7. ASSUME NEW g \in Harts, NEW t \in Tags, ClaimStep(h, g, t)
        PROVE  TypeOK'
    <2> SUFFICES ASSUME NEW from \in {"smode", "cold_domains"}, Claim(h, g, t, from)
                 PROVE  TypeOK'
      BY <1>7 DEF ClaimStep, HartStart, DomainStart
    <2>1. left' \in SUBSET Harts /\ UNCHANGED <<lottery, done, waiting, booted, msip>>
      BY <1>7 DEF ClaimStep, HartStart, DomainStart
    <2> QED
      BY ClaimType, <2>1
  <1>8. ASSUME NEW f \in Fields, StartStore(h, f) PROVE TypeOK'
    <2> DEFINE c == call[h]
    <2>4. call' \in [Harts -> Calls \cup {NoCall}]
      BY <1>8, StoreCall
    <2>5. c.target \in Harts /\ c.tag \in Tags
      BY <1>8, CallFacts DEF StartStore
    <2>6. args' \in [Harts -> [Fields -> Tags \cup {BootTag}]]
      <3> DEFINE r == c.target  x == c.tag
      <3>1. args' = [args EXCEPT ![r] = [args[r] EXCEPT ![f] = x]]
        BY <1>8 DEF StartStore
      <3> HIDE DEF r, x
      <3> QED BY <3>1, <2>5 DEF r, x
    <2> QED
      BY <1>8, <2>4, <2>6 DEF StartStore
  <1> QED
    BY StepCases, <1>1, <1>2, <1>3, <1>4, <1>5, <1>6, <1>7, <1>8

(* What a step of one hart does to another one: it may move it out of      *)
(* reset by the device, and start it; only the cold boot writes its state  *)
(* otherwise.                                                              *)
LEMMA Frame ==
  ASSUME TypeOK, CallInv, NEW h \in Harts, Run(h) \/ Choose(h), NEW o \in Harts, o # h
  PROVE  /\ call'[o] = call[o]
         /\ \/ pc'[o] = pc[o]
            \/ pc[o] = "off" /\ pc'[o] = "reset" /\ KickByDevice(h) /\ o = call[h].target
         /\ \/ state'[o] = state[o]
            \/ state[o] = "STOPPED" /\ state'[o] = "START_PENDING"
            \/ ColdHsmInit(h) /\ state'[o] = "STOPPED"
         /\ o \in msip => o \in msip'
         /\ o \in waiting <=> o \in waiting'
         /\ o \in booted <=> o \in booted'
  <1> USE DEF TypeOK, bootVars, startVars, Goto
  <1>1. CASE BootStep(h)
    BY <1>1 DEF BootStep, Lottery, ColdFinalized, ColdDone, WarmPoll, WarmWfi, WarmState, HsmWait, HsmWfi,
         SpuriousWfi, WarmInit, InitFails, DevStop, SuspendWake, SwitchMode, CountInit, WarmMark, WarmUnmark
  <1>2. CASE IpiStep(h)
    BY <1>2 DEF IpiStep, ColdIpiInit, WarmIpiInit, ExitIpi, TakeIpi, ColdWake
  <1>3. CASE StateStep(h)
    BY <1>3 DEF StateStep, NextJump, ResumeStart, ResumeFinish, HartStop, HsmExit, SuspendCas, SuspendRestore, Cmpxchg
  <1>4. CASE ColdHsmInit(h)
    BY <1>4 DEF ColdHsmInit, ColdStates
  <1>5. CASE KickStep(h)
    BY <1>5, CallFacts DEF KickStep, KickByIpi, KickByDevice, KickFails, StartPCs
  <1>6. ASSUME NEW t \in Tags, ArgsStep(h, t) PROVE UNCHANGED <<call, state, msip, waiting, booted>> /\ pc'[o] = pc[o]
    BY <1>6 DEF ArgsStep, Suspend, ColdOwnDomain
  <1>7. ASSUME NEW g \in Harts, NEW t \in Tags, ClaimStep(h, g, t)
        PROVE  /\ UNCHANGED <<msip, waiting, booted>> /\ pc'[o] = pc[o] /\ call'[o] = call[o]
               /\ state'[o] = state[o] \/ (state[o] = "STOPPED" /\ state'[o] = "START_PENDING")
    BY <1>7 DEF ClaimStep, HartStart, DomainStart, Claim
  <1>8. ASSUME NEW f \in Fields, StartStore(h, f)
        PROVE  UNCHANGED <<state, msip, waiting, booted>> /\ pc'[o] = pc[o] /\ call'[o] = call[o]
    BY <1>8 DEF StartStore
  <1> QED
    BY StepCases, <1>1, <1>2, <1>3, <1>4, <1>5, <1>6, <1>7, <1>8

LEMMA CallStep ==
  ASSUME TypeOK, CallInv, NEW h \in Harts, Run(h) \/ Choose(h)
  PROVE  CallInv'
  <1>1. ASSUME NEW o \in Harts, o # h
        PROVE  pc'[o] \in StartPCs <=> call'[o] # NoCall
    BY <1>1, Frame DEF CallInv, StartPCs
  <1>2. pc'[h] \in StartPCs <=> call'[h] # NoCall
    <2> USE DEF TypeOK, CallInv, StartPCs, bootVars, startVars, Goto
    <2>1. CASE BootStep(h)
      BY <2>1 DEF BootStep, Lottery, ColdFinalized, ColdDone, WarmPoll, WarmWfi, WarmState, HsmWait, HsmWfi,
           SpuriousWfi, WarmInit, InitFails, InitPCs, DevStop, SuspendWake, SwitchMode, CountInit, WarmMark, WarmUnmark
    <2>2. CASE IpiStep(h)
      BY <2>2 DEF IpiStep, ColdIpiInit, WarmIpiInit, ExitIpi, TakeIpi, ColdWake
    <2>3. CASE StateStep(h)
      BY <2>3 DEF StateStep, NextJump, ResumeStart, ResumeFinish, HartStop, HsmExit, SuspendCas,
           SuspendRestore, Cmpxchg
    <2>4. CASE ColdHsmInit(h)
      BY <2>4 DEF ColdHsmInit, ColdStates
    <2>5. CASE KickStep(h)
      BY <2>5, CallFacts DEF KickStep, KickByIpi, KickByDevice, KickFails
    <2>6. ASSUME NEW t \in Tags, ArgsStep(h, t)
          PROVE  pc[h] \notin StartPCs /\ pc'[h] \notin StartPCs /\ call' = call
      BY <2>6 DEF ArgsStep, Suspend, ColdOwnDomain
    <2>7. ASSUME NEW g \in Harts, NEW t \in Tags, ClaimStep(h, g, t)
          PROVE  pc'[h] \in StartPCs /\ call'[h] # NoCall
      <3>1. call'[h] \in Calls
        BY <2>7, ClaimCall DEF ClaimStep, HartStart, DomainStart
      <3>2. pc'[h] \in StartPCs
        BY <2>7 DEF ClaimStep, HartStart, DomainStart, Claim
      <3> QED
        BY <3>1, <3>2, NoCallAssumption
    <2>8. ASSUME NEW f \in Fields, StartStore(h, f)
          PROVE  pc'[h] \in StartPCs /\ call'[h] # NoCall
      BY <2>8, NoCallAssumption, StoreCall DEF StartStore
    <2> QED
      BY StepCases, <2>1, <2>2, <2>3, <2>4, <2>5, <2>6, <2>7, <2>8
  <1> QED
    BY <1>1, <1>2 DEF CallInv

LEMMA PcStateStep ==
  ASSUME TypeOK, CallInv, PcState, BootInv, NEW h \in Harts, Run(h) \/ Choose(h)
  PROVE  PcState'
  <1>1. ASSUME NEW o \in Harts, o # h PROVE HartState(o)'
    <2>1. HartState(o)
      BY DEF PcState
    <2>2. ColdHsmInit(h) => pc[o] \in EarlyPCs
      BY <1>1 DEF ColdHsmInit, ColdStates, BootInv
    <2> QED
      BY <1>1, <2>1, <2>2, Frame DEF HartState, Calling, ColdPCs, StartPCs, EarlyPCs
  <1>2. HartState(h)'
    <2>1. HartState(h)
      BY DEF PcState
    <2> USE DEF TypeOK, HartState, Calling, ColdPCs, StartPCs, EarlyPCs, bootVars, startVars, Goto
    <2>2. CASE BootStep(h)
      <3>1. pc[h] = "warm_state" => state[h] # "UNINIT"
        BY DEF BootInv, ColdHart
      <3> QED
        BY <2>1, <2>2, <3>1 DEF BootStep, Lottery, ColdFinalized, ColdDone, WarmPoll, WarmWfi, WarmState, HsmWait, HsmWfi,
           SpuriousWfi, WarmInit, InitFails, InitPCs, DevStop, SuspendWake, SwitchMode, CountInit, WarmMark, WarmUnmark
    <2>3. CASE IpiStep(h)
      BY <2>1, <2>3 DEF IpiStep, ColdIpiInit, WarmIpiInit, ExitIpi, TakeIpi, ColdWake
    <2>4. CASE StateStep(h)
      BY <2>1, <2>4 DEF StateStep, NextJump, ResumeStart, ResumeFinish, HartStop, HsmExit, SuspendCas,
           SuspendRestore, Cmpxchg
    <2>5. CASE ColdHsmInit(h)
      BY <2>1, <2>5 DEF ColdHsmInit, ColdStates
    <2>6. CASE KickStep(h)
      BY <2>1, <2>6, CallFacts DEF KickStep, KickByIpi, KickByDevice, KickFails
    <2>7. ASSUME NEW t \in Tags, ArgsStep(h, t) PROVE HartState(h)'
      BY <2>1, <2>7 DEF ArgsStep, Suspend, ColdOwnDomain
    <2>8. ASSUME NEW g \in Harts, NEW t \in Tags, ClaimStep(h, g, t) PROVE HartState(h)'
      <3>1. PICK from \in {"smode", "cold_domains"} : pc[h] = from /\ Claim(h, g, t, from)
        BY <2>8 DEF ClaimStep, HartStart, DomainStart
      <3>2. call'[h].from = from /\ pc'[h] \in StartPCs
        BY <3>1, ClaimCall DEF Claim
      <3>3. state'[h] = state[h]
        BY <2>1, <3>1 DEF Claim
      <3> QED
        BY <2>1, <3>1, <3>2, <3>3
    <2>9. ASSUME NEW f \in Fields, StartStore(h, f) PROVE HartState(h)'
      <3>1. call'[h].from = call[h].from /\ pc[h] \in StartPCs /\ pc'[h] \in StartPCs /\ state' = state
        BY <2>9, StoreCall DEF StartStore
      <3> QED
        BY <2>1, <3>1
    <2> QED
      BY StepCases, <2>2, <2>3, <2>4, <2>5, <2>6, <2>7, <2>8, <2>9
  <1> QED
    BY <1>1, <1>2 DEF PcState

(* What a step of a hart means for the boot.                               *)
LEMMA OwnBoot ==
  ASSUME TypeOK, CallInv, NEW h \in Harts, Run(h) \/ Choose(h)
  PROVE  /\ lottery => lottery'
         /\ done => done'
         /\ done' # done => pc[h] = "cold_done"
         /\ pc[h] # "hung"
         /\ state'[h] = "UNINIT" => state[h] = "UNINIT"
         /\ pc'[h] = "cold_hsm" => pc[h] = "reset" /\ ~lottery
         /\ pc[h] \in EarlyPCs => state' = state
         /\ pc[h] \in EarlyPCs /\ ~done =>
              pc'[h] \in EarlyPCs \/ (pc'[h] = "cold_hsm" /\ ~lottery /\ lottery')
  <1> USE DEF TypeOK, EarlyPCs, bootVars, startVars, Goto
  <1>1. CASE BootStep(h)
    BY <1>1 DEF BootStep, Lottery, ColdFinalized, ColdDone, WarmPoll, WarmWfi, WarmState, HsmWait, HsmWfi,
         SpuriousWfi, WarmInit, InitFails, InitPCs, DevStop, SuspendWake, SwitchMode, CountInit, WarmMark, WarmUnmark
  <1>2. CASE IpiStep(h)
    BY <1>2 DEF IpiStep, ColdIpiInit, WarmIpiInit, ExitIpi, TakeIpi, ColdWake
  <1>3. CASE StateStep(h)
    BY <1>3 DEF StateStep, NextJump, ResumeStart, ResumeFinish, HartStop, HsmExit, SuspendCas,
         SuspendRestore, Cmpxchg
  <1>4. CASE ColdHsmInit(h)
    BY <1>4 DEF ColdHsmInit, ColdStates
  <1>5. CASE KickStep(h)
    BY <1>5, CallFacts DEF KickStep, KickByIpi, KickByDevice, KickFails, StartPCs
  <1>6. ASSUME NEW t \in Tags, ArgsStep(h, t)
        PROVE  UNCHANGED <<lottery, done, state>> /\ pc[h] \in {"smode", "cold_domains"} /\ pc'[h] # "cold_hsm"
    BY <1>6 DEF ArgsStep, Suspend, ColdOwnDomain
  <1>7. ASSUME NEW g \in Harts, NEW t \in Tags, ClaimStep(h, g, t)
        PROVE  /\ UNCHANGED <<lottery, done>> /\ pc[h] \in {"smode", "cold_domains"} /\ pc'[h] # "cold_hsm"
               /\ state'[h] = "UNINIT" => state[h] = "UNINIT"
    BY <1>7 DEF ClaimStep, HartStart, DomainStart, Claim
  <1>8. ASSUME NEW f \in Fields, StartStore(h, f)
        PROVE  UNCHANGED <<lottery, done, state>> /\ pc[h] = "start_args" /\ pc'[h] # "cold_hsm"
    BY <1>8 DEF StartStore
  <1> QED
    BY StepCases, <1>1, <1>2, <1>3, <1>4, <1>5, <1>6, <1>7, <1>8

(* The steps of the cold boot hart, and that no other hart becomes it.     *)
LEMMA OwnCold ==
  ASSUME TypeOK, CallInv, NEW h \in Harts, Run(h) \/ Choose(h)
  PROVE  /\ ColdHart(h)' => ColdHart(h) \/ pc'[h] = "cold_hsm"
         /\ ColdHart(h) => ColdHart(h)' \/ pc'[h] = "hung" \/ pc[h] = "cold_count"
         /\ ColdHart(h) /\ ColdHart(h)' /\ pc[h] # "cold_done" =>
              (pc[h] \in {"cold_wake", "cold_count"} <=> pc'[h] \in {"cold_wake", "cold_count"})
         /\ pc[h] = "cold_done" => pc'[h] = "cold_wake" /\ done'
         /\ pc[h] = "cold_hsm" /\ ColdHart(h)' => \A g \in Harts : state'[g] # "UNINIT"
  <1> USE DEF TypeOK, ColdHart, Calling, ColdPCs, StartPCs, bootVars, startVars, Goto
  <1>1. CASE BootStep(h)
    <2>1. call' = call
      BY <1>1 DEF BootStep, Lottery, ColdFinalized, ColdDone, WarmPoll, WarmWfi, WarmState, HsmWait, HsmWfi,
           SpuriousWfi, WarmInit, InitFails, DevStop, SuspendWake, SwitchMode, CountInit, WarmMark, WarmUnmark
    <2>2. CASE Lottery(h) \/ ColdFinalized(h) \/ ColdDone(h) \/ CountInit(h) \/ InitFails(h)
      BY <2>1, <2>2 DEF Lottery, ColdFinalized, ColdDone, CountInit, InitFails, InitPCs
    <2>3. CASE ~(Lottery(h) \/ ColdFinalized(h) \/ ColdDone(h) \/ CountInit(h) \/ InitFails(h))
      BY <1>1, <2>1, <2>3 DEF BootStep, WarmPoll, WarmWfi, WarmState, HsmWait, HsmWfi,
           SpuriousWfi, WarmInit, DevStop, SuspendWake, SwitchMode, WarmMark, WarmUnmark
    <2> QED
      BY <2>2, <2>3
  <1>2. CASE IpiStep(h)
    BY <1>2 DEF IpiStep, ColdIpiInit, WarmIpiInit, ExitIpi, TakeIpi, ColdWake
  <1>3. CASE StateStep(h)
    BY <1>3 DEF StateStep, NextJump, ResumeStart, ResumeFinish, HartStop, HsmExit, SuspendCas,
         SuspendRestore, Cmpxchg
  <1>4. CASE ColdHsmInit(h)
    BY <1>4 DEF ColdHsmInit, ColdStates
  <1>5. CASE KickStep(h)
    BY <1>5, CallFacts DEF KickStep, KickByIpi, KickByDevice, KickFails
  <1>6. ASSUME NEW t \in Tags, ArgsStep(h, t)
        PROVE  /\ done' = done /\ call' = call
               /\ \/ pc[h] = "cold_domains" /\ pc'[h] = "cold_domains"
                  \/ pc[h] = "smode" /\ pc'[h] = "susp_cas"
    BY <1>6 DEF ArgsStep, Suspend, ColdOwnDomain
  <1>7. ASSUME NEW g \in Harts, NEW t \in Tags, ClaimStep(h, g, t)
        PROVE  /\ done' = done /\ pc[h] \in {"smode", "cold_domains"}
               /\ pc'[h] \in StartPCs /\ call'[h].from = pc[h]
    <2>1. PICK from \in {"smode", "cold_domains"} : pc[h] = from /\ Claim(h, g, t, from)
      BY <1>7 DEF ClaimStep, HartStart, DomainStart
    <2>2. call'[h].from = from /\ pc'[h] \in StartPCs
      BY <2>1, ClaimCall DEF Claim
    <2> QED
      BY <1>7, <2>1, <2>2 DEF ClaimStep, HartStart, DomainStart
  <1>8. ASSUME NEW f \in Fields, StartStore(h, f)
        PROVE  /\ done' = done /\ pc[h] \in StartPCs /\ pc'[h] \in StartPCs
               /\ call'[h].from = call[h].from
    BY <1>8, StoreCall DEF StartStore
  <1> QED
    BY StepCases, <1>1, <1>2, <1>3, <1>4, <1>5, <1>6, <1>7, <1>8

LEMMA BootInvStep ==
  ASSUME TypeOK, CallInv, BootInv, NEW h \in Harts, Run(h) \/ Choose(h)
  PROVE  BootInv'
  <1>1. ASSUME NEW o \in Harts, o # h PROVE ColdHart(o)' <=> ColdHart(o)
    BY <1>1, Frame DEF ColdHart, Calling, ColdPCs, StartPCs
  <1>2. ASSUME NEW o \in Harts, ~lottery PROVE ~ColdHart(o)
    BY <1>2 DEF BootInv, ColdHart, Calling, ColdPCs, StartPCs, EarlyPCs
  <1>3. \A f, g \in Harts : ColdHart(f)' /\ ColdHart(g)' => f = g
    BY <1>1, <1>2, OwnBoot, OwnCold DEF BootInv
  <1>4. \A g \in Harts : state'[g] = "UNINIT" => state[g] = "UNINIT"
    BY Frame, OwnBoot
  <1>5. ASSUME ~lottery' PROVE ~done' /\ \A g \in Harts : state'[g] = "UNINIT" /\ pc'[g] \in EarlyPCs
    <2>1. ~lottery /\ ~done /\ \A g \in Harts : state[g] = "UNINIT" /\ pc[g] \in EarlyPCs
      BY <1>5, OwnBoot DEF BootInv
    <2>2. ~done' /\ pc'[h] \in EarlyPCs /\ state' = state
      BY <1>5, <2>1, OwnBoot DEF EarlyPCs, TypeOK
    <2>3. ASSUME NEW o \in Harts, o # h PROVE pc'[o] \in EarlyPCs
      BY <2>1, <2>3, Frame DEF EarlyPCs
    <2> QED
      BY <2>1, <2>2, <2>3
  <1>6. ASSUME NEW x \in Harts, pc'[x] = "cold_hsm", NEW g \in Harts
        PROVE  state'[g] = "UNINIT" /\ (g = x \/ pc'[g] \in EarlyPCs)
    <2>1. CASE x = h
      <3>1. pc[h] = "reset" /\ ~lottery /\ state' = state
        BY <1>6, <2>1, OwnBoot DEF EarlyPCs
      <3>2. state[g] = "UNINIT" /\ pc[g] \in EarlyPCs
        BY <3>1 DEF BootInv
      <3>3. g # h => pc'[g] \in EarlyPCs
        BY <3>2, Frame DEF EarlyPCs
      <3> QED
        BY <2>1, <3>1, <3>2, <3>3
    <2>2. CASE x # h
      <3>1. pc[x] = "cold_hsm"
        BY <1>6, <2>2, Frame
      <3>2. state[g] = "UNINIT" /\ (g = x \/ pc[g] \in EarlyPCs) /\ pc[h] \in EarlyPCs
        BY <2>2, <3>1 DEF BootInv
      <3>3. ~done /\ lottery
        BY <3>1 DEF BootInv, ColdHart, ColdPCs, EarlyPCs
      <3>4. state' = state /\ pc'[h] \in EarlyPCs
        BY <3>2, <3>3, OwnBoot
      <3>5. g # h => g = x \/ pc'[g] \in EarlyPCs
        BY <3>2, Frame DEF EarlyPCs
      <3> QED
        BY <3>2, <3>4, <3>5
    <2> QED
      BY <2>1, <2>2
  <1>7. ASSUME NEW x \in Harts, ColdHart(x)', pc'[x] # "cold_hsm", NEW g \in Harts
        PROVE  state'[g] # "UNINIT"
    <2>1. CASE x = h /\ pc[h] = "cold_hsm"
      BY <1>7, <2>1, OwnCold
    <2>2. CASE ColdHart(x) /\ pc[x] # "cold_hsm"
      BY <1>4, <2>2 DEF BootInv
    <2>3. CASE x # h
      <3>1. ColdHart(x) /\ pc[x] # "cold_hsm"
        BY <1>1, <1>7, <2>3, Frame DEF ColdHart, Calling, ColdPCs, StartPCs
      <3> QED
        BY <3>1, <2>2
    <2> QED
      BY <1>7, <2>1, <2>2, <2>3, OwnCold
  <1>8. ASSUME done', NEW g \in Harts PROVE state'[g] # "UNINIT"
    <2>1. CASE done
      BY <1>4, <2>1 DEF BootInv
    <2>2. CASE ~done
      <3>1. pc[h] = "cold_done"
        BY <1>8, <2>2, OwnBoot
      <3> QED
        BY <1>4, <3>1 DEF BootInv, ColdHart, ColdPCs
    <2> QED
      BY <2>1, <2>2
  <1>9. ASSUME NEW x \in Harts, ColdHart(x)'
        PROVE  done' <=> pc'[x] \in {"cold_wake", "cold_count"}
    <2>1. CASE x = h /\ ColdHart(h)
      <3>1. pc[h] # "cold_done" => done' = done
        BY OwnBoot
      <3> QED
        BY <1>9, <2>1, <3>1, OwnCold DEF BootInv
    <2>2. CASE x = h /\ ~ColdHart(h)
      <3>1. pc'[h] = "cold_hsm" /\ ~lottery /\ pc[h] = "reset"
        BY <1>9, <2>2, OwnCold, OwnBoot
      <3>2. ~done /\ done' = done
        BY <3>1, OwnBoot DEF BootInv
      <3> QED
        BY <2>2, <3>1, <3>2 DEF TypeOK
    <2>3. CASE x # h
      <3>1. ColdHart(x) /\ pc'[x] = pc[x]
        BY <1>1, <1>9, <2>3, Frame DEF ColdHart, Calling, ColdPCs, StartPCs
      <3>2. pc[h] # "cold_done"
        BY <2>3, <3>1 DEF BootInv, ColdHart, ColdPCs
      <3> QED
        BY <3>1, <3>2, OwnBoot DEF BootInv
    <2> QED
      BY <2>1, <2>2, <2>3
  <1>10. ASSUME ~done', NEW x \in Harts PROVE ColdHart(x)' \/ pc'[x] \in EarlyPCs \cup {"hung"}
    <2>1. ~done /\ (ColdHart(x) \/ pc[x] \in EarlyPCs \cup {"hung"})
      BY <1>10, OwnBoot DEF BootInv
    <2>2. CASE x # h
      BY <1>1, <2>1, <2>2, Frame DEF EarlyPCs
    <2>3. CASE x = h
      <3>1. CASE ColdHart(h)
        <4>1. pc[h] # "cold_count"
          BY <2>1, <3>1 DEF BootInv
        <4> QED
          BY <2>3, <3>1, <4>1, OwnCold
      <3>2. CASE pc[h] \in EarlyPCs
        BY <2>1, <2>3, <3>2, OwnBoot DEF ColdHart, ColdPCs
      <3> QED
        BY <2>1, <2>3, <3>1, <3>2, OwnBoot
    <2> QED
      BY <2>2, <2>3
  <1> QED
    BY <1>3, <1>5, <1>6, <1>7, <1>8, <1>9, <1>10 DEF BootInv

(* The steps of a hart that waits for the cold boot, and of the one that   *)
(* wakes it.                                                               *)
LEMMA OwnWake ==
  ASSUME TypeOK, CallInv, NEW h \in Harts, Run(h) \/ Choose(h)
  PROVE  /\ pc'[h] = "warm_wfi" => ~done
         /\ pc'[h] = "warm_poll" => h \in waiting' \/ (pc[h] = "warm_wfi" /\ waiting' = waiting)
         /\ pc'[h] = "warm_wfi" => pc[h] = "warm_poll" /\ waiting' = waiting
         /\ pc[h] = "cold_wake" => \A g \in Harts : g \in waiting /\ g # h => g \in msip'
  <1> USE DEF TypeOK, bootVars, startVars, Goto
  <1>1. CASE BootStep(h)
    BY <1>1 DEF BootStep, Lottery, ColdFinalized, ColdDone, WarmPoll, WarmWfi, WarmState, HsmWait, HsmWfi,
         SpuriousWfi, WarmInit, InitFails, InitPCs, DevStop, SuspendWake, SwitchMode, CountInit, WarmMark, WarmUnmark
  <1>2. CASE IpiStep(h)
    BY <1>2 DEF IpiStep, ColdIpiInit, WarmIpiInit, ExitIpi, TakeIpi, ColdWake
  <1>3. CASE StateStep(h)
    BY <1>3 DEF StateStep, NextJump, ResumeStart, ResumeFinish, HartStop, HsmExit, SuspendCas,
         SuspendRestore, Cmpxchg
  <1>4. CASE ColdHsmInit(h)
    BY <1>4 DEF ColdHsmInit, ColdStates
  <1>5. CASE KickStep(h)
    BY <1>5, CallFacts DEF KickStep, KickByIpi, KickByDevice, KickFails, StartPCs
  <1>6. ASSUME NEW t \in Tags, ArgsStep(h, t)
        PROVE  pc[h] \in {"smode", "cold_domains"} /\ pc'[h] \in {"susp_cas", "cold_domains"}
    BY <1>6 DEF ArgsStep, Suspend, ColdOwnDomain
  <1>7. ASSUME NEW g \in Harts, NEW t \in Tags, ClaimStep(h, g, t)
        PROVE  pc[h] \in {"smode", "cold_domains"} /\ pc'[h] \in {"start_args", "start_kick"}
    BY <1>7 DEF ClaimStep, HartStart, DomainStart, Claim
  <1>8. ASSUME NEW f \in Fields, StartStore(h, f)
        PROVE  pc[h] = "start_args" /\ pc'[h] \in {"start_args", "start_kick"}
    BY <1>8 DEF StartStore
  <1> QED
    BY StepCases, <1>1, <1>2, <1>3, <1>4, <1>5, <1>6, <1>7, <1>8

LEMMA WakeStep ==
  ASSUME TypeOK, CallInv, BootInv, WakeInv, NEW h \in Harts, Run(h) \/ Choose(h)
  PROVE  WakeInv'
  <1>1. ASSUME NEW g \in Harts, pc'[g] \in {"warm_poll", "warm_wfi"} PROVE g \in waiting'
    BY <1>1, Frame, OwnWake DEF WakeInv
  <1>2. ASSUME NEW g \in Harts, pc'[g] = "warm_wfi", done', g \notin msip'
        PROVE  \E c \in Harts : pc'[c] = "cold_wake"
    <2>1. CASE done
      <3>1. g # h /\ pc[g] = "warm_wfi" /\ g \notin msip /\ g \in waiting
        BY <1>2, <2>1, Frame, OwnWake DEF WakeInv
      <3>2. PICK c \in Harts : pc[c] = "cold_wake"
        BY <2>1, <3>1 DEF WakeInv, ColdWakeNotLost
      <3>3. c # h
        BY <1>2, <3>1, <3>2, OwnWake
      <3> QED
        BY <3>2, <3>3, Frame
    <2>2. CASE ~done
      BY <1>2, <2>2, OwnBoot, OwnCold
    <2> QED
      BY <2>1, <2>2
  <1> QED
    BY <1>1, <1>2 DEF WakeInv, ColdWakeNotLost

LEMMA HsmInvInit == Init => HsmInv
  <1> SUFFICES ASSUME Init PROVE HsmInv
    OBVIOUS
  <1>1. TypeOK
    BY TypeInit
  <1>2. \A h \in Harts : /\ pc[h] \in {"off", "reset"} /\ state[h] = "UNINIT" /\ call[h] = NoCall
                         /\ args[h] = Whole(BootTag) /\ asked[h] = BootTag
    BY DEF Init
  <1>3. CallInv
    BY <1>2 DEF CallInv, StartPCs
  <1>4. PcState
    BY <1>2 DEF PcState, HartState, Calling, ColdPCs, StartPCs, EarlyPCs
  <1>5. BootInv
    BY <1>2 DEF Init, BootInv, ColdHart, Calling, ColdPCs, StartPCs, EarlyPCs
  <1>6. WakeInv
    BY <1>2 DEF WakeInv, ColdWakeNotLost
  <1> QED
    BY <1>1, <1>3, <1>4, <1>5, <1>6 DEF HsmInv

LEMMA HsmInvStep == HsmInv /\ [Next]_vars => HsmInv'
  <1> SUFFICES ASSUME HsmInv, [Next]_vars PROVE HsmInv'
    OBVIOUS
  <1>1. ASSUME NEW h \in Harts, Run(h) \/ Choose(h) PROVE HsmInv'
    BY <1>1, TypeStep, CallStep, PcStateStep, BootInvStep, WakeStep DEF HsmInv
  <1>2. CASE UNCHANGED vars
    BY <1>2 DEF vars, HsmInv, TypeOK, CallInv, PcState, HartState, Calling, BootInv, ColdHart, WakeInv,
         ColdWakeNotLost
  <1> QED
    BY <1>1, <1>2 DEF Next

(* The inductive invariant of boot and hart state management.              *)
THEOREM HsmInvariance == Spec => []HsmInv
  BY HsmInvInit, HsmInvStep, PTL DEF Spec

(* No hart hangs because its HSM state is not the one it expects.          *)
THEOREM NoInvalidStateHolds == Spec => []NoInvalidState
  <1>1. HsmInv => NoInvalidState
    BY DEF HsmInv, PcState, HartState, NoInvalidState
  <1> QED
    BY <1>1, HsmInvariance, PTL

(* The wake-up of wait_for_coldboot is not lost.                           *)
THEOREM ColdWakeNotLostHolds == Spec => []ColdWakeNotLost
  <1>1. HsmInv => ColdWakeNotLost
    BY DEF HsmInv, WakeInv
  <1> QED
    BY <1>1, HsmInvariance, PTL

-----------------------------------------------------------------------------
(* The harts that the device starts.                                       *)

LEMMA OwnCount ==
  ASSUME TypeOK, CallInv, NEW h \in Harts, Run(h) \/ Choose(h)
  PROVE  /\ h \in booted => h \in booted'
         /\ pc'[h] = "next_jump" => h \in booted'
         /\ state'[h] \in {"STARTED", "SUSPENDED", "RESUME_PENDING", "STOP_PENDING"} =>
              state[h] \in {"STARTED", "SUSPENDED", "RESUME_PENDING", "STOP_PENDING"} \/ pc[h] = "next_jump"
  <1> USE DEF TypeOK, bootVars, startVars, Goto
  <1>1. CASE BootStep(h)
    BY <1>1 DEF BootStep, Lottery, ColdFinalized, ColdDone, WarmPoll, WarmWfi, WarmState, HsmWait, HsmWfi,
         SpuriousWfi, WarmInit, InitFails, InitPCs, DevStop, SuspendWake, SwitchMode, CountInit, WarmMark, WarmUnmark
  <1>2. CASE IpiStep(h)
    BY <1>2 DEF IpiStep, ColdIpiInit, WarmIpiInit, ExitIpi, TakeIpi, ColdWake
  <1>3. CASE StateStep(h)
    BY <1>3 DEF StateStep, NextJump, ResumeStart, ResumeFinish, HartStop, HsmExit, SuspendCas,
         SuspendRestore, Cmpxchg
  <1>4. CASE ColdHsmInit(h)
    BY <1>4 DEF ColdHsmInit, ColdStates
  <1>5. CASE KickStep(h)
    BY <1>5, CallFacts DEF KickStep, KickByIpi, KickByDevice, KickFails, StartPCs
  <1>6. ASSUME NEW t \in Tags, ArgsStep(h, t)
        PROVE  UNCHANGED <<booted, state>> /\ pc'[h] # "next_jump"
    BY <1>6 DEF ArgsStep, Suspend, ColdOwnDomain
  <1>7. ASSUME NEW g \in Harts, NEW t \in Tags, ClaimStep(h, g, t)
        PROVE  /\ booted' = booted /\ pc'[h] # "next_jump"
               /\ state'[h] = state[h] \/ state'[h] = "START_PENDING"
    BY <1>7 DEF ClaimStep, HartStart, DomainStart, Claim
  <1>8. ASSUME NEW f \in Fields, StartStore(h, f)
        PROVE  UNCHANGED <<booted, state>> /\ pc'[h] # "next_jump"
    BY <1>8 DEF StartStore
  <1> QED
    BY StepCases, <1>1, <1>2, <1>3, <1>4, <1>5, <1>6, <1>7, <1>8

LEMMA CountedStep ==
  ASSUME TypeOK, CallInv, CountedInv, NEW h \in Harts, Run(h) \/ Choose(h)
  PROVE  CountedInv'
  BY OwnCount, Frame DEF CountedInv

(* How a call of sbi_hsm_hart_start begins, goes on and ends.              *)
LEMMA OwnCall ==
  ASSUME TypeOK, CallInv, NEW h \in Harts, Run(h) \/ Choose(h)
  PROVE  /\ call[h] # NoCall /\ call'[h] = NoCall => KickStep(h)
         /\ call'[h] # NoCall =>
              \/ /\ call[h] # NoCall /\ UNCHANGED <<state, booted>>
                 /\ call'[h].target = call[h].target /\ call'[h].counted = call[h].counted
                 /\ \A o \in Harts : o # h => pc'[o] = pc[o]
              \/ \E g \in Harts, t \in Tags : ClaimStep(h, g, t)
         /\ \A o \in Harts : o # h /\ state'[o] # state[o] =>
              ColdHsmInit(h) \/ (call'[h] # NoCall /\ call'[h].target = o)
  <1> USE DEF TypeOK, CallInv, StartPCs, bootVars, startVars, Goto
  <1>1. CASE BootStep(h)
    BY <1>1 DEF BootStep, Lottery, ColdFinalized, ColdDone, WarmPoll, WarmWfi, WarmState, HsmWait, HsmWfi,
         SpuriousWfi, WarmInit, InitFails, InitPCs, DevStop, SuspendWake, SwitchMode, CountInit, WarmMark, WarmUnmark
  <1>2. CASE IpiStep(h)
    BY <1>2 DEF IpiStep, ColdIpiInit, WarmIpiInit, ExitIpi, TakeIpi, ColdWake
  <1>3. CASE StateStep(h)
    BY <1>3 DEF StateStep, NextJump, ResumeStart, ResumeFinish, HartStop, HsmExit, SuspendCas,
         SuspendRestore, Cmpxchg
  <1>4. CASE ColdHsmInit(h)
    BY <1>4 DEF ColdHsmInit, ColdStates
  <1>5. CASE KickStep(h)
    BY <1>5, CallFacts DEF KickStep, KickByIpi, KickByDevice, KickFails
  <1>6. ASSUME NEW t \in Tags, ArgsStep(h, t)
        PROVE  UNCHANGED <<call, state>> /\ call[h] = NoCall
    BY <1>6 DEF ArgsStep, Suspend, ColdOwnDomain
  <1>7. ASSUME NEW g \in Harts, NEW t \in Tags, ClaimStep(h, g, t)
        PROVE  /\ call[h] = NoCall /\ call'[h] # NoCall
               /\ \A o \in Harts : o # h /\ state'[o] # state[o] => call'[h].target = o
    <2>1. PICK from \in {"smode", "cold_domains"} : pc[h] = from /\ Claim(h, g, t, from)
      BY <1>7 DEF ClaimStep, HartStart, DomainStart
    <2>2. call'[h] # NoCall /\ call'[h].target = g
      BY <2>1, ClaimCall, NoCallAssumption
    <2> QED
      BY <2>1, <2>2 DEF Claim
  <1>8. ASSUME NEW f \in Fields, StartStore(h, f)
        PROVE  /\ call[h] # NoCall /\ call'[h] # NoCall /\ UNCHANGED <<state, booted>>
               /\ call'[h].target = call[h].target /\ call'[h].counted = call[h].counted
               /\ \A o \in Harts : o # h => pc'[o] = pc[o]
    <2>1. call[h] # NoCall /\ call'[h] \in Calls
      BY <1>8, StoreCall, CallFacts DEF StartStore
    <2>2. call'[h].target = call[h].target /\ call'[h].counted = call[h].counted
      BY <1>8, StoreCall
    <2> QED
      BY <1>8, <2>1, <2>2, NoCallAssumption DEF StartStore
  <1> QED
    BY StepCases, <1>1, <1>2, <1>3, <1>4, <1>5, <1>6, <1>7, <1>8

(* A hart that only the device starts is STOPPED only when it is off, or   *)
(* on its way there.                                                       *)
LEMMA StoppedIsOff ==
  ASSUME TypeOK, CallInv, PcState, BootInv, DeviceInv, lottery,
         NEW g \in Harts, Offline(g), state[g] = "STOPPED"
  PROVE  pc[g] = "off" \/ (HsmDev = "hotplug" /\ pc[g] \in {"dev_stop", "hung"})
  <1>1. pc[g] \notin ColdPCs
    BY DEF PcState, HartState, BootInv, ColdPCs
  <1>2. pc[g] \notin StartPCs
    <2> SUFFICES ASSUME pc[g] \in StartPCs PROVE FALSE
      OBVIOUS
    <2>1. call[g].from \in {"smode", "cold_domains"}
      BY CallFacts
    <2> QED
      BY <2>1 DEF PcState, HartState, Calling
  <1>3. pc[g] \notin {"warm_init", "warm_ipi", "warm_count", "next_jump", "switch", "exit_ipi", "hsm_exit", "invalid"}
                     \cup SmodePCs \cup ResumePCs
    BY DEF PcState, HartState, SmodePCs, ResumePCs
  <1>4. pc[g] \notin {"reset", "warm_mark", "warm_poll", "warm_wfi", "warm_unmark", "warm_state", "hsm_wait", "hsm_wfi"}
    BY DEF DeviceInv, ComesUpWanted, EarlyPCs
  <1>5. pc[g] \in {"dev_stop", "hung"} => HsmDev = "hotplug"
    BY DEF DeviceInv, ComesUpWanted
  <1>6. pc[g] \in PCs
    BY DEF TypeOK
  <1> QED
    BY <1>1, <1>2, <1>3, <1>4, <1>5, <1>6 DEF PCs, WarmPCs, StopPCs

(* The moves of a hart that matter to ComesUpWanted.                       *)
LEMMA OwnUp ==
  ASSUME TypeOK, CallInv, PcState, BootInv, DeviceInv, NEW h \in Harts, Run(h) \/ Choose(h)
  PROVE  /\ pc[h] # "off"
         /\ pc'[h] = "off" \/ pc'[h] = "dev_stop" => HsmDev = "hotplug"
         /\ pc'[h] = "hsm_wfi" => pc[h] = "hsm_wait" /\ state[h] # "START_PENDING"
         /\ pc'[h] = "hung" => HsmDev = "hotplug" \/ (state'[h] = state[h] /\ state[h] # "STOPPED")
         /\ pc'[h] \in (EarlyPCs \ {"off"}) \cup {"warm_unmark", "warm_state", "hsm_wait"} =>
              \/ HsmDev # "hotplug" /\ h \in booted
              \/ state' = state /\ state[h] = "SUSPENDED"
              \/ state' = state /\ pc[h] = "hsm_wfi"
              \/ /\ state' = state /\ lottery' = lottery
                 /\ pc[h] \in (EarlyPCs \ {"off"}) \cup {"warm_unmark", "warm_state", "hsm_wait"}
  <1>1. HartState(h) /\ (pc[h] = "cold_hsm" => state[h] = "UNINIT")
    BY DEF PcState, BootInv
  <1>2. (pc[h] = "dev_stop" => HsmDev = "hotplug") /\ (state[h] = "STOP_PENDING" => h \in booted)
    BY DEF DeviceInv, ComesUpWanted, CountedInv
  <1> USE <1>1 DEF TypeOK, EarlyPCs, ColdPCs, HartState, bootVars, startVars, Goto
  <1>3. CASE BootStep(h)
    BY <1>2, <1>3, ZenonT(30) DEF BootStep, Lottery, ColdFinalized, ColdDone, WarmPoll, WarmWfi, WarmState, HsmWait, HsmWfi,
         SpuriousWfi, WarmInit, InitFails, InitPCs, DevStop, SuspendWake, SwitchMode, CountInit, WarmMark, WarmUnmark
  <1>4. CASE IpiStep(h)
    BY <1>4 DEF IpiStep, ColdIpiInit, WarmIpiInit, ExitIpi, TakeIpi, ColdWake
  <1>5. CASE StateStep(h)
    BY <1>2, <1>5 DEF StateStep, NextJump, ResumeStart, ResumeFinish, HartStop, HsmExit, SuspendCas,
         SuspendRestore, Cmpxchg
  <1>6. CASE ColdHsmInit(h)
    BY <1>6 DEF ColdHsmInit, ColdStates
  <1>7. CASE KickStep(h)
    BY <1>7, CallFacts DEF KickStep, KickByIpi, KickByDevice, KickFails, StartPCs, Calling
  <1>8. ASSUME NEW t \in Tags, ArgsStep(h, t)
        PROVE  pc[h] \in {"smode", "cold_domains"} /\ pc'[h] \in {"susp_cas", "cold_domains"}
    BY <1>8 DEF ArgsStep, Suspend, ColdOwnDomain
  <1>9. ASSUME NEW g \in Harts, NEW t \in Tags, ClaimStep(h, g, t)
        PROVE  pc[h] \in {"smode", "cold_domains"} /\ pc'[h] \in StartPCs
    BY <1>9 DEF ClaimStep, HartStart, DomainStart, Claim, StartPCs
  <1>10. ASSUME NEW f \in Fields, StartStore(h, f)
         PROVE  pc[h] = "start_args" /\ pc'[h] \in StartPCs
    BY <1>10 DEF StartStore, StartPCs
  <1> QED
    BY StepCases, <1>3, <1>4, <1>5, <1>6, <1>7, <1>8, <1>9, <1>10 DEF StartPCs

LEMMA ComesUpStep ==
  ASSUME TypeOK, CallInv, PcState, BootInv, DeviceInv, NEW h \in Harts, Run(h) \/ Choose(h)
  PROVE  ComesUpWanted'
  <1> DEFINE W == (EarlyPCs \ {"off"}) \cup {"warm_unmark", "warm_state", "hsm_wait"}
  <1>1. ASSUME HsmDev # "none", ~lottery', NEW f \in Harts, NEW g \in Harts, pc'[f] # "off", pc'[g] # "off"
        PROVE  f = g
    <2>1. ~lottery /\ pc[h] \in EarlyPCs
      BY <1>1, OwnBoot DEF BootInv
    <2>2. ~KickByDevice(h)
      BY <2>1 DEF KickByDevice, EarlyPCs
    <2>3. pc[f] # "off" /\ pc[g] # "off"
      BY <1>1, <2>2, Frame, OwnUp
    <2> QED
      BY <1>1, <2>1, <2>3 DEF DeviceInv, ComesUpWanted
  <1>2. ASSUME NEW x \in Harts, Offline(x)' PROVE Offline(x)
    BY <1>2, Frame, OwnCount DEF Offline
  <1>3. ASSUME NEW x \in Harts, Offline(x)', lottery', pc'[x] \in W
        PROVE  state'[x] \in {"START_PENDING", "SUSPENDED"}
    <2>1. Offline(x)
      BY <1>2, <1>3
    <2>2. CASE x = h
      <3>1. ~(HsmDev # "hotplug" /\ h \in booted) /\ pc[h] # "hsm_wfi"
        BY <2>1, <2>2 DEF Offline, DeviceInv, ComesUpWanted
      <3>2. CASE state' = state /\ state[h] = "SUSPENDED"
        BY <2>2, <3>2
      <3>3. CASE state' = state /\ lottery' = lottery /\ pc[h] \in W
        BY <1>3, <2>1, <2>2, <3>3 DEF DeviceInv, ComesUpWanted
      <3> QED
        BY <1>3, <2>2, <3>1, <3>2, <3>3, OwnUp
    <2>3. CASE x # h /\ pc'[x] = pc[x]
      <3>1. lottery
        <4> SUFFICES ASSUME ~lottery PROVE FALSE
          OBVIOUS
        <4>1. pc[x] # "off" /\ pc[h] # "off" /\ HsmDev # "none"
          BY <1>3, <2>1, <2>3, OwnUp DEF EarlyPCs, Offline
        <4> QED
          BY <2>3, <4>1 DEF DeviceInv, ComesUpWanted
      <3>2. state[x] \in {"START_PENDING", "SUSPENDED"}
        BY <1>3, <2>1, <2>3, <3>1 DEF DeviceInv, ComesUpWanted
      <3>3. ~ColdHsmInit(h)
        BY <3>2 DEF ColdHsmInit, ColdStates, BootInv
      <3> QED
        BY <2>3, <3>2, <3>3, Frame
    <2>4. CASE x # h /\ pc'[x] # pc[x]
      <3>1. KickByDevice(h) /\ x = call[h].target
        BY <2>4, Frame
      <3>2. call[h] # NoCall /\ ByDevice(call[h])
        BY <3>1, CallFacts DEF KickByDevice, StartPCs
      <3>3. state[x] = "START_PENDING" /\ state' = state
        BY <3>1, <3>2 DEF DeviceInv, DeviceCallInv, KickByDevice
      <3> QED
        BY <3>3
    <2> QED
      BY <2>2, <2>3, <2>4
  <1>4. ASSUME NEW x \in Harts, pc'[x] = "hsm_wfi" PROVE ~Offline(x)'
    <2>1. CASE x = h
      <3>1. pc[h] = "hsm_wait" /\ state[h] # "START_PENDING" /\ lottery
        BY <1>4, <2>1, OwnUp DEF BootInv, EarlyPCs
      <3>2. state[h] = "STOPPED"
        BY <3>1 DEF PcState, HartState
      <3> QED
        BY <1>2, <2>1, <3>1, <3>2 DEF DeviceInv, ComesUpWanted
    <2>2. CASE x # h
      BY <1>2, <1>4, <2>2, Frame DEF DeviceInv, ComesUpWanted
    <2> QED
      BY <2>1, <2>2
  <1>5. ASSUME NEW x \in Harts, pc'[x] = "off" PROVE Offline(x)'
    BY <1>5, Frame, OwnUp DEF DeviceInv, ComesUpWanted, Offline
  <1>6. ASSUME NEW x \in Harts, pc'[x] = "dev_stop" PROVE HsmDev = "hotplug"
    BY <1>6, Frame, OwnUp DEF DeviceInv, ComesUpWanted
  <1>7. ASSUME NEW x \in Harts, pc'[x] = "hung", HsmDev # "hotplug" PROVE state'[x] # "STOPPED"
    <2>1. x # h /\ ColdHsmInit(h) => pc[x] \in EarlyPCs
      BY DEF ColdHsmInit, ColdStates, BootInv
    <2> QED
      BY <1>7, <2>1, Frame, OwnUp DEF DeviceInv, ComesUpWanted, EarlyPCs
  <1> QED
    BY <1>1, <1>3, <1>4, <1>5, <1>6, <1>7 DEF ComesUpWanted

(* A hart that is off or on its way there does not leave it by itself.     *)
LEMMA DownStep ==
  ASSUME TypeOK, CallInv, NEW h \in Harts, Run(h) \/ Choose(h), pc[h] \in {"off", "dev_stop", "hung"}
  PROVE  state' = state /\ pc[h] = "dev_stop" /\ pc'[h] \in {"off", "hung"}
  <1> USE DEF TypeOK, bootVars, startVars, Goto
  <1>1. CASE BootStep(h)
    BY <1>1 DEF BootStep, Lottery, ColdFinalized, ColdDone, WarmPoll, WarmWfi, WarmState, HsmWait, HsmWfi,
         SpuriousWfi, WarmInit, InitFails, InitPCs, DevStop, SuspendWake, SwitchMode, CountInit, WarmMark, WarmUnmark
  <1>2. ~IpiStep(h)
    BY DEF IpiStep, ColdIpiInit, WarmIpiInit, ExitIpi, TakeIpi, ColdWake
  <1>3. ~StateStep(h) /\ ~ColdHsmInit(h)
    BY DEF StateStep, NextJump, ResumeStart, ResumeFinish, HartStop, HsmExit, SuspendCas, SuspendRestore, ColdHsmInit, ColdStates
  <1>4. ~KickStep(h) /\ \A f \in Fields : ~StartStore(h, f)
    BY DEF KickStep, KickByIpi, KickByDevice, KickFails, StartStore
  <1>5. \A t \in Tags : ~ArgsStep(h, t) /\ \A g \in Harts : ~ClaimStep(h, g, t)
    BY DEF ArgsStep, Suspend, ColdOwnDomain, ClaimStep, HartStart, DomainStart
  <1> QED
    BY StepCases, <1>1, <1>2, <1>3, <1>4, <1>5

LEMMA DeviceCallStep ==
  ASSUME TypeOK, CallInv, PcState, BootInv, DeviceInv, NEW h \in Harts, Run(h) \/ Choose(h)
  PROVE  DeviceCallInv'
  <1> DEFINE Down(s, l, g) == /\ s[g] = "START_PENDING"
                              /\ l[g] = "off" \/ (HsmDev = "hotplug" /\ l[g] \in {"dev_stop", "hung"})
  <1>1. ASSUME NEW x \in Harts, call[x] # NoCall, ByDevice(call[x])
        PROVE  /\ call[x].target \in Harts /\ Down(state, pc, call[x].target)
               /\ \A g \in Harts : call[g] # NoCall /\ call[g].target = call[x].target => g = x
    BY <1>1, CallFacts DEF DeviceInv, DeviceCallInv, CallInv
  <1>2. \A x \in Harts : call[x] # NoCall /\ call[x].counted => call[x].target \in booted
    BY DEF DeviceInv, DeviceCallInv
  <1>3. \A g \in Harts : g \in booted => g \in booted'
    BY Frame, OwnCount
  (* The harts in a call keep away from the cold boot's writes.            *)
  <1>4. ASSUME NEW x \in Harts, call[x] # NoCall PROVE ~ColdHsmInit(h)
    BY <1>4 DEF CallInv, StartPCs, ColdHsmInit, ColdStates, BootInv, EarlyPCs
  (* Another hart's call.                                                  *)
  <1>5. ASSUME NEW x \in Harts, x # h, call'[x] # NoCall, ByDevice(call'[x])
        PROVE  /\ Down(state', pc', call'[x].target)
               /\ \A g \in Harts : call'[g] # NoCall /\ call'[g].target = call'[x].target => g = x
    <2>1. call'[x] = call[x]
      BY <1>5, Frame
    <2> DEFINE y == call[x].target
    <2>2. /\ y \in Harts /\ Down(state, pc, y) /\ ByDevice(call[x]) /\ call[x] # NoCall
          /\ \A g \in Harts : call[g] # NoCall /\ call[g].target = y => g = x
      BY <1>1, <1>5, <2>1
    <2>3. Down(state', pc', y)
      <3>1. CASE y = h
        <4>1. pc[h] \in {"off", "dev_stop", "hung"}
          BY <2>2, <3>1
        <4> QED
          BY <2>2, <3>1, <4>1, DownStep
      <3>2. CASE y # h
        <4>1. ~(KickByDevice(h) /\ y = call[h].target)
          BY <1>5, <2>2, CallFacts DEF KickByDevice, StartPCs
        <4>2. ~ColdHsmInit(h)
          BY <1>4, <2>2
        <4> QED
          BY <2>2, <3>2, <4>1, <4>2, Frame
      <3> QED
        BY <3>1, <3>2
    <2>4. ASSUME NEW g \in Harts, call'[g] # NoCall, call'[g].target = y PROVE g = x
      <3>1. CASE g # h
        BY <2>2, <2>4, <3>1, Frame
      <3>2. CASE g = h /\ call[h] # NoCall /\ call'[h].target = call[h].target
        BY <2>2, <2>4, <3>2
      <3>3. ASSUME g = h, NEW z \in Harts, NEW t \in Tags, ClaimStep(h, z, t) PROVE FALSE
        <4>1. PICK from \in {"smode", "cold_domains"} : Claim(h, z, t, from)
          BY <3>3 DEF ClaimStep, HartStart, DomainStart
        <4>2. z = y
          BY <2>4, <3>3, <4>1, ClaimCall
        <4> QED
          BY <2>2, <4>1, <4>2 DEF Claim
      <3> QED
        BY <2>4, <3>1, <3>2, <3>3, OwnCall
    <2> QED
      BY <2>1, <2>3, <2>4
  (* The hart's own call, going on ...                                     *)
  <1>6. ASSUME call'[h] # NoCall, ByDevice(call'[h]), call[h] # NoCall, UNCHANGED <<state, booted>>,
               call'[h].target = call[h].target, call'[h].counted = call[h].counted,
               \A o \in Harts : o # h => pc'[o] = pc[o]
        PROVE  /\ Down(state', pc', call'[h].target)
               /\ \A g \in Harts : call'[g] # NoCall /\ call'[g].target = call'[h].target => g = h
    <2> DEFINE y == call[h].target
    <2>1. /\ y \in Harts /\ Down(state, pc, y)
          /\ \A g \in Harts : call[g] # NoCall /\ call[g].target = y => g = h
      BY <1>1, <1>6 DEF ByDevice
    <2>2. y # h
      BY <1>6, <2>1 DEF CallInv, StartPCs
    <2> QED
      BY <1>6, <2>1, <2>2, Frame
  (* ... or beginning.                                                     *)
  <1>7. ASSUME NEW z \in Harts, NEW t \in Tags, ClaimStep(h, z, t)
        PROVE  /\ call'[h].target = z /\ (call'[h].counted => z \in booted)
               /\ ByDevice(call'[h]) =>
                    /\ Down(state', pc', z)
                    /\ \A g \in Harts : call'[g] # NoCall /\ call'[g].target = z => g = h
    <2>1. PICK from \in {"smode", "cold_domains"} : pc[h] = from /\ Claim(h, z, t, from)
      BY <1>7 DEF ClaimStep, HartStart, DomainStart
    <2>2. call'[h].target = z /\ call'[h].counted = (z \in booted)
      BY <2>1, ClaimCall
    <2>3. state[z] = "STOPPED" /\ state'[z] = "START_PENDING"
      BY <2>1 DEF Claim, TypeOK
    <2>4. z # h /\ lottery
      BY <2>1, <2>3 DEF PcState, HartState, ColdPCs, BootInv, EarlyPCs
    <2>5. pc'[z] = pc[z]
      BY <2>1, <2>4 DEF Claim, Goto, TypeOK
    <2>6. ASSUME ByDevice(call'[h]) PROVE Offline(z)
      BY <2>2, <2>6 DEF ByDevice, Offline
    <2>7. ASSUME ByDevice(call'[h]) PROVE Down(state', pc', z)
      BY <2>3, <2>4, <2>5, <2>6, <2>7, StoppedIsOff
    <2>8. ASSUME ByDevice(call'[h]), NEW g \in Harts, g # h, call'[g] # NoCall, call'[g].target = z PROVE FALSE
      <3>1. call[g] # NoCall /\ call[g].target = z
        BY <2>8, Frame
      <3>2. ~ByDevice(call[g])
        BY <1>1, <2>3, <3>1
      <3>3. HsmDev = "secondary" /\ z \in booted
        BY <1>2, <2>8, <3>1, <3>2 DEF ByDevice
      <3> QED
        BY <2>2, <2>8, <3>3 DEF ByDevice
    <2> QED
      BY <2>2, <2>7, <2>8
  <1>8. ASSUME NEW x \in Harts, call'[x] # NoCall, call'[x].counted PROVE call'[x].target \in booted'
    <2>1. CASE x # h
      <3>1. call[x] # NoCall /\ call[x].counted /\ call'[x].target = call[x].target
        BY <1>8, <2>1, Frame
      <3>2. call[x].target \in Harts
        BY <3>1, CallFacts DEF CallInv
      <3> QED
        BY <1>2, <1>3, <3>1, <3>2
    <2>2. CASE x = h
      BY <1>2, <1>3, <1>7, <1>8, <2>2, OwnCall
    <2> QED
      BY <2>1, <2>2
  <1>9. ASSUME NEW x \in Harts, call'[x] # NoCall, ByDevice(call'[x])
        PROVE  /\ Down(state', pc', call'[x].target)
               /\ \A g \in Harts : call'[g] # NoCall /\ call'[g].target = call'[x].target => g = x
    <2> HIDE DEF Down
    <2> QED
      BY <1>5, <1>6, <1>7, <1>9, OwnCall
  <1> QED
    BY <1>8, <1>9 DEF DeviceCallInv, ByDevice

(* A hart in sbi_hsm_hart_wait does not change its state.                  *)
LEMMA WaitStep ==
  ASSUME TypeOK, NEW h \in Harts, Run(h) \/ Choose(h), pc[h] = "hsm_wait"
  PROVE  state' = state
  <1>1. CASE BootStep(h)
    BY <1>1 DEF BootStep, Lottery, ColdFinalized, ColdDone, WarmPoll, WarmWfi, WarmState, HsmWait, HsmWfi,
         SpuriousWfi, WarmInit, InitFails, InitPCs, DevStop, SuspendWake, SwitchMode, CountInit, WarmMark, WarmUnmark
  <1>2. ~IpiStep(h)
    BY DEF IpiStep, ColdIpiInit, WarmIpiInit, ExitIpi, TakeIpi, ColdWake
  <1>3. ~StateStep(h) /\ ~ColdHsmInit(h)
    BY DEF StateStep, NextJump, ResumeStart, ResumeFinish, HartStop, HsmExit, SuspendCas, SuspendRestore, ColdHsmInit, ColdStates
  <1>4. ~KickStep(h) /\ \A f \in Fields : ~StartStore(h, f)
    BY DEF KickStep, KickByIpi, KickByDevice, KickFails, StartStore
  <1>5. \A t \in Tags : ~ArgsStep(h, t) /\ \A g \in Harts : ~ClaimStep(h, g, t)
    BY DEF ArgsStep, Suspend, ColdOwnDomain, ClaimStep, HartStart, DomainStart
  <1> QED
    BY StepCases, <1>1, <1>2, <1>3, <1>4, <1>5

(* A call in progress ends with an interrupt or by the device.             *)
LEMMA StartNotLostStep ==
  ASSUME TypeOK, CallInv, PcState, BootInv, DeviceInv, StartNotLost, NEW h \in Harts, Run(h) \/ Choose(h)
  PROVE  StartNotLost'
  <1> SUFFICES ASSUME NEW x \in Harts, pc'[x] = "hsm_wfi", state'[x] = "START_PENDING", x \notin msip'
               PROVE  \E g \in Harts : call'[g] # NoCall /\ call'[g].target = x
    BY DEF StartNotLost
  <1>1. x # h
    <2> SUFFICES ASSUME x = h PROVE FALSE
      OBVIOUS
    <2>1. pc[h] = "hsm_wait" /\ state[h] # "START_PENDING"
      BY OwnUp
    <2> QED
      BY <2>1, WaitStep
  <1>2. pc[x] = "hsm_wfi" /\ x \notin msip
    BY <1>1, Frame
  <1>3. CASE state[x] = "START_PENDING"
    <2>1. PICK g \in Harts : call[g] # NoCall /\ call[g].target = x
      BY <1>2, <1>3 DEF StartNotLost
    <2>2. CASE g # h
      BY <2>1, <2>2, Frame
    <2>3. CASE g = h
      <3>1. ~KickStep(h)
        <4>1. ~KickByIpi(h)
          BY <2>1, <2>3 DEF KickByIpi, TypeOK
        <4>2. ~ByDevice(call[h])
          BY <1>2, <2>1, <2>3 DEF DeviceInv, DeviceCallInv
        <4> QED
          BY <4>1, <4>2 DEF KickStep, KickByDevice, KickFails
      <3>2. pc[h] \in StartPCs /\ call'[h] # NoCall
        BY <2>1, <2>3, <3>1, OwnCall DEF CallInv
      <3>3. \A z \in Harts, t \in Tags : ~ClaimStep(h, z, t)
        BY <3>2 DEF ClaimStep, HartStart, DomainStart, StartPCs
      <3> QED
        BY <2>1, <2>3, <3>2, <3>3, OwnCall
    <2> QED
      BY <2>2, <2>3
  <1>4. CASE state[x] # "START_PENDING"
    BY <1>1, <1>4, OwnCall DEF ColdHsmInit, ColdStates, TypeOK
  <1> QED
    BY <1>3, <1>4

LEMMA StartInvInit == Init => StartInv
  <1> SUFFICES ASSUME Init PROVE StartInv
    OBVIOUS
  <1>1. PICK b \in Capable : pc = [h \in Harts |-> IF HsmDev = "none" \/ h = b THEN "reset" ELSE "off"]
    BY DEF Init
  <1>2. \A h \in Harts : state[h] = "UNINIT" /\ call[h] = NoCall
    BY DEF Init
  <1>3. ComesUpWanted
    BY <1>1, HsmAssumption DEF Init, ComesUpWanted, Offline, EarlyPCs
  <1>4. CountedInv /\ DeviceCallInv /\ StartNotLost
    BY <1>1, <1>2 DEF CountedInv, DeviceCallInv, StartNotLost
  <1> QED
    BY <1>3, <1>4 DEF StartInv, DeviceInv

LEMMA StartInvStep == HsmInv /\ StartInv /\ [Next]_vars => StartInv'
  <1> SUFFICES ASSUME HsmInv, StartInv, [Next]_vars PROVE StartInv'
    OBVIOUS
  <1>1. ASSUME NEW h \in Harts, Run(h) \/ Choose(h) PROVE StartInv'
    BY <1>1, ComesUpStep, CountedStep, DeviceCallStep, StartNotLostStep DEF HsmInv, StartInv, DeviceInv
  <1>2. CASE UNCHANGED vars
    BY <1>2 DEF vars, StartInv, DeviceInv, ComesUpWanted, Offline, CountedInv, DeviceCallInv, ByDevice, StartNotLost
  <1> QED
    BY <1>1, <1>2 DEF Next

(* The invariant of the harts that a device starts.                        *)
THEOREM StartInvariance == Spec => []StartInv
  BY StartInvInit, StartInvStep, HsmInvariance, PTL DEF Spec

(* No wake-up of sbi_hsm_hart_wait is lost, whatever device there is.      *)
THEOREM StartNotLostHolds == Spec => []StartNotLost
  BY StartInvariance, PTL DEF StartInv

(* A device without hart_stop is only ever asked to start harts that are   *)
(* off: init_count, read after the claim, is never out of date.            *)
THEOREM DeviceStartsOffHolds == Spec => []DeviceStartsOff
  <1>1. HsmInv /\ StartInv => DeviceStartsOff
    <2> SUFFICES ASSUME HsmInv, StartInv, NEW h \in Harts, pc[h] = "start_kick", HsmDev = "secondary",
                        ByDevice(call[h])
                 PROVE  pc[call[h].target] = "off"
      BY DEF DeviceStartsOff
    <2>1. call[h] # NoCall
      BY DEF HsmInv, CallInv, StartPCs
    <2> QED
      BY <2>1 DEF StartInv, DeviceInv, DeviceCallInv
  <1> QED
    BY <1>1, HsmInvariance, StartInvariance, PTL
-----------------------------------------------------------------------------
LEMMA PendingStep ==
  ASSUME ~MayFail, HsmDev # "hotplug", HsmInv, StartInv, PendingHartIsComing, [Next]_vars
  PROVE  PendingHartIsComing'
  <1>1. CASE UNCHANGED vars
    BY <1>1 DEF vars, PendingHartIsComing
  <1>2. ASSUME NEW h \in Harts, Run(h) \/ Choose(h) PROVE PendingHartIsComing'
    <2> USE <1>2 DEF HsmInv, StartInv
    <2> SUFFICES ASSUME NEW x \in Harts, pc'[x] = "off", state'[x] = "START_PENDING"
                 PROVE  \E g \in Harts : call'[g] # NoCall /\ call'[g].target = x
      BY DEF PendingHartIsComing
    <2>1. x # h /\ pc[x] = "off"
      BY Frame, OwnUp
    <2>2. x \notin booted
      BY <2>1 DEF DeviceInv, ComesUpWanted, Offline
    <2>3. CASE state[x] = "START_PENDING"
      <3>1. PICK g \in Harts : call[g] # NoCall /\ call[g].target = x
        BY <2>1, <2>3 DEF PendingHartIsComing
      <3>2. CASE g # h
        BY <3>1, <3>2, Frame
      <3>3. CASE g = h
        <4>1. ~KickByIpi(h)
          <5>1. ~call[h].counted
            BY <2>2, <3>1, <3>3 DEF DeviceInv, DeviceCallInv
          <5>2. HsmDev = "secondary"
            BY <2>1, HsmAssumption DEF DeviceInv, ComesUpWanted, Offline
          <5> QED
            BY <5>1, <5>2 DEF KickByIpi, ByDevice
        <4>2. ~KickByDevice(h)
          BY <2>1, <3>1, <3>3 DEF KickByDevice, TypeOK
        <4>3. ~KickFails(h)
          BY <2>1, <3>1, <3>3 DEF KickFails
        <4>4. pc[h] \in StartPCs /\ call'[h] # NoCall
          BY <3>1, <3>3, <4>1, <4>2, <4>3, OwnCall DEF CallInv, KickStep
        <4>5. \A z \in Harts, t \in Tags : ~ClaimStep(h, z, t)
          BY <4>4 DEF ClaimStep, HartStart, DomainStart, StartPCs
        <4> QED
          BY <3>1, <3>3, <4>4, <4>5, OwnCall
      <3> QED
        BY <3>2, <3>3
    <2>4. CASE state[x] # "START_PENDING"
      BY <2>1, <2>4, OwnCall DEF ColdHsmInit, ColdStates, TypeOK
    <2> QED
      BY <2>3, <2>4
  <1> QED
    BY <1>1, <1>2 DEF Next

(* Without device errors, and without hotplug, no hart is left off and     *)
(* START_PENDING with nobody starting it.                                  *)
THEOREM PendingHartIsComingHolds ==
    ~MayFail /\ HsmDev # "hotplug" => (Spec => []PendingHartIsComing)
  <1> SUFFICES ASSUME ~MayFail, HsmDev # "hotplug" PROVE Spec => []PendingHartIsComing
    OBVIOUS
  <1>1. Init => PendingHartIsComing
    BY DEF Init, PendingHartIsComing
  <1>2. HsmInv /\ StartInv /\ PendingHartIsComing /\ [Next]_vars => PendingHartIsComing'
    BY PendingStep
  <1> QED
    BY <1>1, <1>2, HsmInvariance, StartInvariance, PTL DEF Spec
-----------------------------------------------------------------------------
(* The arguments of a hart that only a device starts.                      *)

(* Nobody writes the arguments of hart x that a step does not name, nor    *)
(* what it was asked, and calls other than the stepping hart's stand.      *)
LEMMA ArgsFrame ==
  ASSUME TypeOK, CallInv, NEW h \in Harts, Run(h) \/ Choose(h), ~(\E f \in Fields : StartStore(h, f)),
         ~(\E t \in Tags : ArgsStep(h, t)), ~(\E g \in Harts, t \in Tags : ClaimStep(h, g, t))
  PROVE  /\ UNCHANGED <<args, asked>>
         /\ call'[h] = call[h] \/ (KickStep(h) /\ pc[h] = "start_kick" /\ call'[h] = NoCall)
  <1> USE DEF TypeOK, bootVars, startVars
  <1>1. CASE BootStep(h)
    BY <1>1 DEF BootStep, Lottery, ColdFinalized, ColdDone, WarmPoll, WarmWfi, WarmState, HsmWait, HsmWfi,
         SpuriousWfi, WarmInit, InitFails, DevStop, SuspendWake, SwitchMode, CountInit, WarmMark, WarmUnmark
  <1>2. CASE IpiStep(h)
    BY <1>2 DEF IpiStep, ColdIpiInit, WarmIpiInit, ExitIpi, TakeIpi, ColdWake
  <1>3. CASE StateStep(h) \/ ColdHsmInit(h)
    BY <1>3 DEF StateStep, NextJump, ResumeStart, ResumeFinish, HartStop, HsmExit, SuspendCas, SuspendRestore,
         ColdHsmInit
  <1>4. CASE KickStep(h)
    BY <1>4 DEF KickStep, KickByIpi, KickByDevice, KickFails
  <1> QED
    BY StepCases, <1>1, <1>2, <1>3, <1>4

(* A hart that stores its own arguments is running, so no call is about it.*)
LEMMA NoCallOnRunning ==
  ASSUME TypeOK, CallInv, DeviceCallInv, HsmDev = "hotplug", NEW g \in Harts, call[g] # NoCall
  PROVE  /\ pc[g] \in StartPCs /\ call[g] \in Calls /\ call[g].target \in Harts
         /\ state[call[g].target] = "START_PENDING"
         /\ pc[call[g].target] \in {"off", "dev_stop", "hung"}
         /\ \A x \in Harts : call[x] # NoCall /\ call[x].target = call[g].target => x = g
  BY CallFacts DEF CallInv, DeviceCallInv, ByDevice

LEMMA ArgsInvStep ==
  ASSUME TypeOK, CallInv, DeviceCallInv, ArgsInv, NEW h \in Harts, Run(h) \/ Choose(h)
  PROVE  ArgsInv'
  <1> SUFFICES ASSUME HsmDev = "hotplug", NEW x \in Harts
               PROVE  /\ \A f \in Fields : args'[x][f] # asked'[x] =>
                           \E g \in Harts : call'[g] # NoCall /\ call'[g].target = x /\ f \in call'[g].todo
                      /\ call'[x] # NoCall =>
                           /\ call'[x].tag = asked'[call'[x].target]
                           /\ pc'[x] = "start_kick" => call'[x].todo = {}
    BY DEF ArgsInv
  <1> DEFINE Missing(f) == \E g \in Harts : call[g] # NoCall /\ call[g].target = x /\ f \in call[g].todo
  <1>1. \A f \in Fields : args[x][f] # asked[x] => Missing(f)
    BY DEF ArgsInv
  <1>2. \A g \in Harts : call[g] # NoCall =>
          call[g].tag = asked[call[g].target] /\ (pc[g] = "start_kick" => call[g].todo = {})
    BY DEF ArgsInv
  <1>3. \A o \in Harts : o # h => call'[o] = call[o] /\ (pc'[o] = "start_kick" <=> pc[o] = "start_kick")
    BY Frame
  <1>4. CASE /\ ~(\E f \in Fields : StartStore(h, f))
             /\ ~(\E t \in Tags : ArgsStep(h, t))
             /\ ~(\E g \in Harts, t \in Tags : ClaimStep(h, g, t))
    <2>1. /\ UNCHANGED <<args, asked>>
          /\ call'[h] = call[h] \/ (pc[h] = "start_kick" /\ call'[h] = NoCall)
      BY <1>4, ArgsFrame
    <2>2. ASSUME NEW f \in Fields, args'[x][f] # asked'[x]
          PROVE  \E g \in Harts : call'[g] # NoCall /\ call'[g].target = x /\ f \in call'[g].todo
      <3>1. PICK g \in Harts : call[g] # NoCall /\ call[g].target = x /\ f \in call[g].todo
        BY <1>1, <2>1, <2>2
      <3>2. call'[g] = call[g]
        BY <1>2, <1>3, <2>1, <3>1
      <3> QED
        BY <3>1, <3>2
    <2>3. call'[x] # NoCall /\ pc'[x] = "start_kick" => pc[x] = "start_kick"
      <3>1. CASE x = h
        <4> SUFFICES ASSUME call'[h] # NoCall, pc'[h] = "start_kick" PROVE pc[h] = "start_kick"
          BY <3>1
        <4> USE DEF TypeOK, Goto
        <4>0. pc[h] \in StartPCs
          BY <2>1 DEF CallInv
        <4>1. ~KickStep(h)
          BY CallFacts, <4>0 DEF KickStep, KickByIpi, KickByDevice, KickFails
        <4>2. ~IpiStep(h) /\ ~StateStep(h) /\ ~ColdHsmInit(h) /\ ~BootStep(h)
          BY <4>0 DEF IpiStep, ColdIpiInit, WarmIpiInit, ExitIpi, TakeIpi, ColdWake, StateStep, NextJump, ResumeStart,
             ResumeFinish, HartStop, HsmExit, SuspendCas, SuspendRestore, ColdHsmInit, BootStep, Lottery, ColdFinalized,
             ColdDone, WarmPoll, WarmWfi, WarmState, HsmWait, HsmWfi, SpuriousWfi, WarmInit, InitFails, InitPCs, DevStop,
             SuspendWake, SwitchMode, CountInit, WarmMark, WarmUnmark, StartPCs
        <4> QED
          BY <1>4, <4>1, <4>2, StepCases
      <3> QED
        BY <1>3, <3>1
    <2> QED
      BY <1>2, <1>3, <2>1, <2>2, <2>3
  <1>5. ASSUME NEW t \in Tags, ArgsStep(h, t)
        PROVE  /\ \A f \in Fields : args'[x][f] # asked'[x] =>
                    \E g \in Harts : call'[g] # NoCall /\ call'[g].target = x /\ f \in call'[g].todo
               /\ call'[x] # NoCall =>
                    /\ call'[x].tag = asked'[call'[x].target]
                    /\ pc'[x] = "start_kick" => call'[x].todo = {}
    <2> DEFINE w == Whole(t)
    <2>1. /\ args' = [args EXCEPT ![h] = w] /\ asked' = [asked EXCEPT ![h] = t] /\ call' = call
          /\ pc[h] \in {"smode", "cold_domains"} /\ pc'[h] # "start_kick"
      BY <1>5 DEF ArgsStep, Suspend, ColdOwnDomain, Goto, TypeOK
    <2>2. \A f \in Fields : w[f] = t
      BY DEF Whole
    <2> HIDE DEF w
    <2>3. \A f \in Fields : args'[x][f] # asked'[x] => x # h /\ args[x][f] # asked[x]
      BY <2>1, <2>2 DEF TypeOK
    <2>4. call[x] # NoCall => call[x].target # h /\ call[x].target \in Harts
      BY <2>1, NoCallOnRunning
    <2> QED
      BY <1>1, <1>2, <1>3, <2>1, <2>3, <2>4 DEF TypeOK
  <1>6. ASSUME NEW k \in Harts, NEW t \in Tags, ClaimStep(h, k, t)
        PROVE  /\ \A f \in Fields : args'[x][f] # asked'[x] =>
                    \E g \in Harts : call'[g] # NoCall /\ call'[g].target = x /\ f \in call'[g].todo
               /\ call'[x] # NoCall =>
                    /\ call'[x].tag = asked'[call'[x].target]
                    /\ pc'[x] = "start_kick" => call'[x].todo = {}
    <2> PICK from \in {"smode", "cold_domains"} : Claim(h, k, t, from) /\ pc[h] = from
      BY <1>6 DEF ClaimStep, HartStart, DomainStart
    <2>1. /\ args' = args /\ asked' = [asked EXCEPT ![k] = t] /\ state[k] = "STOPPED" /\ pc'[h] = "start_args"
      BY DEF Claim, Goto, TypeOK
    <2>2. call'[h] \in Calls /\ call'[h].target = k /\ call'[h].tag = t /\ call'[h].todo = Fields
      BY ClaimCall
    <2>3. call'[h] # NoCall /\ call[h] = NoCall
      BY <2>2, NoCallAssumption DEF CallInv, StartPCs
    <2>4. \A g \in Harts : call[g] # NoCall => call[g].target # k /\ call[g].target \in Harts
      BY <2>1, NoCallOnRunning
    <2>5. ASSUME NEW f \in Fields, args'[x][f] # asked'[x]
          PROVE  \E g \in Harts : call'[g] # NoCall /\ call'[g].target = x /\ f \in call'[g].todo
      <3>1. CASE x = k
        BY <2>2, <2>3, <3>1
      <3>2. CASE x # k
        <4>1. PICK g \in Harts : call[g] # NoCall /\ call[g].target = x /\ f \in call[g].todo
          BY <1>1, <2>1, <2>5, <3>2 DEF TypeOK
        <4> QED
          BY <1>3, <2>3, <4>1
      <3> QED
        BY <3>1, <3>2
    <2>6. CASE x = h
      BY <2>1, <2>2, <2>5, <2>6 DEF TypeOK
    <2>7. CASE x # h
      BY <1>2, <1>3, <2>1, <2>4, <2>5, <2>7 DEF TypeOK
    <2> QED
      BY <2>6, <2>7
  <1>7. ASSUME NEW e \in Fields, StartStore(h, e)
        PROVE  /\ \A f \in Fields : args'[x][f] # asked'[x] =>
                    \E g \in Harts : call'[g] # NoCall /\ call'[g].target = x /\ f \in call'[g].todo
               /\ call'[x] # NoCall =>
                    /\ call'[x].tag = asked'[call'[x].target]
                    /\ pc'[x] = "start_kick" => call'[x].todo = {}
    <2> DEFINE k == call[h].target
               v == call[h].tag
    <2>1. call[h] # NoCall /\ k \in Harts /\ \A g \in Harts : call[g] # NoCall /\ call[g].target = k => g = h
      BY <1>7, NoCallOnRunning DEF StartStore, CallInv, StartPCs
    <2>2. /\ args' = [args EXCEPT ![k] = [args[k] EXCEPT ![e] = v]] /\ asked' = asked
          /\ pc'[h] = "start_kick" => call[h].todo = {e}
      BY <1>7 DEF StartStore, Goto, TypeOK
    <2>3. v = asked[k]
      BY <1>2, <2>1
    <2>4. call'[h] # NoCall /\ call'[h].target = k /\ call'[h].tag = v /\ call'[h].todo = call[h].todo \ {e}
      BY <1>7, StoreCall, NoCallAssumption
    <2> HIDE DEF k, v
    <2>5. ASSUME NEW f \in Fields, args'[x][f] # asked'[x]
          PROVE  \E g \in Harts : call'[g] # NoCall /\ call'[g].target = x /\ f \in call'[g].todo
      <3>1. args[x][f] # asked[x] /\ ~(x = k /\ f = e)
        BY <2>1, <2>2, <2>3, <2>5 DEF TypeOK
      <3>2. PICK g \in Harts : call[g] # NoCall /\ call[g].target = x /\ f \in call[g].todo
        BY <1>1, <3>1
      <3>3. CASE g = h
        <4>1. x = k /\ f # e
          BY <3>1, <3>2, <3>3 DEF k
        <4> QED
          BY <2>4, <3>2, <3>3, <4>1
      <3>4. CASE g # h
        BY <1>3, <3>2, <3>4
      <3> QED
        BY <3>3, <3>4
    <2>6. CASE x = h
      BY <2>2, <2>3, <2>4, <2>5, <2>6
    <2>7. CASE x # h
      BY <1>2, <1>3, <2>2, <2>5, <2>7
    <2> QED
      BY <2>6, <2>7
  <1> QED
    BY <1>4, <1>5, <1>6, <1>7

(* With a device that starts and stops harts, each one enters S-mode with  *)
(* all the arguments it was last told to: START_PENDING is published       *)
(* before the arguments, but a hart that is off cannot see it.             *)
THEOREM EntersAsAskedHolds == HsmDev = "hotplug" => (Spec => EntersAsAsked)
  <1> SUFFICES ASSUME HsmDev = "hotplug" PROVE Spec => EntersAsAsked
    OBVIOUS
  <1>1. Init => ArgsInv
    BY DEF Init, ArgsInv, Whole
  <1>2. HsmInv /\ StartInv /\ ArgsInv /\ [Next]_vars => ArgsInv'
    <2> SUFFICES ASSUME HsmInv, StartInv, ArgsInv, [Next]_vars PROVE ArgsInv'
      OBVIOUS
    <2>1. CASE UNCHANGED vars
      BY <2>1 DEF vars, ArgsInv
    <2>2. CASE Next
      BY <2>2, ArgsInvStep DEF Next, HsmInv, StartInv, DeviceInv
    <2> QED
      BY <2>1, <2>2
  <1>3. ASSUME HsmInv, StartInv, ArgsInv, NEW h \in Harts, pc[h] = "switch"
        PROVE  args[h] = Whole(asked[h])
    <2>1. \A f \in Fields : args[h][f] = asked[h]
      <3> SUFFICES ASSUME NEW f \in Fields, args[h][f] # asked[h] PROVE FALSE
        OBVIOUS
      <3>1. PICK g \in Harts : call[g] # NoCall /\ call[g].target = h
        BY <1>3 DEF ArgsInv
      <3> QED
        BY <1>3, <3>1, NoCallOnRunning DEF HsmInv, StartInv, DeviceInv
    <2>2. args[h] = [f \in Fields |-> args[h][f]]
      BY <1>3 DEF HsmInv, TypeOK
    <2> QED
      BY <2>1, <2>2 DEF Whole
  <1>4. HsmInv /\ StartInv /\ ArgsInv =>
          [\A h \in Harts : pc[h] = "switch" /\ pc'[h] = "smode" => args[h] = Whole(asked[h])]_vars
    BY <1>3
  <1> QED
    BY <1>1, <1>2, <1>4, HsmInvariance, StartInvariance, PTL DEF Spec, EntersAsAsked
=============================================================================
