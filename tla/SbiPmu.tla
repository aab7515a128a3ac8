--------------------------------- MODULE SbiPmu ---------------------------------
(***************************************************************************)
(* The performance monitoring unit of one hart: lib/sbi/sbi_pmu.c and      *)
(* lib/sbi/sbi_ecall_pmu.c.  S-mode asks for a counter for an event,       *)
(* starts it, stops it and gives it back.  A hardware counter has a CSR    *)
(* that selects its event and a bit that inhibits it; a firmware counter   *)
(* is only a name for a count that the firmware keeps per event.           *)
(*                                                                         *)
(* The hart uses its rows of the tables with interrupts off, so each call  *)
(* is one step.  What hardware counters count is left to the hardware.  A  *)
(* request for counters is the set of the bits of cmask << cbase, together *)
(* with cbase, which may be anything.                                      *)
(*                                                                         *)
(* Neither the code of a firmware event nor, when the match is skipped,    *)
(* cbase is compared with the length of the row it indexes.  A code beyond *)
(* the row is an entry of a later hart, which this hart's calls leave its  *)
(* own row for; calls of other harts come in as Intrude.  What lies behind *)
(* the last row, and loads that fault, are not modelled.                   *)
(***************************************************************************)
EXTENDS Integers, Sequences, FiniteSets, FiniteSetsExt

CONSTANTS
  NumHw,        \* num_hw_ctrs, the last hardware counter
  FwCtrMax,     \* SBI_PMU_FW_CTR_MAX
  Codes,        \* codes of an event type, 2^16
  FwMax,        \* SBI_PMU_FW_EVENT_MAX, the length of a row of fw_event_map
  IdxMod,       \* number of values of an entry of active_events, 2^32
  EventMax,     \* SBI_PMU_HW_EVENT_MAX
  Offered,      \* what sbi_platform_pmu_init adds to hw_event_map
  Unknown,      \* events the platform has no selector value for
  Features,     \* sets of "inhibit" (mcountinhibit) and "sscof" (Sscofpmf)
  Requests,     \* <<cbase, counters>> that S-mode passes
  HwEvents,     \* <<event_idx, event_data>> that S-mode asks for
  FwEvents,     \* event_idx of firmware events that S-mode asks for
  Intruded,     \* codes of the entries that calls of other harts reach
  CountMod,     \* number of values of a count, 2^64
  None

(* Event types; the index of an event has its type and its code, and may   *)
(* have bits above them.                                                   *)
Hw == 0
HwCache == 1
HwRaw == 2
Fw == 15
Type(e) == (e \div Codes) % 16
Code(e) == e % Codes
RawIdx == HwRaw * Codes
Cycles == 1
Instructions == 2

Total == NumHw + FwCtrMax
Ctrs == 0 .. Total - 1
Fixed == {0, 1, 2}
HwCtrs == 3 .. NumHw
FwCtrs == NumHw + 1 .. Total - 1

(* The bits of an unsigned long.                                           *)
Word == 0 .. 63

(* struct sbi_pmu_hw_event; the platform offers counters that exist.       *)
HwEvent == [start : Nat, end : Nat, ctrs : SUBSET (0 .. NumHw), select : Nat]

ASSUME PmuAssumption ==
  /\ {NumHw, FwCtrMax, Codes, FwMax, IdxMod, EventMax, CountMod} \subseteq Nat
  /\ NumHw >= 2 /\ FwCtrMax >= 1 /\ Codes > 2 /\ IdxMod > 0 /\ CountMod > 1
  /\ Offered \in Seq(HwEvent)
  /\ \A f \in Features : f \subseteq {"inhibit", "sscof"}
  /\ \A r \in Requests : r[1] \in Nat /\ r[2] \subseteq Word
  /\ \A e \in HwEvents : e[1] \in Nat /\ Type(e[1]) # Fw /\ e[2] \in Nat
  /\ \A e \in FwEvents : e \in Nat /\ Type(e) = Fw
  /\ Intruded \subseteq 0 .. FwMax - 1
  /\ None \notin Nat /\ None \notin Nat \X Nat

VARIABLES
  feat,       \* features of the hart
  map,        \* hw_event_map, ...
  added,      \* ... and how much of Offered the cold boot has tried to add
  active,     \* active_events of the hart
  inhibit,    \* counters whose bit of mcountinhibit is set
  sel,        \* what mhpmevent of a counter selects
  fw,         \* fw_event_map of the hart
  use,        \* history: what S-mode knows of each counter (see below)
  stray,      \* history: what a call changed that did not name it (see below)
  again       \* history: the hart has stopped and started

pmuVars == <<feat, map, added, active, inhibit, sel, fw, use, stray, again>>
bootVars == <<feat, map, added>>

(* What S-mode knows: how often it got the counter since it gave it back   *)
(* (up to 2) and, for a firmware counter, whether it has started it, the   *)
(* count it expects (None if it does not know), and whether it asked for   *)
(* the event with this counter only.                                       *)
Free == [grants |-> 0, run |-> FALSE, count |-> None, alone |-> FALSE]

(* What went astray: codes of firmware events that a call for a counter    *)
(* without that event, or of another hart, may have cleared, started or    *)
(* stopped, and programmable counters that were started without an event.  *)
NoStray == [codes |-> {}, ctrs |-> {}]
Astray(codes, ctrs) ==
  stray' = [codes |-> stray.codes \cup (codes \cap DOMAIN fw), ctrs |-> stray.ctrs \cup ctrs]
-----------------------------------------------------------------------------
(* hw_event_map: pmu_event_range_overlap, pmu_event_select_overlap and     *)
(* pmu_add_hw_event_map.                                                   *)
Overlap(a, b) ==
  IF b.start = RawIdx THEN a.select = b.select
  ELSE ~(a.end < b.start /\ a.end < b.end) /\ ~(a.start > b.start /\ a.start > b.end)

AddHwEvent(m, e) ==
  IF \/ e.start > e.end \/ (e.start # e.end /\ RawIdx \in {e.start, e.end})
     \/ e.start > Instructions /\ e.ctrs \cap Fixed # {}
     \/ Len(m) >= EventMax - 1
     \/ \E k \in DOMAIN m : Overlap(m[k], e)
  THEN m
  ELSE Append(m, e)

(* pmu_reset_event_map and the fixed counters in sbi_pmu_init              *)
FixedEvent == [c \in Ctrs |-> CASE c = 0 -> Cycles [] c = 2 -> Instructions [] OTHER -> None]
NoEvents == [code \in 0 .. FwMax - 1 |-> [count |-> 0, started |-> FALSE]]

PmuInit ==
  /\ feat \in Features
  /\ map = << >> /\ added = 0
  /\ active = FixedEvent
  /\ inhibit = HwCtrs
  /\ sel = [c \in HwCtrs |-> None]
  /\ fw = NoEvents
  /\ use = [c \in Ctrs |-> Free]
  /\ stray = NoStray
  /\ again = FALSE

(* sbi_pmu_add_hw_event_counter_map, sbi_pmu_add_raw_event_counter_map: in *)
(* the cold boot the platform adds one event after the other.              *)
PmuAdd ==
  /\ added < Len(Offered)
  /\ map' = AddHwEvent(map, Offered[added + 1])
  /\ added' = added + 1
  /\ UNCHANGED <<feat, active, inhibit, sel, fw, use, stray, again>>

PmuReady == added = Len(Offered)

(* pmu_ctr_validate *)
Valid(c) == c \in Ctrs /\ active[c] # None
IsFw(c) == Valid(c) /\ Type(active[c]) = Fw

(* The firmware counters that have an event, whatever its upper bits.      *)
Users(code) == {c \in FwCtrs : active[c] # None /\ Code(active[c]) = code}

(* __fls of the bits; of none of them, it is 0.                            *)
Fls(ctrs) == IF ctrs = {} THEN 0 ELSE Max(ctrs)

(* pmu_ctr_read_fw *)
CtrRead(c) == fw[Code(active[c])].count
-----------------------------------------------------------------------------
(* pmu_ctr_start_hw: the counters of a set that it lets count              *)
Startable(cs) == {c \in cs : c <= NumHw /\ c # 1}
StartHw(cs) == IF "inhibit" \in feat THEN inhibit \ Startable(cs) ELSE inhibit

(* sbi_pmu_ctr_start, pmu_ctr_start_fw; ival is None without               *)
(* SBI_PMU_START_FLAG_SET_INIT_VALUE.  Bits below cbase are passed over.   *)
CtrStart(base, ctrs, ival) ==
  /\ Fls(ctrs) < Total
  /\ LET fws == {c \in ctrs : base <= c /\ IsFw(c)}
         codes == {Code(active[c]) : c \in fws}
     IN  /\ fw' = [code \in DOMAIN fw |->
                    IF code \notin codes THEN fw[code]
                    ELSE [count |-> IF ival = None THEN fw[code].count ELSE ival, started |-> TRUE]]
         /\ inhibit' = StartHw({c \in ctrs : base <= c /\ Valid(c) /\ ~IsFw(c)})
         /\ use' = [c \in Ctrs |->
                     IF c \notin fws THEN use[c]
                     ELSE [use[c] EXCEPT !.run = TRUE, !.count = IF ival = None THEN @ ELSE ival]]
  /\ UNCHANGED <<bootVars, active, sel, stray, again>>

(* pmu_ctr_stop_hw.  Mutant: the last counter is left out.             *)
StopHw_Below(cs) == IF "inhibit" \in feat THEN inhibit \cup {c \in cs : c < NumHw /\ c # 1} ELSE inhibit
StopHw(cs) == IF "inhibit" \in feat THEN inhibit \cup Startable(cs) ELSE inhibit

(* sbi_pmu_ctr_stop, pmu_ctr_stop_fw, pmu_reset_hw_mhpmevent               *)
CtrStop(base, ctrs, reset) ==
  /\ Fls(ctrs) < Total
  /\ LET valid == {c \in ctrs : base <= c /\ Valid(c)}
         codes == {Code(active[c]) : c \in {d \in valid : IsFw(d)}}
     IN  /\ fw' = [code \in DOMAIN fw |->
                    IF code \in codes THEN [fw[code] EXCEPT !.started = FALSE] ELSE fw[code]]
         /\ inhibit' = StopHw({c \in valid : ~IsFw(c)})
         /\ active' = [c \in Ctrs |-> IF reset /\ c \in valid THEN None ELSE active[c]]
         /\ sel' = [c \in HwCtrs |-> IF reset /\ c \in valid THEN None ELSE sel[c]]
         /\ use' = [c \in Ctrs |->
                     IF c \notin valid THEN use[c]
                     ELSE IF reset THEN Free ELSE [use[c] EXCEPT !.run = FALSE]]
  /\ UNCHANGED <<bootVars, stray, again>>
-----------------------------------------------------------------------------
(* pmu_ctr_find_fixed_fw *)
FixedCtr(e) == CASE e = Cycles -> 0 [] e = Instructions -> 2 [] OTHER -> None

(* pmu_ctr_find_hw: the first entry of the map that has the event; cbase   *)
(* is used up by its loop.  The last counter that is free wins.            *)
Entry(e, data) ==
  LET has(k) == map[k].start <= e /\ e <= map[k].end /\ (e = RawIdx => map[k].select = data)
      found == {k \in DOMAIN map : has(k)}
  IN  IF found = {} THEN {} ELSE map[Min(found)].ctrs \ Fixed

FreeHw(base, ctrs, e, data) ==
  {c \in Entry(e, data) \cap ctrs : base <= c /\ active[c] = None /\ ("inhibit" \in feat => c \in inhibit)}

FindHw(base, ctrs, e, data) ==
  LET free == FreeHw(base, ctrs, e, data)
  IN  IF base > NumHw THEN None
      ELSE IF FixedCtr(e) # None /\ ("sscof" \notin feat \/ free = {}) THEN FixedCtr(e)
      ELSE IF free = {} \/ <<e, data>> \in Unknown THEN None
      ELSE Max(free)

(* pmu_ctr_find_fw: the first free firmware counter                        *)
FindFw(base, ctrs) ==
  LET free == {c \in FwCtrs : c \in ctrs /\ base <= c /\ active[c] = None}
  IN  IF free = {} THEN None ELSE Min(free)

Find(base, ctrs, e, data) == IF Type(e) = Fw THEN FindFw(base, ctrs) ELSE FindHw(base, ctrs, e, data)

(* The end of sbi_pmu_ctr_cfg_match: clearing and starting, which events   *)
(* that are neither of type Hw nor firmware events do not get.             *)
Setup(c, e, clear, start) ==
  /\ inhibit' = IF Type(e) = Hw /\ start THEN StartHw({c}) ELSE inhibit
  /\ fw' = [code \in DOMAIN fw |->
             IF Type(e) # Fw \/ code # Code(e) THEN fw[code]
             ELSE [count |-> IF clear THEN 0 ELSE fw[code].count, started |-> start \/ fw[code].started]]

(* An index of all ones, which is one of a firmware event, is stored as    *)
(* SBI_PMU_EVENT_IDX_INVALID: the counter stays free.                      *)
Lost(e) == Type(e) = Fw /\ e % IdxMod = IdxMod - 1

(* What S-mode knows of a counter that it got for an event.                *)
Granted(u, e, clear, start) ==
  IF Type(e) # Fw THEN [Free EXCEPT !.grants = Min({2, u.grants + 1})]
  ELSE [grants |-> Min({2, u.grants + 1}), run |-> start, count |-> IF clear THEN 0 ELSE None,
        alone |-> Users(Code(e)) = {}]

(* sbi_pmu_ctr_cfg_match, which finds a counter ...                        *)
CfgMatch(base, ctrs, e, data, clear, start) ==
  /\ Fls(ctrs) < Total
  /\ LET c == Find(base, ctrs, e, data)
     IN  /\ c # None
         /\ active' = IF Lost(e) THEN active ELSE [active EXCEPT ![c] = e]
         /\ sel' = IF c \in HwCtrs THEN [sel EXCEPT ![c] = <<e, data>>] ELSE sel
         /\ Setup(c, e, clear, start)
         /\ use' = IF Lost(e) THEN use
                   ELSE [d \in Ctrs |->
                     IF d = c THEN Granted(use[c], e, clear, start)
                     ELSE IF Type(e) = Fw /\ d \in Users(Code(e)) THEN [use[d] EXCEPT !.alone = FALSE] ELSE use[d]]
  /\ Astray(IF Lost(e) THEN {Code(e)} ELSE {}, {})
  /\ UNCHANGED <<bootVars, again>>

(* ... or, with SBI_PMU_CFG_FLAG_SKIP_MATCH, takes cbase for it, whatever  *)
(* event that counter has.  Beyond the counters, active_events[cbase] may  *)
(* be anything, and cbase is cut to an int.                                *)
CfgSkip(base, ctrs, e, clear, start) ==
  LET c == IF base \in Ctrs THEN base ELSE base % IdxMod
      named == base \in Users(Code(e))
  IN  /\ Fls(ctrs) < Total
      /\ base \in Ctrs => active[base] # None
      /\ Setup(c, e, clear, start)
      /\ use' = IF Type(e) # Fw \/ ~named THEN use
                ELSE [use EXCEPT ![base] = [use[base] EXCEPT !.run = use[base].run \/ start,
                                                             !.count = IF clear THEN 0 ELSE use[base].count]]
      /\ Astray(IF Type(e) = Fw /\ ~named THEN {Code(e)} ELSE {},
                IF Type(e) = Hw /\ start THEN {d \in HwCtrs : d = c /\ active[d] = None} ELSE {})
      /\ UNCHANGED <<bootVars, active, sel, again>>

(* A call of another hart whose event has a code beyond its row: it sets   *)
(* the count, starts or stops an event of this one.                        *)
Intrude(code) ==
  /\ \E n \in 0 .. CountMod - 1, b \in BOOLEAN : fw' = [fw EXCEPT ![code] = [count |-> n, started |-> b]]
  /\ Astray({code}, {})
  /\ UNCHANGED <<bootVars, active, inhibit, sel, use, again>>

(* sbi_pmu_ctr_incr_fw: an event happens.                                 *)
IncrFw(code) ==
  /\ fw' = IF fw[code].started THEN [fw EXCEPT ![code].count = (@ + 1) % CountMod] ELSE fw
  /\ use' = [c \in Ctrs |->
              IF c \in Users(code) /\ use[c].run /\ use[c].count # None
              THEN [use[c] EXCEPT !.count = (@ + 1) % CountMod] ELSE use[c]]
  /\ UNCHANGED <<bootVars, active, inhibit, sel, stray, again>>

(* sbi_pmu_exit, and sbi_pmu_init when the hart starts again: events with  *)
(* a code from FwCtrMax on keep what they have.                            *)
ResetCounts ==
  /\ fw' = [code \in DOMAIN fw |-> IF code < FwCtrMax THEN NoEvents[code] ELSE fw[code]]
  /\ stray' = [codes |-> {code \in stray.codes : code >= FwCtrMax}, ctrs |-> {}]

PmuExit ==
  /\ ResetCounts
  /\ active' = [c \in Ctrs |-> IF c >= 3 THEN None ELSE active[c]]
  /\ inhibit' = IF "inhibit" \in feat THEN HwCtrs ELSE inhibit
  /\ use' = [c \in Ctrs |-> Free]
  /\ UNCHANGED <<bootVars, sel, again>>

PmuWarmInit ==
  /\ ResetCounts
  /\ active' = FixedEvent
  /\ again' = TRUE
  /\ UNCHANGED <<bootVars, inhibit, sel, use>>
-----------------------------------------------------------------------------
PmuTypeOK ==
  /\ feat \in SUBSET {"inhibit", "sscof"}
  /\ map \in Seq(HwEvent) /\ added \in 0 .. Len(Offered)
  /\ active \in [Ctrs -> Nat \cup {None}]
  /\ inhibit \in SUBSET (0 .. NumHw)
  /\ sel \in [HwCtrs -> (Nat \X Nat) \cup {None}]
  /\ fw \in [0 .. FwMax - 1 -> [count : 0 .. CountMod - 1, started : BOOLEAN]]
  /\ use \in [Ctrs -> [grants : Nat, run : BOOLEAN, count : 0 .. CountMod - 1 \cup {None}, alone : BOOLEAN]]
  /\ stray \in [codes : SUBSET (0 .. FwMax - 1), ctrs : SUBSET HwCtrs]
  /\ again \in BOOLEAN

(* A programmable counter that counts, counts the event S-mode configured  *)
(* it for; no programmable or firmware counter is given out twice (but for *)
(* an index of all ones); and a firmware counter that has its event for    *)
(* itself reads as the number of events since S-mode set it, although the  *)
(* firmware counts per event.  Exempt are what went astray, codes beyond   *)
(* the row and, once the hart was stopped, events that keep their state.   *)
PmuSound ==
  /\ \A c \in HwCtrs \ stray.ctrs : "inhibit" \in feat /\ c \notin inhibit =>
       active[c] # None /\ sel[c] # None /\ sel[c][1] = active[c] /\ use[c].grants = 1
  /\ \A c \in HwCtrs \cup FwCtrs : use[c].grants <= 1
  /\ \A c \in FwCtrs :
       LET code == Code(active[c])
       IN  use[c].alone /\ code \in DOMAIN fw \ stray.codes /\ (again => code < FwCtrMax) =>
             /\ fw[code].started = use[c].run
             /\ use[c].count # None => CtrRead(c) = use[c].count
-----------------------------------------------------------------------------
(* An inductive invariant for PmuSound, on a hart that is started or not.  *)

(* A counter is out if it has an event, and firmware events are on         *)
(* firmware counters; a programmable counter that has none is inhibited.   *)
GrantInv ==
  /\ \A c \in HwCtrs \cup FwCtrs : use[c].grants = IF active[c] = None THEN 0 ELSE 1
  /\ \A c \in Ctrs : active[c] # None => (Type(active[c]) = Fw <=> c \in FwCtrs)
  /\ \A c \in HwCtrs :
       IF active[c] = None THEN "inhibit" \in feat => c \in inhibit \cup stray.ctrs
                           ELSE sel[c] # None /\ sel[c][1] = active[c]

(* The events whose state is known: those that nobody uses have stopped,   *)
(* and a counter that is alone counts them.                                *)
Tracked(code, on) ==
  /\ code \in 0 .. FwMax - 1 /\ code \notin stray.codes
  /\ again \/ ~on => code < FwCtrMax

Counts(c, on) ==
  LET code == Code(active[c])
  IN  /\ active[c] # None
      /\ Users(code) = {c}
      /\ Tracked(code, on) =>
           /\ fw[code].started = use[c].run
           /\ use[c].count # None => fw[code].count = use[c].count

CountInv(on) ==
  /\ \A code \in 0 .. FwMax - 1 : Tracked(code, on) /\ Users(code) = {} => ~fw[code].started
  /\ \A c \in FwCtrs : use[c].alone => Counts(c, on)

PmuInv(on) ==
  /\ GrantInv /\ CountInv(on)
  /\ ~on => stray.ctrs = {} /\ \A c \in Ctrs : c >= 3 => active[c] = None
=============================================================================
