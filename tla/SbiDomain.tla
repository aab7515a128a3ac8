------------------------------- MODULE SbiDomain -------------------------------
(***************************************************************************)
(* Domains and their memory regions: lib/sbi/sbi_domain.c, the device tree *)
(* parser that registers domains (lib/utils/fdt/fdt_domain.c), the callers *)
(* that add device regions to the root domain (aclint_mswi.c and           *)
(* aclint_mtimer.c), and the PMP that enforces the regions                 *)
(* (sbi_hart_pmp_configure, pmp_set).                                      *)
(*                                                                         *)
(* All of it but the PMP runs on the cold boot hart.  The sort and the     *)
(* merge of regions are loops whose iterations are steps here; an error    *)
(* anywhere ends the cold boot in sbi_hart_hang.  Addresses have Xlen bits *)
(* and shifts use the low bits of the count, as sll does.                  *)
(***************************************************************************)
EXTENDS Integers, Sequences, FiniteSets, FiniteSetsExt, SequencesExt

CONSTANTS
  Xlen,            \* __riscv_xlen
  MinOrder,        \* the 3 of is_region_valid
  PmpShift,        \* PMP_SHIFT
  PmpGran,         \* log2 of a hart's PMP granularity
  PmpAddrBits,     \* number of bits of a PMP address
  RootRegionMax,   \* ROOT_REGION_MAX
  FdtRegionMax,    \* FDT_DOMAIN_REGION_MAX_COUNT
  FdtDomainMax,    \* FDT_DOMAIN_MAX_COUNT
  MaxIndex,        \* SBI_DOMAIN_MAX_INDEX
  Harts,           \* valid hart ids
  Cold,            \* the cold boot hart
  Fw,              \* <<fw_start, fw_size>> of scratch
  NextAddr,        \* next_addr of scratch
  Ranges,          \* <<address, size>> of devices that only M-mode may use
  TileMax,         \* ACLINT_MSWI_ALIGN, MTIMER_ADD_REGION_ALIGN
  Fdts,            \* device trees, each a sequence of domain nodes
  PmpCount,        \* number of PMP entries of a hart
  None

Space == 2^Xlen
Addrs == 0 .. Space - 1
Flags == {"R", "W", "X", "M", "I"}   \* readable ... MMODE, MMIO
Region == [base : Addrs, order : 0 .. Xlen, flags : SUBSET Flags]

(* Domain 0 is the root domain, the others are nodes of the device tree.   *)
Root == 0
Doms == 0 .. MaxIndex

(* A node of the device tree; properties that are missing are None.  The   *)
(* harts of assign are those whose cpu node points here, None if one of    *)
(* the cpu nodes has no opensbi-domain.                                    *)
Node ==
  [possible : SUBSET Int, regions : Seq(Region), boot : Int \cup {None},
   next : Addrs \cup {None}, assign : (SUBSET Harts) \cup {None}]

ASSUME DomainAssumption ==
  /\ Xlen \in Nat /\ MinOrder \in 1 .. Xlen /\ PmpShift \in 0 .. MinOrder - 1
  /\ {RootRegionMax, FdtRegionMax, FdtDomainMax, MaxIndex, PmpCount, PmpGran,
      PmpAddrBits} \subseteq Nat
  /\ TileMax \in {2^n : n \in MinOrder .. Xlen - 1}
  /\ RootRegionMax >= 2
  /\ Cold \in Harts /\ Harts \subseteq Nat /\ None \notin Int
  /\ Fw \in Addrs \X Addrs /\ NextAddr \in Addrs
  /\ Ranges \in SUBSET (Addrs \X Addrs)
  /\ \A r \in Ranges : r[1] % 2^MinOrder = 0 /\ r[2] % 2^MinOrder = 0 /\ r[1] + r[2] <= Space
  /\ \A t \in Fdts : t \in Seq(Node)

VARIABLES
  regs,       \* the regions of each domain, without the terminating one
  table,      \* domidx_to_domain_table
  assigned,   \* assigned_harts of each domain
  domainOf,   \* hartid_to_domain_table
  boot,       \* boot_hartid of each domain
  next,       \* next_addr of each domain
  finalized,  \* domain_finalized
  pc,         \* where the cold boot is
  cur,        \* the domain in sanitize_domain
  mask,       \* assign_mask of the call of sbi_domain_register
  i, j,       \* loop variables of sanitize_domain, sbi_domain_root_add_memregion
  merged,     \* reg_merged
  devices,    \* devices not initialized yet
  tiles,      \* what is left of the device whose regions are being added
  nodes,      \* nodes of the device tree not parsed yet
  started,    \* the domain whose next stage a boot hart was given
  pmp,        \* PMP entries of each hart
  added       \* history: the regions the root domain was given

vars == <<regs, table, assigned, domainOf, boot, next, finalized, pc, cur, mask, i, j, merged, devices,
          tiles, nodes, started, pmp, added>>
loopVars == <<cur, mask, i, j, merged>>
devVars == <<devices, tiles, nodes>>
domVars == <<table, assigned, domainOf, boot, next>>
-----------------------------------------------------------------------------
(* Arithmetic on unsigned long.                                            *)
Wrap(x) == x % Space
Bit(n) == 2^(n % Xlen)

(* log2roundup *)
Log2RoundUp(x) == Min({n \in 0 .. Xlen - 1 : x <= 2^n} \cup {Xlen})

(* sbi_domain_memregion_init: the first order whose aligned block holds    *)
(* the range; the sums wrap.                                               *)
Block(addr, order) == (addr \div 2^order) * 2^order
Holds(addr, size, order) ==
  LET base == Block(addr, order)
      last == Wrap(addr + size - 1)
  IN  /\ base <= addr /\ addr < Wrap(base + 2^order)
      /\ base <= last /\ last < Wrap(base + 2^order)
MemregionInit(addr, size, flags) ==
  LET order == Min({o \in Log2RoundUp(size) .. Xlen - 1 : Holds(addr, size, o)} \cup {Xlen})
  IN  [base |-> IF order < Xlen THEN Block(addr, order) ELSE 0, order |-> order, flags |-> flags]

FwRegion == MemregionInit(Fw[1], Fw[2], {})
AllRegion == MemregionInit(0, Space - 1, {"R", "W", "X"})

(* sbi_domain_check_addr: the first region that counts for the mode and    *)
(* has the address decides.  A region of order Xlen ends with the address  *)
(* space.                                                                  *)
Has(r, addr) == r.base <= addr /\ (r.order < Xlen => addr <= r.base + 2^r.order - 1)
Hits(rs, addr, mode) == {k \in DOMAIN rs : Has(rs[k], addr) /\ (mode = "M" => "M" \in rs[k].flags)}
CheckAddr(rs, addr, mode, rwx, mmio) ==
  LET hits == Hits(rs, addr, mode)
  IN  IF hits = {} THEN mode = "M"
      ELSE LET f == rs[Min(hits)].flags IN (mmio <=> "I" \in f) /\ rwx \subseteq f

(* is_region_valid: a region of order Xlen may have any base.              *)
Valid(r) == MinOrder <= r.order /\ r.order <= Xlen /\ r.base % Bit(r.order) = 0

(* is_region_subset: both ends use the order of a.                         *)
Subset(a, b) ==
  LET aEnd == Wrap(a.base + Bit(a.order) - 1)
      bEnd == Wrap(b.base + Bit(a.order) - 1)
  IN  b.base <= a.base /\ a.base < bEnd /\ b.base < aEnd /\ aEnd <= bEnd

(* is_region_conflict *)
Conflict(a, b) == (Subset(a, b) \/ Subset(b, a)) /\ a.flags = b.flags

(* Mutant: the regions are sorted by address only.                         *)
Before_ByBase(a, b) == a.base < b.base

(* is_region_before *)
Before(a, b) == a.order < b.order \/ (a.order = b.order /\ a.base < b.base)
-----------------------------------------------------------------------------
Hang == pc' = "hang"

(* sbi_domain_init, up to the sort of the root domain's regions.           *)
Init ==
  /\ regs = [d \in Doms |-> IF d = Root THEN <<FwRegion, AllRegion>> ELSE << >>]
  /\ table = << >>
  /\ assigned = [d \in Doms |-> {}]
  /\ domainOf = [h \in Harts |-> None]
  /\ boot = [d \in Doms |-> IF d = Root THEN Cold ELSE None]
  /\ next = [d \in Doms |-> IF d = Root THEN NextAddr ELSE 0]
  /\ finalized = FALSE
  /\ pc = "register"
  /\ cur = Root
  /\ mask = Harts
  /\ i = 1 /\ j = 2
  /\ merged = FALSE
  /\ devices = Ranges
  /\ tiles = <<0, 0>>
  /\ nodes \in Fdts
  /\ started = [h \in Harts |-> None]
  /\ pmp = [h \in Harts |-> << >>]
  /\ added = {FwRegion, AllRegion}

(* sbi_domain_register: room in the table, then sanitize_domain, whose     *)
(* first part checks each region and that the firmware's is there.         *)
Sane(d) ==
  /\ \A k \in DOMAIN regs[d] : Valid(regs[d][k])
  /\ \E k \in DOMAIN regs[d] : regs[d][k] = FwRegion

Possible(d) == IF d = Root THEN Harts ELSE Head(nodes).possible

SortFrom(d) == cur' = d /\ i' = 1 /\ j' = 2

Register ==
  /\ pc = "register"
  /\ IF Len(table) < MaxIndex /\ Possible(cur) \subseteq Harts /\ Sane(cur)
     THEN pc' = "sort" /\ SortFrom(cur)
     ELSE Hang /\ UNCHANGED <<cur, i, j>>
  /\ UNCHANGED <<domVars, regs, finalized, mask, merged, devVars, started, pmp, added>>

(* The sort: regions i and j are compared and exchanged.                   *)
Advance ==
  IF j < Len(regs[cur]) THEN j' = j + 1 /\ UNCHANGED i ELSE i' = i + 1 /\ j' = i + 2

SortStep ==
  /\ pc = "sort"
  /\ i < Len(regs[cur])
  /\ LET a == regs[cur][i]
         b == regs[cur][j]
     IN  /\ ~Conflict(b, a)
         /\ regs' = IF Before(b, a) THEN [regs EXCEPT ![cur] = [@ EXCEPT ![i] = b, ![j] = a]] ELSE regs
  /\ Advance
  /\ UNCHANGED <<domVars, finalized, pc, cur, mask, merged, devVars, started, pmp, added>>

SortConflict ==
  /\ pc = "sort"
  /\ i < Len(regs[cur])
  /\ Conflict(regs[cur][j], regs[cur][i])
  /\ Hang
  /\ UNCHANGED <<domVars, loopVars, regs, finalized, devVars, started, pmp, added>>

(* The rest of sanitize_domain: the next stage must be executable.         *)
SortDone ==
  /\ pc = "sort"
  /\ i >= Len(regs[cur])
  /\ pc' = IF ~CheckAddr(regs[cur], next[cur], "S", {"X"}, FALSE) THEN "hang"
           ELSE IF table # << >> /\ cur = Root THEN "merge" ELSE "assign"
  /\ i' = 1
  /\ merged' = FALSE
  /\ UNCHANGED <<domVars, regs, finalized, cur, mask, j, devVars, started, pmp, added>>

(* The rest of sbi_domain_register: the domain gets an index, and takes    *)
(* over the harts of the mask that are possible for it.                    *)
Assign ==
  /\ pc = "assign"
  /\ LET taken == mask \cap Possible(cur)
     IN  /\ domainOf' = [h \in Harts |-> IF h \in taken THEN cur ELSE domainOf[h]]
         /\ assigned' = [d \in Doms |-> IF d = cur THEN taken
                                        ELSE {h \in assigned[d] : ~(h \in taken /\ domainOf[h] = d)}]
         /\ boot' = IF Cold \in taken THEN [boot EXCEPT ![cur] = Cold] ELSE boot
  /\ table' = Append(table, cur)
  /\ pc' = IF cur = Root THEN "idle" ELSE "populate"
  /\ nodes' = IF cur = Root THEN nodes ELSE Tail(nodes)
  /\ UNCHANGED <<loopVars, regs, next, finalized, devices, tiles, started, pmp, added>>
-----------------------------------------------------------------------------
(* aclint_mswi_cold_init, aclint_mtimer_cold_init: the regions of a device *)
(* are added to the root domain one by one.                                *)
Device(range) ==
  /\ pc = "idle"
  /\ range \in devices
  /\ devices' = devices \ {range}
  /\ tiles' = range
  /\ pc' = "tile"
  /\ UNCHANGED <<domVars, loopVars, regs, finalized, nodes, started, pmp, added>>

(* aclint_mtimer_add_regions: the size of the next tile.                   *)
Low(pos) == Max({2^n : n \in {m \in 0 .. Xlen - 1 : pos % 2^m = 0}})
TileSize(pos, left) ==
  IF pos % TileMax # 0 THEN Low(pos) ELSE IF left < TileMax THEN left ELSE TileMax

Tile == MemregionInit(tiles[1], TileSize(tiles[1], tiles[2]), {"I"})

(* sbi_domain_root_add_memregion: refused, ...  Mutant: an entry too many. *)
Refused_OneMore ==
  \/ RootRegionMax < Len(regs[Root])
  \/ \E k \in DOMAIN regs[Root] : Conflict(Tile, regs[Root][k])

Refused ==
  \/ RootRegionMax <= Len(regs[Root])
  \/ \E k \in DOMAIN regs[Root] : Conflict(Tile, regs[Root][k])

AddRefused ==
  /\ pc = "tile"
  /\ tiles[2] > 0
  /\ Refused
  /\ Hang
  /\ UNCHANGED <<domVars, loopVars, regs, finalized, devVars, started, pmp, added>>

(* ... or appended, and the root domain is sanitized, ...                  *)
AddMemregion ==
  /\ pc = "tile"
  /\ tiles[2] > 0
  /\ ~Refused
  /\ regs' = [regs EXCEPT ![Root] = Append(@, Tile)]
  /\ added' = added \cup {Tile}
  /\ LET size == TileSize(tiles[1], tiles[2])
     IN  tiles' = <<tiles[1] + size, IF size < tiles[2] THEN tiles[2] - size ELSE 0>>
  /\ pc' = "sanitize"
  /\ UNCHANGED <<domVars, loopVars, finalized, devices, nodes, started, pmp>>

Sanitize ==
  /\ pc = "sanitize"
  /\ IF Sane(Root) THEN pc' = "sort" ELSE Hang
  /\ SortFrom(Root)
  /\ UNCHANGED <<domVars, regs, finalized, mask, merged, devVars, started, pmp, added>>

DeviceDone ==
  /\ pc = "tile"
  /\ tiles[2] = 0
  /\ pc' = "idle"
  /\ UNCHANGED <<domVars, loopVars, regs, finalized, devVars, started, pmp, added>>

(* ... and buddies of the same order and flags are merged, until there is  *)
(* nothing left to merge.                                                  *)
Buddies(a, b) ==
  /\ a.base % Bit(a.order + 1) = 0
  /\ Wrap(a.base + Bit(a.order)) = b.base
  /\ a.order = b.order /\ a.flags = b.flags

(* Mutants: a merged region keeps its order; the loop never ends.          *)
MergeStep_SameOrder ==
  /\ pc = "merge"
  /\ i < Len(regs[Root])
  /\ LET rs == regs[Root]
     IN  IF Buddies(rs[i], rs[i + 1])
         THEN regs' = [regs EXCEPT ![Root] = RemoveAt(rs, i + 1)] /\ merged' = TRUE
         ELSE UNCHANGED <<regs, merged>>
  /\ i' = i + 1
  /\ UNCHANGED <<domVars, finalized, pc, cur, mask, j, devVars, started, pmp, added>>

MergeDone_Again ==
  /\ pc = "merge"
  /\ i >= Len(regs[Root])
  /\ pc' = "sanitize"
  /\ UNCHANGED <<domVars, loopVars, regs, finalized, devVars, started, pmp, added>>

MergeStep ==
  /\ pc = "merge"
  /\ i < Len(regs[Root])
  /\ LET rs == regs[Root]
     IN  IF Buddies(rs[i], rs[i + 1])
         THEN /\ regs' = [regs EXCEPT ![Root] = RemoveAt([rs EXCEPT ![i].order = @ + 1], i + 1)]
              /\ merged' = TRUE
         ELSE UNCHANGED <<regs, merged>>
  /\ i' = i + 1
  /\ UNCHANGED <<domVars, finalized, pc, cur, mask, j, devVars, started, pmp, added>>

MergeDone ==
  /\ pc = "merge"
  /\ i >= Len(regs[Root])
  /\ pc' = IF merged THEN "sanitize" ELSE "tile"
  /\ UNCHANGED <<domVars, loopVars, regs, finalized, devVars, started, pmp, added>>
-----------------------------------------------------------------------------
(* sbi_domain_finalize: fdt_domains_populate, ...                          *)
Finalize ==
  /\ pc = "idle"
  /\ pc' = "populate"
  /\ UNCHANGED <<domVars, loopVars, regs, finalized, devVars, started, pmp, added>>

(* __fdt_parse_domain: the node's regions are read, ...                    *)
ParseDomain ==
  /\ pc = "populate"
  /\ nodes # << >>
  /\ LET d == Len(table)
         rs == Head(nodes).regions
     IN  IF d > FdtDomainMax \/ Len(rs) > FdtRegionMax
         THEN Hang /\ UNCHANGED <<regs, cur, i>>
         ELSE pc' = "inherit" /\ regs' = [regs EXCEPT ![d] = rs] /\ cur' = d /\ i' = 1
  /\ UNCHANGED <<domVars, finalized, mask, j, merged, devVars, started, pmp, added>>

(* ... those of the root domain that only M-mode may use are copied, as    *)
(* long as there is room, ...  Mutant: only the firmware's region is.      *)
Secret_Fw(r) == r.flags = {}
Secret(r) == r.flags \cap {"R", "W", "X"} = {}

Inherit ==
  /\ pc = "inherit"
  /\ i <= Len(regs[Root])
  /\ IF ~Secret(regs[Root][i]) THEN UNCHANGED <<regs, pc>>
     ELSE IF Len(regs[cur]) < FdtRegionMax
          THEN regs' = [regs EXCEPT ![cur] = Append(@, regs[Root][i])] /\ UNCHANGED pc
          ELSE Hang /\ UNCHANGED regs
  /\ i' = i + 1
  /\ UNCHANGED <<domVars, finalized, cur, mask, j, merged, devVars, started, pmp, added>>

(* ... and the rest of the node is read, with the cold boot hart's values  *)
(* as the defaults of its domain.                                          *)
Inherited ==
  /\ pc = "inherit"
  /\ i > Len(regs[Root])
  /\ LET n == Head(nodes)
     IN  IF n.assign = None
         THEN Hang /\ UNCHANGED <<boot, next, mask>>
         ELSE /\ boot' = [boot EXCEPT ![cur] = IF n.boot = None /\ Cold \in n.assign THEN Cold ELSE n.boot]
              /\ next' = [next EXCEPT ![cur] =
                   IF n.next # None THEN n.next ELSE IF Cold \in n.assign THEN NextAddr ELSE 0]
              /\ mask' = n.assign
              /\ pc' = "register"
  /\ UNCHANGED <<table, assigned, domainOf, regs, finalized, cur, i, j, merged, devVars, started, pmp, added>>

Populated ==
  /\ pc = "populate"
  /\ nodes = << >>
  /\ pc' = "start"
  /\ i' = 1
  /\ UNCHANGED <<domVars, regs, finalized, cur, mask, j, merged, devVars, started, pmp, added>>

(* ... and the boot hart of each domain is given the domain's next stage.  *)
(* The harts assigned to a domain are possible ones.  Mutant: the domain   *)
(* of the boot hart is not looked at.                                      *)
Boots_Any(d) == boot[d] \in Harts
Boots(d) == boot[d] \in Harts /\ domainOf[boot[d]] = d /\ boot[d] \in assigned[d]

StartDomain ==
  /\ pc = "start"
  /\ i <= Len(table)
  /\ LET d == table[i]
     IN  started' = IF Boots(d) THEN [started EXCEPT ![boot[d]] = d] ELSE started
  /\ i' = i + 1
  /\ UNCHANGED <<domVars, regs, finalized, pc, cur, mask, j, merged, devVars, pmp, added>>

(* sbi_hsm_hart_start may fail in the device that starts harts (SbiHsm).   *)
StartFails ==
  /\ pc = "start"
  /\ i <= Len(table)
  /\ Boots(table[i]) /\ boot[table[i]] # Cold
  /\ Hang
  /\ UNCHANGED <<domVars, loopVars, regs, finalized, devVars, started, pmp, added>>

StartDone ==
  /\ pc = "start"
  /\ i > Len(table)
  /\ finalized' = TRUE
  /\ pc' = "done"
  /\ UNCHANGED <<domVars, loopVars, regs, devVars, started, pmp, added>>
-----------------------------------------------------------------------------
(* sbi_hart_pmp_configure with pmp_set: the regions of the hart's domain,  *)
(* as far as there are entries.  An entry's address ends in a zero and     *)
(* ones that give its size.  Mutant: one too many.                         *)
PmpAddr_Double(r) ==
  IF r.order = PmpShift THEN r.base \div 2^PmpShift
  ELSE IF r.order = Xlen THEN Space - 1
  ELSE LET ones == 2^(r.order - PmpShift)
       IN  ((r.base \div 2^PmpShift) \div ones) * ones + (ones - 1)

PmpAddr(r) ==
  IF r.order = PmpShift THEN r.base \div 2^PmpShift
  ELSE IF r.order = Xlen THEN Space - 1
  ELSE LET ones == 2^(r.order - PmpShift)
       IN  ((r.base \div 2^PmpShift) \div ones) * ones + (ones \div 2 - 1)

PmpSet(r) ==
  [a |-> IF r.order = PmpShift THEN "NA4" ELSE "NAPOT", addr |-> PmpAddr(r), flags |-> r.flags \ {"I"}]

Configurable(r) == PmpGran <= r.order /\ r.base \div 2^PmpShift < 2^PmpAddrBits - 1

(* The e-th entry is made from the e-th region that can be configured.     *)
PmpEntries(rs) ==
  LET fit == {k \in DOMAIN rs : Configurable(rs[k])}
      nth(e) == CHOOSE k \in fit : Cardinality({l \in fit : l <= k}) = e
  IN  [e \in 1 .. Min({PmpCount, Cardinality(fit)}) |-> PmpSet(rs[nth(e)])]

PmpConfigure(h) ==
  /\ pc = "done"
  /\ pmp[h] = << >>
  /\ pmp' = [pmp EXCEPT ![h] = PmpEntries(regs[domainOf[h]])]
  /\ UNCHANGED <<domVars, loopVars, regs, finalized, pc, devVars, started, added>>

(* What the hardware makes of it: the first entry that has the address     *)
(* decides, in M-mode only if it is locked.                                *)
Ones(a) == Max({n \in 0 .. Xlen : a % 2^n = 2^n - 1})
Matches(e, addr) ==
  IF e.a = "NA4" THEN addr \div 2^PmpShift = e.addr
  ELSE LET size == Ones(e.addr) + 1 + PmpShift
       IN  size >= Xlen \/ addr \div 2^size = e.addr \div 2^(size - PmpShift)
PmpAllows(h, addr, mode, access) ==
  LET hits == {k \in DOMAIN pmp[h] : Matches(pmp[h][k], addr)}
  IN  IF hits = {} THEN mode = "M"
      ELSE LET f == pmp[h][Min(hits)].flags IN access \in f \/ (mode = "M" /\ "M" \notin f)
-----------------------------------------------------------------------------
Step ==
  \/ Register \/ SortStep \/ SortConflict \/ SortDone \/ Assign
  \/ AddRefused \/ AddMemregion \/ Sanitize \/ DeviceDone \/ MergeStep \/ MergeDone
  \/ Finalize \/ ParseDomain \/ Inherit \/ Inherited \/ Populated \/ StartDomain \/ StartFails \/ StartDone

Next == Step \/ (\E range \in Ranges : Device(range)) \/ (\E h \in Harts : PmpConfigure(h))

Spec == Init /\ [][Next]_vars

(* The cold boot hart keeps running.                                       *)
FairSpec == Spec /\ WF_vars(Step)
-----------------------------------------------------------------------------
(* The types, and the room in root_memregs, fdt_regions and                *)
(* domidx_to_domain_table.                                                 *)
TypeOK ==
  /\ regs \in [Doms -> Seq(Region)]
  /\ Len(regs[Root]) <= RootRegionMax
  /\ \A d \in Doms \ {Root} : Len(regs[d]) <= FdtRegionMax
  /\ Len(table) <= MaxIndex
  /\ table \in Seq(Doms)
  /\ assigned \in [Doms -> SUBSET Harts]
  /\ domainOf \in [Harts -> Doms \cup {None}]
  /\ boot \in [Doms -> Int \cup {None}]
  /\ next \in [Doms -> Addrs]
  /\ finalized \in BOOLEAN
  /\ cur \in Doms /\ mask \in SUBSET Harts
  /\ i \in Nat /\ j \in Nat /\ merged \in BOOLEAN
  /\ started \in [Harts -> Doms \cup {None}]
  /\ added \in SUBSET Region

Registered == {table[k] : k \in DOMAIN table}
Settled(d) ==
  d = Root => pc \notin {"sanitize", "merge", "hang"} /\ ~(pc = "sort" /\ cur = Root)

(* "Memory access checks on overlapping address should prefer smallest     *)
(* overlapping memory region flags": the first region in a registered      *)
(* domain's list that has an address is one of the smallest that have it.  *)
(* And no two regions of the list are equal, although the sort does not    *)
(* compare every pair of them; exempt are regions of the whole address     *)
(* space, which is_region_subset does not find to be subsets of anything.  *)
ChecksSmallest ==
  \A d \in Registered : Settled(d) =>
    /\ \A addr \in Addrs :
         LET hits == Hits(regs[d], addr, "S")
         IN  hits # {} => \A k \in hits : regs[d][Min(hits)].order <= regs[d][k].order
    /\ \A k, l \in DOMAIN regs[d] : k # l /\ regs[d][k].order < Xlen => regs[d][k] # regs[d][l]

(* The merges of sbi_domain_root_add_memregion change no access: the root  *)
(* domain decides about an address like the smallest of the regions it was *)
(* given, before they were merged.                                         *)
MergeKeepsAccess ==
  Settled(Root) => \A addr \in Addrs :
    LET given == {r \in added : Has(r, addr)}
    IN  \E r \in given :
          /\ \A g \in given : r.order <= g.order
          /\ r.flags = regs[Root][Min(Hits(regs[Root], addr, "S"))].flags

(* Once a device is initialized no S-mode access to it is allowed, in the  *)
(* root domain and in those of the device tree, however its tiles were cut *)
(* and merged.  Exempt are a device in the last tile of the address space, *)
(* whose region may become the whole space, and a device tree that opens a *)
(* part of a region of the root's.                                         *)
Guarded(range) == range \notin devices /\ range[1] + range[2] <= Space - TileMax
Opens(d) ==
  \E k \in DOMAIN regs[d], l \in DOMAIN regs[Root] :
    /\ ~Secret(regs[d][k]) /\ Secret(regs[Root][l])
    /\ Has(regs[Root][l], regs[d][k].base) /\ regs[d][k].order <= regs[Root][l].order

DevicesProtected ==
  pc \in {"idle", "populate", "start", "done"} =>
    \A range \in Ranges, d \in Registered : Guarded(range) /\ (d # Root => ~Opens(d)) =>
      \A addr \in range[1] .. range[1] + range[2] - 1, mmio \in BOOLEAN, x \in {"R", "W", "X"} :
        ~CheckAddr(regs[d], addr, "S", {x}, mmio)

(* "At any point in time, a HART is running in exactly one OpenSBI domain  *)
(* context": the table of harts and the domains' masks agree.  A boot hart *)
(* gets the next stage of its own domain, whose address it may execute     *)
(* there; the cold boot hart always gets one, also after another domain    *)
(* took it over.                                                           *)
BootsOwnDomain ==
  /\ table # << >> => \A h \in Harts, d \in Doms : h \in assigned[d] <=> domainOf[h] = d
  /\ \A h \in Harts : started[h] # None => started[h] = domainOf[h]
  /\ finalized => started[Cold] # None
  /\ finalized => \A h \in Harts : started[h] # None =>
       CheckAddr(regs[started[h]], next[started[h]], "S", {"X"}, FALSE)

(* What the PMP of a hart lets S-mode do, sbi_domain_check_addr allows,    *)
(* however few entries there are; and what the check allows, the PMP lets  *)
(* pass if it has an entry for each region.  The regions must not be       *)
(* smaller than what the PMP can tell apart.  Below the base of a region   *)
(* of order Xlen nothing is said: pmp_set makes an entry for the whole     *)
(* address space of it, the check starts at the base.                      *)
Reached(rs, addr) == \A k \in DOMAIN rs : rs[k].order = Xlen => rs[k].base <= addr
PmpAgrees ==
  \A h \in Harts : pmp[h] # << >> =>
    LET rs == regs[domainOf[h]]
    IN  (\A k \in DOMAIN rs : Configurable(rs[k])) =>
          \A addr \in {a \in Addrs : Reached(rs, a)}, x \in {"R", "W", "X"} :
            LET ok(mode) == \E mmio \in BOOLEAN : CheckAddr(rs, addr, mode, {x}, mmio)
            IN  /\ PmpAllows(h, addr, "S", x) => ok("S")
                /\ Len(rs) <= PmpCount =>
                     \A mode \in {"S", "M"} : ok(mode) => PmpAllows(h, addr, mode, x)

(* The cold boot gets through: merging regions and sorting them again ends *)
(* for every set of devices.                                               *)
ColdBootEnds == <>(pc \in {"done", "hang"})
=============================================================================
