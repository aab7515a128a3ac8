--------------------------------- MODULE FwBase ---------------------------------
(***************************************************************************)
(* The entry of the firmware: firmware/fw_base.S with fw_dynamic.S and     *)
(* fw_jump.S, from _start to the call of sbi_init, and the scratch space   *)
(* the entry lays out (lib/sbi/sbi_scratch.c).                             *)
(*                                                                         *)
(* All harts run the same code from one memory, in which one of them moves *)
(* that code to its link address, while the others poll a word of the old  *)
(* copy and then one of the new copy.  Memory is a function from addresses *)
(* to words, code included, so that a hart that runs a word which is not   *)
(* there yet, or not there any more, is visible.  Addresses count words;   *)
(* the sizes of the scratch allocator count bytes.                         *)
(***************************************************************************)
EXTENDS Integers, Sequences, FiniteSets, FiniteSetsExt

CONSTANTS
  Harts,         \* hart ids, of the platform or not
  Builds,        \* firmware builds and how they are started
  MemEnd,        \* number of words of memory
  ImageLen,      \* _bss_start - _fw_start
  BssEnd,        \* _bss_end - _fw_start
  FwLen,         \* _fw_end - _fw_start, also _fw_reloc_end - _fw_start
  StackSize,     \* hart_stack_size
  ScratchSize,   \* SBI_SCRATCH_SIZE
  Pointer,       \* bytes of a word, __SIZEOF_POINTER__
  Sizes,         \* sizes, in bytes, asked of the scratch allocator
  FdtLen,        \* words of a device tree
  InOrder,       \* stores of a hart reach the others in program order
  BufMax,        \* bound: stores of a hart that the others do not see yet
  None

(* Words of the image.  _relocate_done is the address of BootCode.         *)
StartCode == 0    \* _start ... the lottery
RelocCode == 1    \* _relocate ... the copy loops
WaitCode == 2     \* _wait_relocate_copy_done
BootCode == 3     \* _relocate_done ... sbi_init, fw_boot_hart
Lottery == 4      \* _relocate_lottery
Status == 5       \* _boot_status
LoadStart == 6    \* _load_start
LinkStart == 7    \* _link_start, _link_end
Info == 8         \* what fw_save_info saves
Ptr == 9          \* a pointer to Target
Target == 10

(* A build: position independent or not, its addresses, fw_dynamic or      *)
(* fw_jump, what the previous stage passes, where fw_platform_init leaves  *)
(* the device tree, and the platform's hart_index2id and hart_count.       *)
Build ==
  [pic : BOOLEAN, load : Nat, link : Nat, dynamic : BOOLEAN, badInfo : BOOLEAN, info : Harts \cup {None},
   a1 : Nat, jumpFdt : Nat \cup {None}, src : Nat, index2id : {None} \cup Seq(Int), count : Nat \ {0}]

RuntimeEnd(c) == FwLen + c.count * StackSize
Away(x, xlen, y, ylen) == x + xlen <= y \/ y + ylen <= x

(* Where the copy at the load address is may be overwritten by the copy at *)
(* the link address, which the code checks, but must not be where the      *)
(* stacks of that copy will be, which nothing checks; and the two are some *)
(* pages apart, as far as the data is from the code.  Device trees are in  *)
(* memory, away from the firmware.                                         *)
Placed(c) ==
  LET run == IF c.pic THEN c.load ELSE c.link
  IN  /\ run + RuntimeEnd(c) <= MemEnd /\ c.load + FwLen <= MemEnd
      /\ Away(c.load, FwLen, run, FwLen) =>
           Away(c.load, ImageLen, run + FwLen, RuntimeEnd(c) - FwLen)
      /\ (c.load - c.link) % Lottery = 0
      /\ \A a \in {c.a1, c.src, c.jumpFdt} \ {0, None} :
           /\ Away(a, FdtLen, run, RuntimeEnd(c)) /\ Away(a, FdtLen, c.load, ImageLen)
           /\ a + FdtLen <= MemEnd
      /\ c.index2id # None => c.count <= Len(c.index2id)

ASSUME FwAssumption ==
  /\ {MemEnd, ImageLen, BssEnd, FwLen, StackSize, Pointer, BufMax} \subseteq Nat \ {0}
  /\ Target < ImageLen /\ ImageLen < BssEnd /\ BssEnd <= FwLen /\ FwLen % Lottery = 0
  /\ ScratchSize \in 1 .. StackSize
  /\ Sizes \subseteq Nat /\ FdtLen \in Nat
  /\ Harts \subseteq Nat /\ None \notin Int
  /\ InOrder \in BOOLEAN
  /\ Builds \subseteq Build /\ \A c \in Builds : Placed(c)

VARIABLES
  b,        \* the build
  mem,      \* memory
  pc,       \* where each hart is
  base,     \* where the copy of the firmware is that each hart runs
  buf,      \* stores of each hart that the others do not see yet
  n,        \* loop counter of the boot hart
  scratch,  \* scratch space of each hart in sbi_init, mscratch
  table,    \* hartid_to_scratch_table, None before sbi_scratch_init
  extra,    \* extra_offset
  allocs    \* history: the areas sbi_scratch_alloc_offset returned

vars == <<b, mem, pc, base, buf, n, scratch, table, extra, allocs>>
allocVars == <<table, extra, allocs>>

Junk == <<"junk", 0>>
Code(o) == <<"code", o>>
Num(x) == <<"num", x>>
Fdt(k) == <<"fdt", k>>
Header(start, arg1) == <<"scratch", <<start, arg1>>>>

(* The image as it was linked.                                             *)
Image(link) ==
  [o \in 0 .. ImageLen - 1 |->
     CASE o \in {Lottery, Status, Info} -> Num(0)
       [] o \in {LoadStart, LinkStart} -> Num(link)
       [] o = Ptr -> Num(link + Target)
       [] OTHER -> Code(o)]

Init ==
  /\ b \in Builds
  /\ mem = [a \in 0 .. MemEnd - 1 |->
       IF b.load <= a /\ a < b.load + ImageLen THEN Image(b.link)[a - b.load]
       ELSE IF b.src # 0 /\ b.src <= a /\ a < b.src + FdtLen THEN Fdt(a - b.src) ELSE Junk]
  /\ pc = [h \in Harts |-> "off"]
  /\ base = [h \in Harts |-> b.load]
  /\ buf = [h \in Harts |-> << >>]
  /\ n = 0
  /\ scratch = [h \in Harts |-> None]
  /\ table = None
  /\ extra = Pointer
  /\ allocs = {}
-----------------------------------------------------------------------------
(* A hart sees its own stores at once, and the other harts' when they      *)
(* leave the buffer.                                                       *)
Load(h, a) ==
  LET own == {k \in DOMAIN buf[h] : buf[h][k][1] = a}
  IN  IF own = {} THEN mem[a] ELSE buf[h][Max(own)][2]
Word(h, o) == Load(h, base[h] + o)[2]

Store(h, a, x) ==
  /\ Len(buf[h]) < BufMax
  /\ buf' = [buf EXCEPT ![h] = Append(@, <<a, x>>)]

(* Memory (external): a store leaves the buffer, the oldest one or, under  *)
(* RVWMO, any that is not to the address of an older one.                  *)
Drain(h) ==
  \E k \in DOMAIN buf[h] :
    /\ \A l \in 1 .. k - 1 : ~InOrder /\ buf[h][l][1] # buf[h][k][1]
    /\ mem' = [mem EXCEPT ![buf[h][k][1]] = buf[h][k][2]]
    /\ buf' = [buf EXCEPT ![h] = SubSeq(@, 1, k - 1) \o SubSeq(@, k + 1, Len(@))]
    /\ UNCHANGED <<b, pc, base, n, scratch, allocVars>>

Goto(h, l) == pc' = [pc EXCEPT ![h] = l]

(* fence rw, rw *)
Fence(h, from, to) == pc[h] = from /\ buf[h] = << >> /\ Goto(h, to)
-----------------------------------------------------------------------------
(* A hart comes out of reset, sooner or later.                             *)
Enter(h) ==
  /\ pc[h] = "off"
  /\ Goto(h, "start")
  /\ UNCHANGED <<b, mem, base, buf, n, scratch, allocVars>>

(* fw_boot_hart: the preferred boot hart, if there is one.                 *)
Start(h) ==
  /\ pc[h] = "start"
  /\ Goto(h, IF b.badInfo THEN "stuck" ELSE IF b.info \in {None, h} THEN "lottery" ELSE "waitcopy")
  /\ UNCHANGED <<b, mem, base, buf, n, scratch, allocVars>>

(* _try_lottery: an amoadd on the word of the copy at the load address.    *)
TryLottery(h) ==
  /\ pc[h] = "lottery"
  /\ LET old == mem[base[h] + Lottery][2]
     IN  /\ mem' = [mem EXCEPT ![base[h] + Lottery] = Num(old + 1)]
         /\ Goto(h, IF old = 0 THEN "save" ELSE "waitcopy")
  /\ UNCHANGED <<b, base, buf, n, scratch, allocVars>>

SaveLoadStart(h) ==
  /\ pc[h] = "save"
  /\ Store(h, base[h] + LoadStart, Num(base[h]))
  /\ Goto(h, IF b.pic THEN "pic" ELSE "relocate")
  /\ UNCHANGED <<b, mem, base, n, scratch, allocVars>>

(* FW_PIC: the entries of .rela.dyn; here there is one.                    *)
PicRelocate(h) ==
  /\ pc[h] = "pic"
  /\ LET delta == base[h] - Word(h, LinkStart)
     IN  Store(h, b.link + Ptr + delta, Num(b.link + Target + delta))
  /\ Goto(h, "status")
  /\ UNCHANGED <<b, mem, base, n, scratch, allocVars>>

(* _relocate: the words of the load copy that must not be overwritten.     *)
(* The blt and bge of BRANGE compare addresses of the load copy with the   *)
(* ends of what is in both copies.                                         *)
InRange(lo, hi, a) == lo <= a /\ a < hi

(* Mutant: only the code is looked at.                                     *)
Clash_Code(h) ==
  LET link == Word(h, LinkStart)
      load == Word(h, LoadStart)
      lo == IF link < load THEN load ELSE link
      hi == IF link < load THEN link + FwLen ELSE load + FwLen
  IN  /\ lo < hi
      /\ \/ \E o \in {RelocCode, BootCode} : InRange(lo, hi, load + o)
         \/ InRange(load + RelocCode, load + BootCode, lo)

Clash(h) ==
  LET link == Word(h, LinkStart)
      load == Word(h, LoadStart)
      lo == IF link < load THEN load ELSE link
      hi == IF link < load THEN link + FwLen ELSE load + FwLen
  IN  /\ lo < hi
      /\ \/ \E o \in {Lottery, Status, RelocCode, BootCode} : InRange(lo, hi, load + o)
         \/ InRange(load + RelocCode, load + BootCode, lo)

Relocate(h) ==
  /\ pc[h] = "relocate"
  /\ LET link == Word(h, LinkStart)
         load == Word(h, LoadStart)
     IN  /\ Goto(h, IF link = load THEN "status" ELSE IF Clash(h) THEN "stuck" ELSE "copy")
         /\ n' = IF link < load THEN 0 ELSE FwLen - 1
  /\ UNCHANGED <<b, mem, base, buf, scratch, allocVars>>

(* _relocate_copy_to_lower_loop goes up, _relocate_copy_to_upper_loop goes *)
(* down, and the last iteration jumps to the copy.                         *)
Copy(h) ==
  /\ pc[h] = "copy"
  /\ LET last == n = IF b.link < b.load THEN FwLen - 1 ELSE 0
     IN  /\ Store(h, b.link + n, Load(h, b.load + n))
         /\ Goto(h, IF last THEN "status" ELSE "copy")
         /\ base' = IF last THEN [base EXCEPT ![h] = b.link] ELSE base
         /\ n' = IF last THEN 0 ELSE IF b.link < b.load THEN n + 1 ELSE n - 1
  /\ UNCHANGED <<b, mem, scratch, allocVars>>

(* _wait_relocate_copy_done, and the jump to _wait_for_boot_hart of the    *)
(* copy at the link address.  Mutant: the load address is not subtracted.  *)
WaitRelocateCopyDone_NoSub(h) ==
  /\ pc[h] = "waitcopy"
  /\ LET link == Word(h, LinkStart)
     IN  /\ b.pic \/ base[h] = link \/ Word(h, Status) >= 1
         /\ base' = IF b.pic \/ base[h] = link THEN base ELSE [base EXCEPT ![h] = @ + link]
  /\ Goto(h, "wait")
  /\ UNCHANGED <<b, mem, buf, n, scratch, allocVars>>

WaitRelocateCopyDone(h) ==
  /\ pc[h] = "waitcopy"
  /\ LET link == Word(h, LinkStart)
     IN  /\ b.pic \/ base[h] = link \/ Word(h, Status) >= 1
         /\ base' = IF b.pic THEN base ELSE [base EXCEPT ![h] = link]
  /\ Goto(h, "wait")
  /\ UNCHANGED <<b, mem, buf, n, scratch, allocVars>>

(* _relocate_done: the word of the load copy.  Mutant: of the other copy.  *)
RelocateDone_Link(h) ==
  /\ pc[h] = "status"
  /\ Store(h, base[h] + Status, Num(1))
  /\ Goto(h, "fence")
  /\ UNCHANGED <<b, mem, base, n, scratch, allocVars>>

RelocateDone(h) ==
  /\ pc[h] = "status"
  /\ LET moved == IF b.pic THEN 0 ELSE Word(h, LoadStart) - Word(h, LinkStart)
     IN  Store(h, base[h] + Status + moved, Num(1))
  /\ Goto(h, "fence")
  /\ UNCHANGED <<b, mem, base, n, scratch, allocVars>>

RelocateFence(h) ==
  /\ Fence(h, "fence", "bss")
  /\ n' = ImageLen
  /\ UNCHANGED <<b, mem, base, buf, scratch, allocVars>>
-----------------------------------------------------------------------------
(* _bss_zero *)
BssZero(h) ==
  /\ pc[h] = "bss"
  /\ Store(h, base[h] + n, Num(0))
  /\ n' = n + 1
  /\ Goto(h, IF n + 1 < BssEnd THEN "bss" ELSE "info")
  /\ UNCHANGED <<b, mem, base, scratch, allocVars>>

(* fw_save_info: fw_dynamic keeps a1, which fw_next_arg1 returns.          *)
SaveInfo(h) ==
  /\ pc[h] = "info"
  /\ IF b.dynamic THEN Store(h, base[h] + Info, Num(b.a1)) ELSE UNCHANGED buf
  /\ Goto(h, "scratch")
  /\ n' = 0
  /\ UNCHANGED <<b, mem, base, scratch, allocVars>>

NextArg1(h) ==
  IF b.dynamic THEN Word(h, Info) ELSE IF b.jumpFdt # None THEN b.jumpFdt ELSE b.src

(* Where the scratch space of a hart index is.  Mutant: without the size.  *)
ScratchAddr_Top(h, index) == base[h] + FwLen + b.count * StackSize - StackSize * index
ScratchAddr(h, index) ==
  base[h] + FwLen + b.count * StackSize - StackSize * index - ScratchSize

(* _scratch_init *)
ScratchInit(h) ==
  /\ pc[h] = "scratch"
  /\ Store(h, ScratchAddr(h, n), Header(base[h], NextArg1(h)))
  /\ n' = IF n + 1 < b.count THEN n + 1 ELSE 0
  /\ Goto(h, IF n + 1 < b.count THEN "scratch" ELSE "fdt")
  /\ UNCHANGED <<b, mem, base, scratch, allocVars>>

(* The copy of the device tree.  Mutant: one word less.                    *)
FdtReloc_Less(h) ==
  /\ pc[h] = "fdt"
  /\ LET dst == NextArg1(h)
     IN  IF b.src # 0 /\ dst # 0 /\ dst # b.src /\ n + 1 < FdtLen
         THEN Store(h, dst + n, Load(h, b.src + n)) /\ n' = n + 1 /\ UNCHANGED pc
         ELSE Goto(h, "done") /\ UNCHANGED <<buf, n>>
  /\ UNCHANGED <<b, mem, base, scratch, allocVars>>

FdtReloc(h) ==
  /\ pc[h] = "fdt"
  /\ LET dst == NextArg1(h)
     IN  IF b.src # 0 /\ dst # 0 /\ dst # b.src /\ n < FdtLen
         THEN Store(h, dst + n, Load(h, b.src + n)) /\ n' = n + 1 /\ UNCHANGED pc
         ELSE Goto(h, "done") /\ UNCHANGED <<buf, n>>
  /\ UNCHANGED <<b, mem, base, scratch, allocVars>>

(* _fdt_reloc_done *)
BootHartDone(h) ==
  /\ pc[h] = "done"
  /\ Store(h, base[h] + Status, Num(2))
  /\ Goto(h, "fence2")
  /\ UNCHANGED <<b, mem, base, n, scratch, allocVars>>

BootHartFence(h) == Fence(h, "fence2", "warm") /\ UNCHANGED <<b, mem, base, buf, n, scratch, allocVars>>

(* _wait_for_boot_hart *)
WaitForBootHart(h) ==
  /\ pc[h] = "wait"
  /\ Word(h, Status) = 2
  /\ Goto(h, "warm")
  /\ UNCHANGED <<b, mem, base, buf, n, scratch, allocVars>>

(* _start_warm: the index of the hart, -1 if it is not in the table.  The  *)
(* comparison with the count is signed.                                    *)
HartIndex(h) ==
  IF b.index2id = None THEN h
  ELSE LET at == {k \in 1 .. b.count : b.index2id[k] = h}
       IN  IF at = {} THEN -1 ELSE Min(at) - 1

StartWarm(h) ==
  /\ pc[h] = "warm"
  /\ IF HartIndex(h) >= b.count
     THEN Goto(h, "hang") /\ UNCHANGED scratch
     ELSE /\ Goto(h, "init")
          /\ scratch' = [scratch EXCEPT ![h] = ScratchAddr(h, HartIndex(h))]
  /\ UNCHANGED <<b, mem, base, buf, n, allocVars>>

(* A hart that was stopped comes back at warmboot_addr.                    *)
Restart(h) ==
  /\ pc[h] = "init"
  /\ table # None
  /\ Goto(h, "warm")
  /\ UNCHANGED <<b, mem, base, buf, n, scratch, allocVars>>
-----------------------------------------------------------------------------
Known(h) == HartIndex(h) \in 0 .. b.count - 1

(* sbi_scratch_init, in the cold boot; _hartid_to_scratch.                 *)
SbiScratchInit(h) ==
  /\ pc[h] = "init" /\ Known(h)
  /\ table = None
  /\ table' = [g \in Harts |-> IF Known(g) THEN base[h] + FwLen + (b.count - HartIndex(g)) * StackSize - ScratchSize
                               ELSE 0]
  /\ UNCHANGED <<b, mem, pc, base, buf, n, scratch, extra, allocs>>

(* sbi_scratch_alloc_offset: rounded up; 0 if there is no room.  Its       *)
(* callers pass the size of a type, so that extra_offset + size is far     *)
(* from wrapping, and the words that it zeroes after the unlock are not    *)
(* used before it returns.  Mutant: rounded down.                          *)
Rounded_Down(size) == (size \div Pointer) * Pointer
Rounded(size) == IF size % Pointer # 0 THEN (size \div Pointer) * Pointer + Pointer ELSE size

AllocOffset(h, size) ==
  /\ pc[h] = "init"
  /\ table # None
  /\ size > 0
  /\ ScratchSize * Pointer >= extra + Rounded(size)
  /\ extra' = extra + Rounded(size)
  /\ allocs' = allocs \cup {<<extra, size>>}
  /\ mem' = [a \in DOMAIN mem |->
       IF \E g \in Harts : table[g] # 0 /\ InRange(extra, extra', (a - table[g]) * Pointer) THEN Num(0) ELSE mem[a]]
  /\ UNCHANGED <<b, pc, base, buf, n, scratch, table>>

Next ==
  \E h \in Harts :
    \/ Drain(h) \/ Enter(h) \/ Start(h) \/ TryLottery(h) \/ SaveLoadStart(h) \/ PicRelocate(h)
    \/ Relocate(h) \/ Copy(h) \/ WaitRelocateCopyDone(h) \/ RelocateDone(h) \/ RelocateFence(h)
    \/ BssZero(h) \/ SaveInfo(h) \/ ScratchInit(h) \/ FdtReloc(h) \/ BootHartDone(h)
    \/ BootHartFence(h) \/ WaitForBootHart(h) \/ StartWarm(h) \/ Restart(h)
    \/ SbiScratchInit(h) \/ \E size \in Sizes : AllocOffset(h, size)

Spec == Init /\ [][Next]_vars

(* A hart that was let out of reset runs, and its stores arrive.           *)
Runs(h) ==
  \/ Start(h) \/ TryLottery(h) \/ SaveLoadStart(h) \/ PicRelocate(h) \/ Relocate(h) \/ Copy(h)
  \/ WaitRelocateCopyDone(h) \/ RelocateDone(h) \/ RelocateFence(h) \/ BssZero(h) \/ SaveInfo(h)
  \/ ScratchInit(h) \/ FdtReloc(h) \/ BootHartDone(h) \/ BootHartFence(h) \/ WaitForBootHart(h)
  \/ StartWarm(h)

FairSpec == Spec /\ \A h \in Harts : WF_vars(Runs(h)) /\ WF_vars(Drain(h))
-----------------------------------------------------------------------------
Labels ==
  {"off", "start", "lottery", "save", "pic", "relocate", "copy", "waitcopy", "status", "fence", "bss",
   "info", "scratch", "fdt", "done", "fence2", "wait", "warm", "init", "hang", "stuck"}

TypeOK ==
  /\ b \in Builds
  /\ DOMAIN mem = 0 .. MemEnd - 1
  /\ pc \in [Harts -> Labels]
  /\ base \in [Harts -> {b.load, b.link}]
  /\ \A h \in Harts : Len(buf[h]) <= BufMax
  /\ n \in 0 .. MemEnd
  /\ extra \in Nat

(* The words of the image a hart at a label may execute or read.           *)
Needs(l) ==
  CASE l \in {"off", "hang", "stuck"} -> {}
    [] l \in {"start", "lottery", "save"} -> {StartCode, BootCode, WaitCode, RelocCode}
    [] l \in {"relocate", "copy", "pic"} -> {RelocCode}
    [] l = "waitcopy" -> {WaitCode}
    [] OTHER -> {o \in 0 .. ImageLen - 1 : Image(0)[o] = Code(o)}

(* Every hart runs code that is there: not before it was copied to the     *)
(* link address, not after the image, its BSS, the stacks or the device    *)
(* tree took the place of the copy at the load address, whenever the hart  *)
(* comes out of reset.  The addresses that a waiting hart reads are        *)
(* intact, and in the end the pointers in the data are those of the copy   *)
(* that runs.                                                              *)
RunsIntactCode ==
  \A h \in Harts :
    /\ \A o \in Needs(pc[h]) : Load(h, base[h] + o) = Code(o)
    /\ pc[h] = "waitcopy" => Word(h, LinkStart) = b.link
    /\ pc[h] = "init" => Word(h, Ptr) = base[h] + Target

(* A hart of the platform enters sbi_init at the link address with a       *)
(* scratch space that the boot hart has filled, inside of what fw_start    *)
(* and fw_size describe, that no other hart's space or stack shares, and   *)
(* that is the one sbi_scratch_init will compute.                          *)
Stack(h) == (scratch[h] - (StackSize - ScratchSize)) .. (scratch[h] + ScratchSize - 1)
ScratchReady ==
  \A h \in Harts : pc[h] = "init" /\ Known(h) =>
    /\ base[h] = IF b.pic THEN b.load ELSE b.link
    /\ mem[scratch[h]][1] = "scratch" /\ mem[scratch[h]][2][1] = base[h]
    /\ Stack(h) \subseteq base[h] + FwLen .. base[h] + RuntimeEnd(b) - 1
    /\ \A g \in Harts \ {h} : pc[g] = "init" => Stack(g) \cap Stack(h) = {}
    /\ table # None => table[h] = scratch[h]

(* The next stage finds the whole device tree where its a1 points, unless  *)
(* it was copied upwards onto itself.                                      *)
FdtIntact ==
  \A h \in Harts : pc[h] = "init" /\ Known(h) /\ b.src # 0 =>
    LET dst == mem[scratch[h]][2][2]
    IN  dst # 0 /\ ~(b.src < dst /\ dst < b.src + FdtLen) =>
          \A k \in 0 .. FdtLen - 1 : mem[dst + k] = Fdt(k)

(* Areas of the scratch space lie in it, behind its header, and share no   *)
(* byte; each is zero in the space of every hart of the platform.          *)
AllocsSound ==
  /\ \A x \in allocs :
       /\ Pointer <= x[1] /\ x[1] + x[2] <= ScratchSize * Pointer
       /\ x[1] % Pointer = 0
       /\ \A y \in allocs : x # y => Away(x[1], x[2], y[1], y[2])
       /\ \A h \in Harts, k \in 0 .. x[2] - 1 :
            Known(h) => mem[table[h] + (x[1] + k) \div Pointer] = Num(0)

(* Every hart of the platform that comes out of reset, at whatever time,   *)
(* gets to sbi_init, unless the relocation is refused or the preferred     *)
(* boot hart never comes.                                                  *)
NoBootHart == \E h \in Harts : pc[h] = "stuck" \/ (b.info = h /\ pc[h] = "off")
EveryHartArrives ==
  \A h \in Harts : (pc[h] = "start" /\ Known(h)) ~> (pc[h] = "init" \/ NoBootHart)
=============================================================================
