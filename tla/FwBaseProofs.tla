------------------------------ MODULE FwBaseProofs ------------------------------
(* Proofs about the entry of the firmware, for harts whose stores reach    *)
(* the others in program order.                                            *)
EXTENDS FwBase, NumberLemmas

USE DEF StartCode, RelocCode, WaitCode, BootCode, Lottery, Status, LoadStart, LinkStart, Info, Ptr, Target

(* The copy that runs in the end, and what its words are then.             *)
Run(c) == IF c.pic THEN c.load ELSE c.link
Moves(c) == ~c.pic /\ c.load # c.link
Arg(c) == IF c.dynamic THEN c.a1 ELSE IF c.jumpFdt # None THEN c.jumpFdt ELSE c.src
Space(c, k) == Run(c) + FwLen + c.count * StackSize - StackSize * k - ScratchSize
Words == (0 .. ImageLen - 1) \ {Lottery, Status, Info}
Final(c, o) ==
  CASE o = LoadStart -> Num(c.load)
    [] o = LinkStart -> Num(c.link)
    [] o = Ptr -> Num(Run(c) + Target)
    [] o = Status -> Num(0)
    [] OTHER -> Code(o)

(* The copy does not overwrite what the other harts use.                   *)
Clear(c) == Moves(c) => c.link >= c.load + Info \/ c.link + FwLen <= c.load

(* Memory: the copy at the load address, the copy that runs, the scratch   *)
(* spaces, the device tree before and after it is moved.                   *)
Fixed(c, m) ==
  /\ \A o \in 0 .. 3 : m[c.load + o] = Code(o)
  /\ m[c.load + LinkStart] = Num(c.link)
  /\ m[c.load + Lottery] \in {"num"} \X Nat
Original(c, m) ==
  /\ \A o \in Words \ {LoadStart, Ptr} : m[c.load + o] = Final(c, o)
  /\ ~c.pic => m[c.load + Ptr] = Final(c, Ptr)
  /\ m[c.load + Status] = Num(0)
CodeAt(c, m) == \A o \in Words \ {LoadStart, Ptr} : m[Run(c) + o] = Final(c, o)
ImageAt(c, m) == \A o \in Words : m[Run(c) + o] = Final(c, o)
HeadersAt(c, m, k) == \A l \in 0 .. k - 1 : m[Space(c, l)] = Header(Run(c), Arg(c))
SrcAt(c, m) == c.src # 0 => \A l \in 0 .. FdtLen - 1 : m[c.src + l] = Fdt(l)
TreeMoves(c) == c.src # 0 /\ Arg(c) # 0 /\ ~(c.src < Arg(c) /\ Arg(c) < c.src + FdtLen)
TreeAt(c, m) == TreeMoves(c) => \A l \in 0 .. FdtLen - 1 : m[Arg(c) + l] = Fdt(l)
Complete(c, m) == ImageAt(c, m) /\ HeadersAt(c, m, c.count) /\ TreeAt(c, m)

Moved(c, m) == Moves(c) => m[c.load + Status] # Num(0)
Done(c, m) == Moved(c, m) /\ m[Run(c) + Status] = Num(2)
MemInv(c, m) ==
  /\ Fixed(c, m)
  /\ Moved(c, m) => Clear(c) /\ CodeAt(c, m) /\ m[Run(c) + Status] \in {Num(0), Num(1), Num(2)}
  /\ Done(c, m) => Complete(c, m)

(* Memory when all stores of the buffer q have arrived.                    *)
View(m, q, a) ==
  LET own == {k \in DOMAIN q : q[k][1] = a}
  IN  IF own = {} THEN m[a] ELSE q[Max(own)][2]
Seen(m, q) == [a \in DOMAIN m |-> View(m, q, a)]

(* Where the boot hart writes: before the others may run the copy, after   *)
(* that, and when it moves the device tree.                                *)
FrontArea(c) ==
  {c.load + LoadStart} \cup (IF c.pic THEN {c.load + Ptr} ELSE {})
    \cup (IF Moves(c) THEN c.link .. c.link + FwLen - 1 ELSE {})
BackArea(c) == {Run(c) + Info} \cup (Run(c) + ImageLen .. Run(c) + RuntimeEnd(c) - 1)
TreeArea(c) == IF c.src # 0 /\ Arg(c) # 0 THEN Arg(c) .. Arg(c) + FdtLen - 1 ELSE {}

Within(q, S) == \A k \in DOMAIN q : q[k][1] \in S
(* Either all has arrived, or the word at a comes last.                    *)
Signals(q, S, a, x) ==
  q = << >> \/ /\ q[Len(q)] = <<a, x>>
               /\ \A k \in 1 .. Len(q) - 1 : q[k][1] \in S

Started == {Num(0), Num(1)}
Front == {"copy", "status", "fence"}
Before == {"save", "pic", "relocate", "stuck"}
Back == {"bss", "info", "scratch", "fdt", "done", "fence2"}
PendInv(c, l, m, q) ==
  CASE l = "save" -> q = << >>
    [] l \in {"pic", "relocate", "stuck"} -> Within(q, {c.load + LoadStart})
    [] l \in {"copy", "status"} -> Within(q, FrontArea(c))
    [] l = "fence" ->
         /\ Signals(q, FrontArea(c), c.load + Status, Num(1))
         /\ q # << >> => m[c.load + Status] = Num(0)
    [] l \in {"bss", "info", "scratch", "fdt", "done"} -> Within(q, BackArea(c) \cup TreeArea(c))
    [] l = "fence2" ->
         /\ Signals(q, BackArea(c) \cup TreeArea(c), Run(c) + Status, Num(2))
         /\ q # << >> => m[Run(c) + Status] \in Started
    [] OTHER -> FALSE

(* The words of the image that were copied when the counter is k.          *)
Copied(c, k) == IF c.link < c.load THEN 0 .. k - 1 ELSE k + 1 .. FwLen - 1
Copying(c, v, k) ==
  /\ Moves(c) /\ k \in 0 .. FwLen - 1
  /\ \A o \in Words \cup {Status} :
       IF o \in Copied(c, k) THEN v[c.link + o] = Final(c, o) ELSE v[c.load + o] = Final(c, o)

TreeCopying(c, v, k) ==
  /\ k = 0 \/ (k \in 0 .. FdtLen /\ c.src # 0 /\ Arg(c) # 0 /\ Arg(c) # c.src)
  /\ TreeMoves(c) =>
       \A l \in 0 .. FdtLen - 1 : IF l < k THEN v[Arg(c) + l] = Fdt(l) ELSE v[c.src + l] = Fdt(l)

(* What the boot hart sees at each label.                                  *)
Fresh(c, v) == Original(c, v) /\ SrcAt(c, v)
Steady(c, v) ==
  /\ Clear(c) /\ ImageAt(c, v)
  /\ Moves(c) => v[c.load + Status] = Num(1)
Ahead(c, v) == Steady(c, v) /\ v[Run(c) + Status] \in Started
Informed(c, v) == c.dynamic => v[Run(c) + Info] = Num(c.a1)
StageInv(c, l, v, k) ==
  CASE l \in {"save", "stuck"} -> Fresh(c, v)
    [] l = "pic" -> Fresh(c, v) /\ v[c.load + LoadStart] = Num(c.load) /\ c.pic
    [] l = "relocate" -> Fresh(c, v) /\ v[c.load + LoadStart] = Num(c.load) /\ ~c.pic
    [] l = "copy" -> Clear(c) /\ Copying(c, v, k) /\ v[c.load + Status] = Num(0) /\ SrcAt(c, v)
    [] l = "status" ->
         Clear(c) /\ ImageAt(c, v) /\ v[c.load + Status] = Num(0) /\ v[Run(c) + Status] = Num(0) /\ SrcAt(c, v)
    [] l = "fence" -> Ahead(c, v) /\ SrcAt(c, v)
    [] l = "bss" -> Ahead(c, v) /\ SrcAt(c, v) /\ k \in ImageLen .. BssEnd - 1
    [] l = "info" -> Ahead(c, v) /\ SrcAt(c, v)
    [] l = "scratch" ->
         Ahead(c, v) /\ SrcAt(c, v) /\ Informed(c, v) /\ k \in 0 .. c.count - 1 /\ HeadersAt(c, v, k)
    [] l = "fdt" -> Ahead(c, v) /\ Informed(c, v) /\ HeadersAt(c, v, c.count) /\ TreeCopying(c, v, k)
    [] l = "done" -> Ahead(c, v) /\ HeadersAt(c, v, c.count) /\ TreeAt(c, v)
    [] l = "fence2" -> Steady(c, v) /\ HeadersAt(c, v, c.count) /\ TreeAt(c, v) /\ v[Run(c) + Status] = Num(2)
    [] OTHER -> FALSE

BootInv(c, l, m, q, k) == PendInv(c, l, m, q) /\ StageInv(c, l, Seen(m, q), k)

Late == {"warm", "init", "hang"}
Early == {"off", "start", "lottery", "waitcopy"}
Boots(h) == pc[h] \in Before \cup Front \cup Back /\ ~b.badInfo

Value == ({"junk", "code", "num", "fdt"} \X Int) \cup ({"scratch"} \X (Int \X Int))
TypeInv ==
  /\ b \in Builds
  /\ mem \in [0 .. MemEnd - 1 -> Value]
  /\ pc \in [Harts -> Labels]
  /\ base \in [Harts -> {b.load, b.link}]
  /\ buf \in [Harts -> Seq((0 .. MemEnd - 1) \X Value)]
  /\ \A h \in Harts : Len(buf[h]) <= BufMax
  /\ n \in 0 .. MemEnd
  /\ DOMAIN scratch = Harts

BaseInv ==
  \A h \in Harts :
    base[h] = IF pc[h] \in Early \cup Before \cup {"copy"} THEN b.load ELSE Run(b)

HartInv ==
  /\ \A h \in Harts : ~Boots(h) => buf[h] = << >>
  /\ b.badInfo => \A h \in Harts : pc[h] \in {"off", "start", "stuck"}
  /\ \A g, h \in Harts : Boots(g) /\ Boots(h) => g = h
  /\ \A h \in Harts : Boots(h) => BootInv(b, pc[h], mem, buf[h], n)
  /\ \A h \in Harts : pc[h] = "wait" => Moved(b, mem)
  /\ \A h \in Harts : pc[h] \in Late => Done(b, mem)
  /\ mem[b.load + Lottery] = Num(0) =>
       /\ \A h \in Harts : ~Boots(h) /\ pc[h] \notin Late
       /\ Original(b, mem) /\ SrcAt(b, mem)

TableInv ==
  /\ \A h \in Harts : pc[h] = "init" => HartIndex(h) < b.count /\ scratch[h] = Space(b, HartIndex(h))
  /\ table # None => Done(b, mem)
  /\ table # None =>
       table = [g \in Harts |-> IF Known(g) THEN Run(b) + FwLen + (b.count - HartIndex(g)) * StackSize - ScratchSize
                                ELSE 0]

AllocInv ==
  /\ extra \in Nat /\ extra % Pointer = 0 /\ Pointer <= extra /\ extra <= ScratchSize * Pointer
  /\ allocs \in SUBSET (Nat \X Nat)
  /\ allocs # {} => table # None
  /\ \A x \in allocs : x[1] + x[2] <= extra
  /\ AllocsSound

FwInv == TypeInv /\ BaseInv /\ HartInv /\ MemInv(b, mem) /\ TableInv /\ AllocInv
-----------------------------------------------------------------------------
(* Numbers and builds.                                                     *)
LEMMA Lengths ==
  /\ {MemEnd, ImageLen, BssEnd, FwLen, StackSize, ScratchSize, Pointer, BufMax} \subseteq Nat \ {0}
  /\ FdtLen \in Nat /\ 10 < ImageLen /\ ImageLen < BssEnd /\ BssEnd <= FwLen /\ FwLen % 4 = 0
  /\ ScratchSize <= StackSize
  BY FwAssumption

(* The words of memory.                                                    *)
LEMMA ValueOf ==
  ASSUME NEW x, NEW y
  PROVE  /\ Num(x)[2] = x /\ (Num(x) = Num(y) <=> x = y) /\ Num(x) # Code(y) /\ Num(x)[1] = "num"
         /\ Header(x, y)[1] = "scratch" /\ Header(x, y)[2][1] = x /\ Header(x, y)[2][2] = y
  BY DEF Num, Code, Header

LEMMA ValueType ==
  ASSUME NEW x \in Int, NEW y \in Int
  PROVE  /\ {Num(x), Code(x), Fdt(x), Header(x, y), Junk} \subseteq Value
         /\ Num(x) \in {"num"} \X Int
  BY DEF Num, Code, Fdt, Header, Junk, Value

LEMMA NumType ==
  ASSUME NEW x \in Int
  PROVE  Num(x) \in Value
  BY DEF Num, Value

(* Where the two copies and the device trees are.                          *)
LEMMA BuildIs ==
  ASSUME NEW c \in Builds
  PROVE  /\ c.load \in Nat /\ c.link \in Nat /\ c.a1 \in Nat /\ c.src \in Nat /\ c.count \in Nat \ {0}
         /\ c.pic \in BOOLEAN /\ c.dynamic \in BOOLEAN /\ c.badInfo \in BOOLEAN
         /\ Run(c) \in Nat /\ Arg(c) \in Nat
         /\ (Moves(c) => Run(c) = c.link) /\ (~Moves(c) => Run(c) = c.load)
         /\ c.index2id # None => c.index2id \in Seq(Int) /\ c.count <= Len(c.index2id)
  <1>1. c \in Build /\ Placed(c)
    BY FwAssumption
  <1>2. /\ c.load \in Nat /\ c.link \in Nat /\ c.a1 \in Nat /\ c.src \in Nat /\ c.count \in Nat \ {0}
        /\ c.pic \in BOOLEAN /\ c.dynamic \in BOOLEAN /\ c.badInfo \in BOOLEAN
        /\ c.jumpFdt \in Nat \cup {None} /\ c.index2id \in {None} \cup Seq(Int)
    BY <1>1 DEF Build
  <1>3. Run(c) \in Nat /\ Arg(c) \in Nat
    BY <1>2 DEF Run, Arg
  <1>4. (Moves(c) => Run(c) = c.link) /\ (~Moves(c) => Run(c) = c.load)
    BY DEF Moves, Run
  <1>5. c.index2id # None => c.count <= Len(c.index2id)
    BY <1>1 DEF Placed
  <1> QED
    BY <1>2, <1>3, <1>4, <1>5

LEMMA Layout ==
  ASSUME NEW c \in Builds
  PROVE  \E end \in Nat :
           /\ end = RuntimeEnd(c) /\ FwLen <= end /\ end = FwLen + c.count * StackSize
           /\ Run(c) + end <= MemEnd /\ c.load + FwLen <= MemEnd
           /\ Away(c.load, FwLen, Run(c), FwLen) => Away(c.load, ImageLen, Run(c) + FwLen, end - FwLen)
           /\ (c.load - c.link) % 4 = 0
           /\ \A a \in {Arg(c), c.src} : a # 0 =>
                Away(a, FdtLen, Run(c), end) /\ Away(a, FdtLen, c.load, ImageLen) /\ a + FdtLen <= MemEnd
  <1>1. Placed(c) /\ c \in Build
    BY FwAssumption
  <1>2. PICK cs \in Nat : cs = c.count * StackSize
    BY BuildIs, Lengths
  <1>3. PICK end \in Nat : end = RuntimeEnd(c) /\ end = FwLen + cs
    BY <1>2, Lengths DEF RuntimeEnd
  <1>4. FwLen <= end
    BY <1>2, <1>3, Lengths
  <1>5. /\ Run(c) + end <= MemEnd /\ c.load + FwLen <= MemEnd
        /\ Away(c.load, FwLen, Run(c), FwLen) => Away(c.load, ImageLen, Run(c) + FwLen, end - FwLen)
        /\ (c.load - c.link) % 4 = 0
        /\ \A a \in {c.a1, c.src, c.jumpFdt} \ {0, None} :
             Away(a, FdtLen, Run(c), end) /\ Away(a, FdtLen, c.load, ImageLen) /\ a + FdtLen <= MemEnd
    BY <1>1, <1>3 DEF Placed, Run
  <1>6. {Arg(c), c.src} \subseteq {c.a1, c.src, c.jumpFdt} \ {None}
    BY <1>1, BuildIs, FwAssumption DEF Arg, Build
  <1> QED
    BY <1>2, <1>3, <1>4, <1>5, <1>6
-----------------------------------------------------------------------------
(* Memory and the buffer of a hart.                                        *)
Entries == Seq((0 .. MemEnd - 1) \X Value)
Memory == [0 .. MemEnd - 1 -> Value]

LEMMA EntryIs ==
  ASSUME NEW q \in Entries, NEW k \in DOMAIN q
  PROVE  /\ k \in 1 .. Len(q) /\ Len(q) \in Nat
         /\ q[k][1] \in 0 .. MemEnd - 1 /\ q[k][2] \in Value /\ q[k] = <<q[k][1], q[k][2]>>
  BY DEF Entries

LEMMA ViewNone ==
  ASSUME NEW m, NEW q, NEW a, \A k \in DOMAIN q : q[k][1] # a
  PROVE  View(m, q, a) = m[a]
  BY DEF View

(* The last entry for an address counts.                                   *)
LEMMA ViewLast ==
  ASSUME NEW m, NEW q \in Entries, NEW a, NEW k \in DOMAIN q, q[k][1] = a,
         \A l \in DOMAIN q : l > k => q[l][1] # a
  PROVE  View(m, q, a) = q[k][2]
  <1> DEFINE own == {l \in DOMAIN q : q[l][1] = a}
  <1>1. PICK len \in Nat : DOMAIN q = 1 .. len
    BY DEF Entries
  <1>2. own \in SUBSET (0 .. len) /\ own # {} /\ k \in own
    BY <1>1
  <1>3. Max(own) \in own /\ k <= Max(own)
    BY <1>2, MaxIn
  <1>4. \A l \in own : l <= k
    BY <1>1
  <1>5. Max(own) = k
    BY <1>1, <1>3, <1>4
  <1> QED
    BY <1>2, <1>5 DEF View

LEMMA LastEntry ==
  ASSUME NEW q \in Entries, NEW a, ~\A k \in DOMAIN q : q[k][1] # a
  PROVE  \E k \in DOMAIN q : q[k][1] = a /\ \A l \in DOMAIN q : l > k => q[l][1] # a
  <1> DEFINE own == {l \in DOMAIN q : q[l][1] = a}
  <1>1. PICK len \in Nat : DOMAIN q = 1 .. len
    BY DEF Entries
  <1>2. own \in SUBSET (0 .. len) /\ own # {}
    BY <1>1
  <1>3. PICK k \in own : k = Max(own) /\ \A l \in own : l <= k
    BY <1>2, MaxIn
  <1>4. k \in 1 .. len /\ q[k][1] = a
    BY <1>1, <1>3
  <1>5. ASSUME NEW l \in DOMAIN q, l > k PROVE q[l][1] # a
    <2>1. l \in Nat /\ ~(l <= k)
      BY <1>1, <1>4, <1>5
    <2>2. l \notin own
      BY <1>3, <2>1
    <2> QED
      BY <2>2
  <1> QED
    BY <1>1, <1>4, <1>5

Latest(q, k, a) == q[k][1] = a /\ \A l \in DOMAIN q : l > k => q[l][1] # a

LEMMA ViewLatest ==
  ASSUME NEW m, NEW q \in Entries, NEW a, NEW k \in DOMAIN q, Latest(q, k, a)
  PROVE  View(m, q, a) = q[k][2]
  BY ViewLast DEF Latest

LEMMA SeenType ==
  ASSUME NEW m \in Memory, NEW q \in Entries
  PROVE  Seen(m, q) \in Memory
  <1>1. ASSUME NEW a \in DOMAIN m PROVE View(m, q, a) \in Value
    <2>1. CASE \A k \in DOMAIN q : q[k][1] # a
      <3>1. View(m, q, a) = m[a]
        BY <2>1, ViewNone
      <3> QED
        BY <3>1 DEF Memory
    <2>2. CASE ~\A k \in DOMAIN q : q[k][1] # a
      <3>1. PICK k \in DOMAIN q : q[k][1] = a /\ \A l \in DOMAIN q : l > k => q[l][1] # a
        BY <2>2, LastEntry
      <3>2. View(m, q, a) = q[k][2]
        BY <3>1, ViewLast
      <3> QED
        BY <3>2, EntryIs
    <2> QED
      BY <2>1, <2>2
  <1> QED
    BY <1>1 DEF Seen, Memory

LEMMA SeenEmpty ==
  ASSUME NEW m \in Memory
  PROVE  Seen(m, << >>) = m
  <1>1. << >> \in Entries /\ DOMAIN << >> = {}
    BY DEF Entries
  <1>2. \A a : View(m, << >>, a) = m[a]
    BY <1>1, ViewNone
  <1> QED
    BY <1>2 DEF Seen, Memory

(* No store to the address is on its way.                                  *)
LEMMA SeenOutside ==
  ASSUME NEW m \in Memory, NEW q \in Entries, NEW a \in 0 .. MemEnd - 1, \A k \in DOMAIN q : q[k][1] # a
  PROVE  Seen(m, q)[a] = m[a]
  <1>1. View(m, q, a) = m[a]
    BY ViewNone
  <1> QED
    BY <1>1 DEF Seen, Memory

LEMMA SeenAppend ==
  ASSUME NEW m \in Memory, NEW q \in Entries, NEW a \in 0 .. MemEnd - 1, NEW x \in Value
  PROVE  /\ Append(q, <<a, x>>) \in Entries
         /\ Seen(m, Append(q, <<a, x>>)) = [Seen(m, q) EXCEPT ![a] = x]
  <1>1. Append(q, <<a, x>>) \in Entries
    BY DEF Entries
  <1>2. PICK p \in Entries : p = Append(q, <<a, x>>)
    BY <1>1
  <1>3. PICK len \in Nat : len = Len(q) /\ DOMAIN q = 1 .. len /\ DOMAIN p = 1 .. len + 1
    BY <1>2 DEF Entries
  <1>4. p[len + 1] = <<a, x>> /\ \A k \in 1 .. len : p[k] = q[k]
    BY <1>2, <1>3 DEF Entries
  <1>5. View(m, p, a) = x
    <2>1. len + 1 \in DOMAIN p /\ p[len + 1][1] = a /\ p[len + 1][2] = x /\ \A l \in DOMAIN p : ~(l > len + 1)
      BY <1>3, <1>4
    <2> QED
      BY <2>1, ViewLast
  <1>6. ASSUME NEW d \in DOMAIN m, d # a PROVE View(m, p, d) = View(m, q, d)
    <2>1. CASE \A k \in DOMAIN q : q[k][1] # d
      <3>1. \A k \in DOMAIN p : p[k][1] # d
        BY <1>3, <1>4, <1>6, <2>1
      <3>2. View(m, p, d) = m[d] /\ View(m, q, d) = m[d]
        BY <2>1, <3>1, ViewNone
      <3> QED
        BY <3>2
    <2>2. ASSUME NEW k \in DOMAIN q, q[k][1] = d, \A l \in DOMAIN q : l > k => q[l][1] # d
          PROVE  View(m, p, d) = View(m, q, d)
      <3>1. k \in DOMAIN p /\ p[k] = q[k] /\ \A l \in DOMAIN p : l > k => p[l][1] # d
        BY <1>3, <1>4, <1>6, <2>2
      <3>2. View(m, q, d) = q[k][2]
        BY <2>2, ViewLast
      <3>3. p[k][1] = d
        BY <2>2, <3>1
      <3>4. View(m, p, d) = p[k][2]
        BY <3>1, <3>3, ViewLast
      <3> QED
        BY <3>1, <3>2, <3>4
    <2> QED
      BY <2>1, <2>2, LastEntry
  <1>7. a \in DOMAIN m
    BY DEF Memory
  <1> QED
    BY <1>1, <1>2, <1>5, <1>6, <1>7 DEF Seen

(* The first store arrives.                                                *)
LEMMA SeenDrain ==
  ASSUME NEW m \in Memory, NEW q \in Entries, Len(q) > 0
  PROVE  /\ Tail(q) \in Entries /\ Len(Tail(q)) = Len(q) - 1
         /\ \A k \in DOMAIN Tail(q) : k + 1 \in DOMAIN q /\ Tail(q)[k] = q[k + 1]
         /\ [m EXCEPT ![q[1][1]] = q[1][2]] \in Memory
         /\ Seen([m EXCEPT ![q[1][1]] = q[1][2]], Tail(q)) = Seen(m, q)
  <1>1. PICK len \in Nat \ {0} : len = Len(q) /\ DOMAIN q = 1 .. len
    BY DEF Entries
  <1>2. Tail(q) \in Entries
    BY DEF Entries
  <1>3. PICK p \in Entries : p = Tail(q) /\ DOMAIN p = 1 .. len - 1 /\ Len(p) = len - 1
    <2>1. Len(Tail(q)) = len - 1 /\ DOMAIN Tail(q) = 1 .. len - 1
      BY <1>1 DEF Entries
    <2> QED
      BY <1>2, <2>1
  <1>4. \A k \in 1 .. len - 1 : p[k] = q[k + 1]
    BY <1>1, <1>3 DEF Entries
  <1>5. PICK a \in 0 .. MemEnd - 1, x \in Value : q[1][1] = a /\ q[1][2] = x
    <2>1. 1 \in DOMAIN q
      BY <1>1
    <2> QED
      BY <2>1, EntryIs
  <1>6. PICK w : w = [m EXCEPT ![a] = x]
    OBVIOUS
  <1>7. w \in Memory /\ DOMAIN w = DOMAIN m /\ w[a] = x /\ \A d \in DOMAIN m : d # a => w[d] = m[d]
    BY <1>5, <1>6 DEF Memory
  <1>8. ASSUME NEW d \in DOMAIN m PROVE View(w, p, d) = View(m, q, d)
    <2>1. CASE \A k \in DOMAIN q : q[k][1] # d
      <3>1. \A k \in DOMAIN p : p[k][1] # d
        BY <1>1, <1>3, <1>4, <2>1
      <3>2. d # a
        BY <1>1, <1>5, <2>1
      <3>3. View(w, p, d) = w[d] /\ View(m, q, d) = m[d]
        BY <2>1, <3>1, ViewNone
      <3> QED
        BY <1>7, <3>2, <3>3
    <2>2. ASSUME NEW k \in DOMAIN q, q[k][1] = d, \A l \in DOMAIN q : l > k => q[l][1] # d
          PROVE  View(w, p, d) = View(m, q, d)
      <3>0. Latest(q, k, d)
        BY <2>2 DEF Latest
      <3>1. View(m, q, d) = q[k][2]
        BY <2>2, <3>0, ViewLatest
      <3>2. CASE k = 1
        <4>1. \A l \in DOMAIN p : p[l][1] # d
          BY <1>1, <1>3, <1>4, <2>2, <3>2
        <4>2. View(w, p, d) = w[d]
          BY <4>1, ViewNone
        <4> QED
          BY <1>5, <1>7, <2>2, <3>1, <3>2, <4>2
      <3>3. CASE k # 1
        <4>1. PICK e \in DOMAIN p : k = e + 1
          <5>1. k - 1 \in DOMAIN p /\ k = (k - 1) + 1
            BY <1>1, <1>3, <3>3
          <5> QED
            BY <5>1
        <4>2. p[e] = q[k] /\ \A l \in DOMAIN p : l > e => p[l][1] # d
          BY <1>1, <1>3, <1>4, <2>2, <4>1
        <4>3. View(w, p, d) = p[e][2]
          BY <2>2, <4>2, ViewLast
        <4> QED
          BY <3>1, <4>2, <4>3
      <3> QED
        BY <3>2, <3>3
    <2> QED
      BY <2>1, <2>2, LastEntry
  <1>9. Seen(w, p) = Seen(m, q)
    BY <1>7, <1>8 DEF Seen
  <1> QED
    BY <1>1, <1>3, <1>4, <1>5, <1>6, <1>7, <1>9

(* Another hart writes, where no store is on its way.                      *)
LEMMA SeenWrite ==
  ASSUME NEW m \in Memory, NEW q \in Entries, NEW a \in 0 .. MemEnd - 1, NEW x \in Value,
         \A k \in DOMAIN q : q[k][1] # a
  PROVE  /\ [m EXCEPT ![a] = x] \in Memory
         /\ Seen([m EXCEPT ![a] = x], q) = [Seen(m, q) EXCEPT ![a] = x]
  <1>1. PICK w : w = [m EXCEPT ![a] = x]
    OBVIOUS
  <1>2. w \in Memory /\ DOMAIN w = DOMAIN m /\ a \in DOMAIN m /\ w[a] = x /\ \A d \in DOMAIN m : d # a => w[d] = m[d]
    BY <1>1 DEF Memory
  <1>3. View(w, q, a) = x
    BY <1>2, ViewNone
  <1>4. ASSUME NEW d \in DOMAIN m, d # a PROVE View(w, q, d) = View(m, q, d)
    <2>1. CASE \A k \in DOMAIN q : q[k][1] # d
      <3>1. View(w, q, d) = w[d] /\ View(m, q, d) = m[d]
        BY <2>1, ViewNone
      <3> QED
        BY <1>2, <1>4, <3>1
    <2>2. ASSUME NEW k \in DOMAIN q, q[k][1] = d, \A l \in DOMAIN q : l > k => q[l][1] # d
          PROVE  View(w, q, d) = View(m, q, d)
      <3>1. View(w, q, d) = q[k][2] /\ View(m, q, d) = q[k][2]
        BY <2>2, ViewLast
      <3> QED
        BY <3>1
    <2> QED
      BY <2>1, <2>2, LastEntry
  <1> QED
    BY <1>1, <1>2, <1>3, <1>4 DEF Seen
-----------------------------------------------------------------------------
(* Which words the boot hart leaves alone.                                 *)
Polled == {0, 1, 2, 3, Lottery, LinkStart}
Spares(c, a) ==
  /\ \A o \in Polled : a # c.load + o
  /\ Moves(c) => a # c.load + Status
  /\ \A o \in Words \cup {Status} : a # Run(c) + o

LEMMA FrontApart ==
  ASSUME NEW c \in Builds, Clear(c), NEW a \in FrontArea(c)
  PROVE  /\ a \in 0 .. MemEnd - 1 /\ \A o \in Polled \cup {Status} : a # c.load + o
         /\ ~Moves(c) => a = c.load + LoadStart \/ (c.pic /\ a = c.load + Ptr)
         /\ c.src # 0 => \A l \in 0 .. FdtLen - 1 : a # c.src + l
  <1>1. PICK end \in Nat :
           /\ end = RuntimeEnd(c) /\ FwLen <= end
           /\ Run(c) + end <= MemEnd /\ c.load + FwLen <= MemEnd
           /\ c.src # 0 => Away(c.src, FdtLen, Run(c), end) /\ Away(c.src, FdtLen, c.load, ImageLen)
    BY Layout
  <1>2. PICK ld \in Nat, ln \in Nat, sr \in Nat : ld = c.load /\ ln = c.link /\ sr = c.src
    BY BuildIs
  <1>3. CASE ~Moves(c)
    <2>1. a = ld + 6 \/ (c.pic /\ a = ld + 9)
      BY <1>2, <1>3 DEF FrontArea
    <2>2. sr # 0 => Away(sr, FdtLen, ld, ImageLen)
      BY <1>1, <1>2
    <2> QED
      BY <1>1, <1>2, <1>3, <2>1, <2>2, Lengths DEF Away, Polled
  <1>4. CASE Moves(c)
    <2>1. Run(c) = ln /\ ~c.pic
      BY <1>2, <1>4 DEF Moves, Run
    <2>2. a = ld + 6 \/ a \in ln .. ln + FwLen - 1
      BY <1>2, <1>4, <2>1 DEF FrontArea
    <2>3. ln >= ld + 8 \/ ln + FwLen <= ld
      BY <1>2, <1>4 DEF Clear
    <2>4. sr # 0 => Away(sr, FdtLen, ln, end) /\ Away(sr, FdtLen, ld, ImageLen)
      BY <1>1, <1>2, <2>1
    <2>5. ln + end <= MemEnd
      BY <1>1, <2>1
    <2> QED
      BY <1>1, <1>2, <1>4, <2>2, <2>3, <2>4, <2>5, Lengths DEF Away, Polled
  <1> QED
    BY <1>3, <1>4

LEMMA BackApart ==
  ASSUME NEW c \in Builds, Clear(c), NEW a \in BackArea(c)
  PROVE  /\ a \in 0 .. MemEnd - 1 /\ Spares(c, a)
         /\ \A t \in {c.src, Arg(c)} : t # 0 => \A l \in 0 .. FdtLen - 1 : a # t + l
  <1>1. PICK end \in Nat :
           /\ end = RuntimeEnd(c) /\ FwLen <= end
           /\ Run(c) + end <= MemEnd /\ c.load + FwLen <= MemEnd
           /\ Away(c.load, FwLen, Run(c), FwLen) => Away(c.load, ImageLen, Run(c) + FwLen, end - FwLen)
           /\ \A t \in {Arg(c), c.src} : t # 0 => Away(t, FdtLen, Run(c), end)
    BY Layout
  <1>2. PICK ld \in Nat, r \in Nat : ld = c.load /\ r = Run(c)
    BY BuildIs
  <1>3. r <= a /\ a < r + end /\ (a = r + 8 \/ r + ImageLen <= a) /\ a \in Nat
    BY <1>1, <1>2, Lengths DEF BackArea
  <1>4. Moves(c) => r >= ld + 8 \/ r + FwLen <= ld
    BY <1>2, BuildIs DEF Clear
  <1>5. ~Moves(c) => r = ld
    BY <1>2, BuildIs
  <1>6. Away(ld, FwLen, r, FwLen) => Away(ld, ImageLen, r + FwLen, end - FwLen)
    BY <1>1, <1>2
  <1>7. r + FwLen <= ld => r + end <= ld
    BY <1>2, <1>6, <1>1, Lengths DEF Away
  <1>8. \A o \in Polled : a # ld + o
    BY <1>2, <1>3, <1>4, <1>5, <1>7, Lengths DEF Polled
  <1>9. Moves(c) => a # ld + 5
    BY <1>2, <1>3, <1>4, <1>7, Lengths
  <1>10. \A o \in Words \cup {Status} : a # r + o
    BY <1>2, <1>3, Lengths DEF Words
  <1>11. ASSUME NEW t \in {c.src, Arg(c)}, t # 0, NEW l \in 0 .. FdtLen - 1 PROVE a # t + l
    <2>1. Away(t, FdtLen, r, end) /\ t \in Nat
      BY <1>1, <1>2, <1>11, BuildIs
    <2> QED
      BY <1>2, <1>3, <2>1, Lengths DEF Away
  <1>12. a \in 0 .. MemEnd - 1
    BY <1>1, <1>2, <1>3, Lengths
  <1> QED
    BY <1>2, <1>8, <1>9, <1>10, <1>11, <1>12 DEF Spares

LEMMA TreeApart ==
  ASSUME NEW c \in Builds, NEW t \in {c.src, Arg(c)}, t # 0, NEW l \in 0 .. FdtLen - 1, NEW a, a = t + l
  PROVE  /\ a \in 0 .. MemEnd - 1 /\ Spares(c, a) /\ a # c.load + Status
         /\ a # c.load + LoadStart /\ a # c.load + Ptr
         /\ \A d \in Run(c) .. Run(c) + RuntimeEnd(c) - 1 : a # d
  <1>1. PICK end \in Nat :
           /\ end = RuntimeEnd(c) /\ FwLen <= end
           /\ \A s \in {Arg(c), c.src} : s # 0 =>
                 Away(s, FdtLen, Run(c), end) /\ Away(s, FdtLen, c.load, ImageLen) /\ s + FdtLen <= MemEnd
    BY Layout
  <1>2. PICK ld \in Nat, r \in Nat : ld = c.load /\ r = Run(c)
    BY BuildIs
  <1>3. Away(t, FdtLen, r, end) /\ Away(t, FdtLen, ld, ImageLen) /\ t + FdtLen <= MemEnd /\ t \in Nat
    BY <1>1, <1>2, BuildIs
  <1>4. a \in 0 .. MemEnd - 1
    BY <1>3, Lengths
  <1>5. \A o \in 0 .. 10 : a # ld + o
    BY <1>2, <1>3, Lengths DEF Away
  <1>6. \A d \in r .. r + end - 1 : a # d
    BY <1>1, <1>2, <1>3, Lengths DEF Away
  <1>7. \A o \in 0 .. ImageLen - 1 : r + o \in r .. r + end - 1
    BY <1>1, <1>2, Lengths
  <1>8. \A o \in Words \cup {Status} : a # r + o
    BY <1>6, <1>7, Lengths DEF Words
  <1>9. Spares(c, a)
    BY <1>2, <1>5, <1>8 DEF Spares, Polled
  <1> QED
    BY <1>1, <1>2, <1>4, <1>5, <1>6, <1>9

LEMMA TreeSpares ==
  ASSUME NEW c \in Builds, NEW a \in TreeArea(c)
  PROVE  a \in 0 .. MemEnd - 1 /\ Spares(c, a)
  <1>1. Arg(c) # 0 /\ a \in Arg(c) .. Arg(c) + FdtLen - 1
    BY DEF TreeArea
  <1>2. a - Arg(c) \in 0 .. FdtLen - 1 /\ a = Arg(c) + (a - Arg(c))
    BY <1>1, BuildIs, Lengths
  <1> QED
    BY <1>1, <1>2, TreeApart

(* The relocation is refused unless the copies are apart as needed.        *)
LEMMA NoClash ==
  ASSUME NEW c \in Builds, ~c.pic, c.link # c.load,
         LET lo == IF c.link < c.load THEN c.load ELSE c.link
             hi == IF c.link < c.load THEN c.link + FwLen ELSE c.load + FwLen
         IN  ~(/\ lo < hi
               /\ \/ \E o \in {Lottery, Status, RelocCode, BootCode} : InRange(lo, hi, c.load + o)
                  \/ InRange(c.load + RelocCode, c.load + BootCode, lo))
  PROVE  Clear(c)
  <1>1. PICK ld \in Nat, ln \in Nat : ld = c.load /\ ln = c.link
    BY BuildIs
  <1>2. (ld - ln) % 4 = 0
    BY <1>1, Layout
  <1>3. CASE ln < ld
    <2>1. ~(ld < ln + FwLen /\ \E o \in {Lottery, Status, RelocCode, BootCode} : InRange(ld, ln + FwLen, ld + o))
      BY <1>1, <1>3
    <2>2. ~(ld + 1 < ln + FwLen)
      BY <1>1, <2>1, Lengths DEF InRange
    <2>3. ln + FwLen <= ld
      BY <1>1, <1>2, <1>3, <2>2, Lengths
    <2> QED
      BY <1>1, <2>3 DEF Clear
  <1>4. CASE ln > ld
    <2>1. ~(ln < ld + FwLen /\ (\/ \E o \in {Lottery, Status, RelocCode, BootCode} : InRange(ln, ld + FwLen, ld + o)
                                \/ InRange(ld + RelocCode, ld + BootCode, ln)))
      BY <1>1, <1>4
    <2>2. ln >= ld + 6
      BY <1>1, <1>4, <2>1, Lengths DEF InRange
    <2>3. ln >= ld + 8
      BY <1>1, <1>2, <2>2
    <2> QED
      BY <1>1, <2>3 DEF Clear
  <1> QED
    BY <1>1, <1>3, <1>4
-----------------------------------------------------------------------------
(* The scratch spaces.                                                     *)
LEMMA TimesLess ==
  ASSUME NEW s \in Nat, NEW k \in Int, NEW l \in Int, k < l
  PROVE  s * k \in Int /\ s * l \in Int /\ s * k + s <= s * l
  <1>1. PICK d \in Nat : l = k + 1 + d
    <2>1. l - k - 1 \in Nat /\ l = k + 1 + (l - k - 1)
      OBVIOUS
    <2> QED
      BY <2>1
  <1>2. s * l = s * k + s + s * d /\ s * d \in Nat /\ s * k \in Int
    BY <1>1
  <1> QED
    BY <1>2

LEMMA SpaceIs ==
  ASSUME NEW c \in Builds, NEW k \in Int
  PROVE  /\ Space(c, k) \in Int
         /\ Space(c, k) = Run(c) + FwLen + (c.count - k) * StackSize - ScratchSize
         /\ k \in 0 .. c.count - 1 =>
              /\ Run(c) + FwLen <= Space(c, k) - (StackSize - ScratchSize)
              /\ Space(c, k) + ScratchSize <= Run(c) + RuntimeEnd(c)
  <1>1. PICK cnt \in Nat, s \in Nat, r \in Nat :
           cnt = c.count /\ s = StackSize /\ r = Run(c)
    BY BuildIs, Lengths
  <1>2. PICK cs \in Int, sk \in Int : cs = cnt * s /\ sk = s * k
    BY <1>1
  <1>3. (cnt - k) * s = cs - sk
    BY <1>1, <1>2
  <1>4. Space(c, k) = r + FwLen + cs - sk - ScratchSize
    BY <1>1, <1>2 DEF Space
  <1>5. RuntimeEnd(c) = FwLen + cs
    BY <1>1, <1>2 DEF RuntimeEnd
  <1>6. ASSUME k \in 0 .. cnt - 1 PROVE sk \in Nat /\ sk + s <= cs
    <2>1. sk \in Nat
      BY <1>1, <1>2, <1>6
    <2>2. s * cnt = cs
      BY <1>1, <1>2
    <2>3. s * k + s <= s * cnt
      BY <1>1, <1>6, TimesLess
    <2> QED
      BY <1>2, <2>1, <2>2, <2>3
  <1> QED
    BY <1>1, <1>2, <1>3, <1>4, <1>5, <1>6, Lengths

LEMMA SpaceApart ==
  ASSUME NEW c \in Builds, NEW k \in Int, NEW l \in Int, k # l
  PROVE  Space(c, k) + StackSize <= Space(c, l) \/ Space(c, l) + StackSize <= Space(c, k)
  <1>1. PICK cs \in Int, r \in Nat : cs = c.count * StackSize /\ r = Run(c)
    BY BuildIs, Lengths
  <1>2. PICK sk \in Int, sl \in Int : sk = StackSize * k /\ sl = StackSize * l
    BY Lengths
  <1>3. sk + StackSize <= sl \/ sl + StackSize <= sk
    <2>1. StackSize \in Nat
      BY Lengths
    <2>2. CASE k < l
      BY <1>2, <2>1, <2>2, TimesLess
    <2>3. CASE l < k
      BY <1>2, <2>1, <2>3, TimesLess
    <2> QED
      BY <2>2, <2>3
  <1> QED
    BY <1>1, <1>2, <1>3, Lengths DEF Space

LEMMA SpaceBack ==
  ASSUME NEW c \in Builds, NEW k \in 0 .. c.count - 1, NEW j \in 0 .. ScratchSize - 1
  PROVE  /\ Space(c, k) + j \in BackArea(c) /\ Space(c, k) + j \in Run(c) .. Run(c) + RuntimeEnd(c) - 1
         /\ Space(c, k) \in BackArea(c)
         /\ Space(c, k) + j \in Run(c) + FwLen .. MemEnd - 1
  <1>1. k \in Int /\ c.count \in Nat
    BY BuildIs
  <1>2. PICK x \in Int : x = Space(c, k)
    BY <1>1, SpaceIs
  <1>3. PICK r \in Nat, end \in Nat : r = Run(c) /\ end = RuntimeEnd(c) /\ r + end <= MemEnd
    BY Layout, BuildIs
  <1>4. r + FwLen <= x - (StackSize - ScratchSize) /\ x + ScratchSize <= r + end
    BY <1>1, <1>2, <1>3, SpaceIs
  <1> QED
    BY <1>2, <1>3, <1>4, Lengths DEF BackArea
-----------------------------------------------------------------------------
(* One word is written.                                                    *)
Wrote(v, w, a, x) ==
  /\ v \in Memory /\ w \in Memory /\ a \in 0 .. MemEnd - 1 /\ w[a] = x
  /\ \A d \in 0 .. MemEnd - 1 : d # a => w[d] = v[d]

LEMMA ExceptWrote ==
  ASSUME NEW v \in Memory, NEW a \in 0 .. MemEnd - 1, NEW x \in Value
  PROVE  Wrote(v, [v EXCEPT ![a] = x], a, x)
  BY DEF Wrote, Memory

LEMMA StoreWrote ==
  ASSUME NEW m \in Memory, NEW q \in Entries, NEW a \in 0 .. MemEnd - 1, NEW x \in Value
  PROVE  Append(q, <<a, x>>) \in Entries /\ Wrote(Seen(m, q), Seen(m, Append(q, <<a, x>>)), a, x)
  <1>1. Seen(m, q) \in Memory
    BY SeenType
  <1>2. Wrote(Seen(m, q), [Seen(m, q) EXCEPT ![a] = x], a, x)
    BY <1>1, ExceptWrote
  <1> QED
    BY <1>2, SeenAppend

LEMMA WordsIn ==
  ASSUME NEW c \in Builds
  PROVE  \A o \in 0 .. ImageLen - 1 : c.load + o \in 0 .. MemEnd - 1 /\ Run(c) + o \in 0 .. MemEnd - 1
  <1>1. PICK end \in Nat : FwLen <= end /\ Run(c) + end <= MemEnd /\ c.load + FwLen <= MemEnd
    BY Layout
  <1>2. PICK ld \in Nat, r \in Nat : ld = c.load /\ r = Run(c)
    BY BuildIs
  <1>3. \A o \in 0 .. ImageLen - 1 : ld + o \in 0 .. MemEnd - 1 /\ r + o \in 0 .. MemEnd - 1
    BY <1>1, <1>2, Lengths
  <1> QED
    BY <1>2, <1>3

LEMMA FinalIs ==
  ASSUME NEW c \in Builds
  PROVE  /\ Final(c, LoadStart) = Num(c.load) /\ Final(c, LinkStart) = Num(c.link)
         /\ Final(c, Ptr) = Num(Run(c) + 10) /\ Final(c, Status) = Num(0)
         /\ \A o \in 0 .. 3 : Final(c, o) = Code(o)
         /\ {0, 1, 2, 3, LoadStart, LinkStart, Ptr} \subseteq Words
         /\ {0, 1, 2, 3, Lottery, Status, LoadStart, LinkStart, Info, Ptr} \subseteq 0 .. ImageLen - 1
         /\ Words \subseteq 0 .. ImageLen - 1
  BY Lengths DEF Final, Words

(* What a write elsewhere keeps.                                           *)
LEMMA SteadyKept ==
  ASSUME NEW c \in Builds, NEW v, NEW w, NEW a, NEW x, Wrote(v, w, a, x), Spares(c, a), Steady(c, v)
  PROVE  Steady(c, w) /\ w[Run(c) + Status] = v[Run(c) + Status]
  <1>1. Moves(c) => w[c.load + Status] = v[c.load + Status]
    BY WordsIn, FinalIs DEF Wrote, Spares
  <1>2. w[Run(c) + Status] = v[Run(c) + Status]
    BY WordsIn, FinalIs DEF Wrote, Spares
  <1>3. \A o \in Words : w[Run(c) + o] = v[Run(c) + o]
    BY WordsIn, FinalIs DEF Wrote, Spares
  <1> QED
    BY <1>1, <1>2, <1>3 DEF Steady, ImageAt

LEMMA SrcIn ==
  ASSUME NEW c \in Builds, NEW t \in {c.src, Arg(c)}, t # 0, NEW l \in 0 .. FdtLen - 1
  PROVE  t + l \in 0 .. MemEnd - 1
  BY TreeApart

LEMMA SrcKept ==
  ASSUME NEW c \in Builds, NEW v, NEW w, NEW a, NEW x, Wrote(v, w, a, x), SrcAt(c, v),
         c.src # 0 => \A l \in 0 .. FdtLen - 1 : a # c.src + l
  PROVE  SrcAt(c, w)
  BY SrcIn DEF Wrote, SrcAt

LEMMA HeadersKept ==
  ASSUME NEW c \in Builds, NEW v, NEW w, NEW a, NEW x, Wrote(v, w, a, x), NEW k \in 0 .. c.count,
         HeadersAt(c, v, k), \A l \in 0 .. k - 1 : a # Space(c, l)
  PROVE  HeadersAt(c, w, k)
  <1>1. ASSUME NEW l \in 0 .. k - 1 PROVE w[Space(c, l)] = Header(Run(c), Arg(c))
    <2>1. l \in 0 .. c.count - 1 /\ 0 \in 0 .. ScratchSize - 1
      BY BuildIs, Lengths
    <2>2. Space(c, l) \in Int /\ Space(c, l) + 0 \in Run(c) + FwLen .. MemEnd - 1
      BY <2>1, SpaceBack, SpaceIs
    <2>3. PICK r \in Nat : r = Run(c)
      BY BuildIs
    <2>4. PICK s \in Int : s = Space(c, l)
      BY <2>2
    <2>5. FwLen \in Nat /\ MemEnd \in Nat
      BY Lengths
    <2>6. s + 0 \in r + FwLen .. MemEnd - 1
      BY <2>2, <2>3, <2>4
    <2>7. s \in 0 .. MemEnd - 1
      BY <2>5, <2>6
    <2> QED
      BY <2>4, <2>7 DEF Wrote, HeadersAt
  <1> QED
    BY <1>1 DEF HeadersAt
-----------------------------------------------------------------------------
(* From the lottery to the end of the copy.                                *)
LEMMA StageSave ==
  ASSUME NEW c \in Builds, NEW v, NEW w, NEW k, StageInv(c, "save", v, k),
         Wrote(v, w, c.load + LoadStart, Num(c.load))
  PROVE  StageInv(c, IF c.pic THEN "pic" ELSE "relocate", w, k)
  <1>1. Original(c, v) /\ SrcAt(c, v)
    BY DEF StageInv, Fresh
  <1>2. SrcAt(c, w)
    <2>1. c.src # 0 => \A l \in 0 .. FdtLen - 1 : c.load + LoadStart # c.src + l
      BY TreeApart
    <2> QED
      BY <1>1, <2>1, SrcKept
  <1>3. \A o \in 0 .. ImageLen - 1 : o # LoadStart => w[c.load + o] = v[c.load + o]
    <2>1. PICK ld \in Nat : ld = c.load
      BY BuildIs
    <2>2. \A o \in 0 .. ImageLen - 1 : o # LoadStart => ld + o # ld + LoadStart
      BY <2>1
    <2> QED
      BY <2>1, <2>2, WordsIn DEF Wrote
  <1>4. Original(c, w)
    BY <1>1, <1>3, FinalIs DEF Original
  <1>5. w[c.load + LoadStart] = Num(c.load)
    BY DEF Wrote
  <1> QED
    BY <1>2, <1>4, <1>5, BuildIs DEF StageInv, Fresh

LEMMA StagePic ==
  ASSUME NEW c \in Builds, NEW v, NEW w, NEW k, StageInv(c, "pic", v, k),
         Wrote(v, w, c.load + Ptr, Num(c.load + 10)), NEW d
  PROVE  StageInv(c, "status", w, d)
  <1>1. Original(c, v) /\ SrcAt(c, v) /\ v[c.load + LoadStart] = Num(c.load) /\ c.pic
    BY DEF StageInv, Fresh
  <1>2. SrcAt(c, w)
    <2>1. c.src # 0 => \A l \in 0 .. FdtLen - 1 : c.load + Ptr # c.src + l
      BY TreeApart
    <2> QED
      BY <1>1, <2>1, SrcKept
  <1>3. \A o \in 0 .. ImageLen - 1 : o # Ptr => w[c.load + o] = v[c.load + o]
    <2>1. PICK ld \in Nat : ld = c.load
      BY BuildIs
    <2>2. \A o \in 0 .. ImageLen - 1 : o # Ptr => ld + o # ld + Ptr
      BY <2>1
    <2> QED
      BY <2>1, <2>2, WordsIn DEF Wrote
  <1>4. Run(c) = c.load /\ Clear(c)
    BY <1>1 DEF Run, Clear, Moves
  <1>5. w[c.load + Ptr] = Num(c.load + 10)
    BY DEF Wrote
  <1>6. ImageAt(c, w)
    <2>1. ASSUME NEW o \in Words PROVE w[c.load + o] = Final(c, o)
      <3>1. CASE o = LoadStart
        BY <1>1, <1>3, <3>1, FinalIs
      <3>2. CASE o = Ptr
        BY <1>4, <1>5, <3>2, FinalIs
      <3>3. CASE o # LoadStart /\ o # Ptr
        BY <1>1, <1>3, <3>3, FinalIs DEF Original
      <3> QED
        BY <3>1, <3>2, <3>3
    <2> QED
      BY <1>4, <2>1 DEF ImageAt
  <1>7. w[c.load + Status] = Num(0)
    BY <1>1, <1>3, FinalIs DEF Original
  <1> QED
    BY <1>2, <1>4, <1>6, <1>7 DEF StageInv

LEMMA StageRelocate ==
  ASSUME NEW c \in Builds, NEW v, NEW k, StageInv(c, "relocate", v, k), NEW d
  PROVE  /\ StageInv(c, "stuck", v, d)
         /\ c.link = c.load => StageInv(c, "status", v, d)
         /\ c.link # c.load /\ Clear(c) /\ d = (IF c.link < c.load THEN 0 ELSE FwLen - 1) =>
              StageInv(c, "copy", v, d)
  <1>1. Original(c, v) /\ SrcAt(c, v) /\ v[c.load + LoadStart] = Num(c.load) /\ ~c.pic
    BY DEF StageInv, Fresh
  <1>2. \A o \in Words \cup {Status} : v[c.load + o] = Final(c, o)
    <2>1. ASSUME NEW o \in Words \cup {Status} PROVE v[c.load + o] = Final(c, o)
      <3>1. CASE o \in {LoadStart, Ptr, Status}
        BY <1>1, <3>1, FinalIs DEF Original
      <3>2. CASE o \notin {LoadStart, Ptr, Status}
        BY <1>1, <3>2 DEF Original
      <3> QED
        BY <3>1, <3>2
    <2> QED
      BY <2>1
  <1>3. ASSUME c.link = c.load PROVE StageInv(c, "status", v, d)
    <2>1. Run(c) = c.load /\ Clear(c)
      BY <1>1, <1>3 DEF Run, Clear, Moves
    <2> QED
      BY <1>1, <1>2, <2>1, FinalIs DEF StageInv, ImageAt
  <1>4. ASSUME c.link # c.load, Clear(c), d = IF c.link < c.load THEN 0 ELSE FwLen - 1
        PROVE  StageInv(c, "copy", v, d)
    <2>1. Moves(c) /\ d \in 0 .. FwLen - 1 /\ v[c.load + Status] = Num(0)
      BY <1>1, <1>2, <1>4, FinalIs, Lengths DEF Moves
    <2>2. Copied(c, d) = {}
      BY <1>4, Lengths DEF Copied
    <2>3. Copying(c, v, d)
      BY <1>2, <2>1, <2>2 DEF Copying
    <2> QED
      BY <1>1, <1>4, <2>1, <2>3 DEF StageInv
  <1> QED
    BY <1>1, <1>3, <1>4 DEF StageInv, Fresh

LEMMA StageCopy ==
  ASSUME NEW c \in Builds, NEW v, NEW w, NEW k, StageInv(c, "copy", v, k),
         Wrote(v, w, c.link + k, v[c.load + k])
  PROVE  /\ k # (IF c.link < c.load THEN FwLen - 1 ELSE 0) =>
              StageInv(c, "copy", w, IF c.link < c.load THEN k + 1 ELSE k - 1)
         /\ k = (IF c.link < c.load THEN FwLen - 1 ELSE 0) => \A d : StageInv(c, "status", w, d)
  <1>1. Clear(c) /\ Copying(c, v, k) /\ v[c.load + Status] = Num(0) /\ SrcAt(c, v)
    BY DEF StageInv
  <1>2. PICK ld \in Nat, ln \in Nat : ld = c.load /\ ln = c.link /\ ld # ln
    BY <1>1, BuildIs DEF Copying, Moves
  <1>3. k \in 0 .. FwLen - 1 /\ Moves(c) /\ Run(c) = c.link
    BY <1>1 DEF Copying, Moves, Run
  <1>4. c.link + k \in FrontArea(c)
    BY <1>2, <1>3, Lengths DEF FrontArea
  <1>5. SrcAt(c, w)
    <2>1. c.src # 0 => \A l \in 0 .. FdtLen - 1 : c.link + k # c.src + l
      BY <1>1, <1>4, FrontApart
    <2> QED
      BY <1>1, <2>1, SrcKept
  <1>6. w[c.load + Status] = Num(0)
    <2>1. c.link + k # c.load + Status
      BY <1>1, <1>4, FrontApart
    <2> QED
      BY <1>1, <2>1, WordsIn, FinalIs DEF Wrote
  <1>7. ASSUME NEW o \in Words \cup {Status}
        PROVE  /\ o \in Copied(c, k) \cup {k} => w[c.link + o] = Final(c, o)
               /\ o \notin Copied(c, k) \cup {k} => w[c.load + o] = Final(c, o)
    <2>1. o \in 0 .. ImageLen - 1 /\ c.load + o \in 0 .. MemEnd - 1 /\ c.link + o \in 0 .. MemEnd - 1
      BY <1>3, WordsIn, FinalIs
    <2>2. CASE o = k
      <3>1. o \notin Copied(c, k)
        BY <1>2, <1>3, <2>2 DEF Copied
      <3>2. v[c.load + o] = Final(c, o)
        BY <1>1, <3>1 DEF Copying
      <3> QED
        BY <2>2, <3>1, <3>2 DEF Wrote
    <2>3. CASE o # k /\ o \in Copied(c, k)
      <3>1. v[c.link + o] = Final(c, o)
        BY <1>1, <2>3 DEF Copying
      <3>2. c.link + o # c.link + k
        BY <1>2, <1>3, <2>1, <2>3
      <3> QED
        BY <2>1, <2>3, <3>1, <3>2 DEF Wrote
    <2>4. CASE o # k /\ o \notin Copied(c, k)
      <3>1. v[c.load + o] = Final(c, o)
        BY <1>1, <2>4 DEF Copying
      <3>2. c.load + o # c.link + k
        BY <1>2, <1>3, <2>1, <2>4, Lengths DEF Copied
      <3> QED
        BY <2>1, <2>4, <3>1, <3>2 DEF Wrote
    <2> QED
      BY <2>2, <2>3, <2>4
  <1>8. ASSUME k # IF c.link < c.load THEN FwLen - 1 ELSE 0
        PROVE  StageInv(c, "copy", w, IF c.link < c.load THEN k + 1 ELSE k - 1)
    <2>1. PICK d \in 0 .. FwLen - 1 : d = IF c.link < c.load THEN k + 1 ELSE k - 1
      BY <1>2, <1>3, <1>8, Lengths
    <2>2. Copied(c, d) = Copied(c, k) \cup {k}
      BY <1>2, <1>3, <2>1, Lengths DEF Copied
    <2>3. Copying(c, w, d)
      BY <1>3, <1>7, <2>1, <2>2 DEF Copying
    <2> QED
      BY <1>1, <1>5, <1>6, <2>1, <2>3 DEF StageInv
  <1>9. ASSUME k = IF c.link < c.load THEN FwLen - 1 ELSE 0, NEW d
        PROVE  StageInv(c, "status", w, d)
    <2>1. \A o \in Words \cup {Status} : o \in Copied(c, k) \cup {k}
      BY <1>2, <1>9, FinalIs, Lengths DEF Copied
    <2>2. \A o \in Words \cup {Status} : w[Run(c) + o] = Final(c, o)
      BY <1>3, <1>7, <2>1
    <2> QED
      BY <1>1, <1>5, <1>6, <2>2, FinalIs DEF StageInv, ImageAt
  <1> QED
    BY <1>8, <1>9

LEMMA StageStatus ==
  ASSUME NEW c \in Builds, NEW v, NEW w, NEW k, StageInv(c, "status", v, k),
         Wrote(v, w, c.load + Status, Num(1))
  PROVE  StageInv(c, "fence", w, k)
  <1>1. Clear(c) /\ ImageAt(c, v) /\ v[Run(c) + Status] = Num(0) /\ SrcAt(c, v)
    BY DEF StageInv
  <1>2. SrcAt(c, w)
    <2>1. c.src # 0 => \A l \in 0 .. FdtLen - 1 : c.load + Status # c.src + l
      BY TreeApart
    <2> QED
      BY <1>1, <2>1, SrcKept
  <1>3. \A o \in Words : c.load + Status # Run(c) + o
    <2>1. CASE Moves(c)
      <3>1. PICK ld \in Nat, r \in Nat : ld = c.load /\ r = Run(c) /\ r = c.link
        BY <2>1, BuildIs
      <3>2. r >= ld + 8 \/ r + FwLen <= ld
        BY <1>1, <2>1, <3>1 DEF Clear
      <3>3. \A o \in Words : o \in 0 .. FwLen - 1
        BY FinalIs, Lengths
      <3> QED
        BY <3>1, <3>2, <3>3, Lengths
    <2>2. CASE ~Moves(c)
      BY <2>2, BuildIs DEF Words
    <2> QED
      BY <2>1, <2>2
  <1>4. ImageAt(c, w)
    BY <1>1, <1>3, WordsIn, FinalIs DEF Wrote, ImageAt
  <1>5. w[c.load + Status] = Num(1)
    BY DEF Wrote
  <1>6. w[Run(c) + Status] \in Started
    BY <1>1, <1>5, WordsIn, FinalIs DEF Wrote, Started
  <1> QED
    BY <1>1, <1>2, <1>4, <1>5, <1>6 DEF StageInv, Ahead, Steady
-----------------------------------------------------------------------------
(* From the fence to the end of the boot hart's work.                      *)
LEMMA BackKept ==
  ASSUME NEW c \in Builds, NEW v, NEW w, NEW a \in BackArea(c), NEW x, Wrote(v, w, a, x), Ahead(c, v), SrcAt(c, v)
  PROVE  Ahead(c, w) /\ SrcAt(c, w)
  <1>1. Clear(c) /\ Steady(c, v) /\ v[Run(c) + Status] \in Started
    BY DEF Ahead, Steady
  <1>2. Spares(c, a) /\ (c.src # 0 => \A l \in 0 .. FdtLen - 1 : a # c.src + l)
    BY <1>1, BackApart
  <1>3. Steady(c, w) /\ w[Run(c) + Status] = v[Run(c) + Status]
    BY <1>1, <1>2, SteadyKept
  <1>4. SrcAt(c, w)
    BY <1>2, SrcKept
  <1> QED
    BY <1>1, <1>3, <1>4 DEF Ahead

LEMMA BssBack ==
  ASSUME NEW c \in Builds, NEW k \in ImageLen .. BssEnd - 1
  PROVE  Run(c) + k \in BackArea(c) /\ Run(c) + Info \in BackArea(c)
  <1>1. PICK end \in Nat, r \in Nat : end = RuntimeEnd(c) /\ r = Run(c) /\ FwLen <= end
    BY Layout, BuildIs
  <1>2. r + k \in r + ImageLen .. r + end - 1
    BY <1>1, Lengths
  <1> QED
    BY <1>1, <1>2 DEF BackArea

LEMMA StageBss ==
  ASSUME NEW c \in Builds, NEW v, NEW w, NEW k, StageInv(c, "bss", v, k), Wrote(v, w, Run(c) + k, Num(0))
  PROVE  StageInv(c, IF k + 1 < BssEnd THEN "bss" ELSE "info", w, k + 1)
  <1>1. Ahead(c, v) /\ SrcAt(c, v) /\ k \in ImageLen .. BssEnd - 1
    BY DEF StageInv
  <1>2. Ahead(c, w) /\ SrcAt(c, w)
    BY <1>1, BssBack, BackKept
  <1>3. k + 1 < BssEnd => k + 1 \in ImageLen .. BssEnd - 1
    BY <1>1, Lengths
  <1> QED
    BY <1>2, <1>3 DEF StageInv

LEMMA StageInfo ==
  ASSUME NEW c \in Builds, NEW v, NEW w, NEW k, StageInv(c, "info", v, k),
         IF c.dynamic THEN Wrote(v, w, Run(c) + Info, Num(c.a1)) ELSE w = v
  PROVE  StageInv(c, "scratch", w, 0)
  <1>1. Ahead(c, v) /\ SrcAt(c, v)
    BY DEF StageInv
  <1>2. ImageLen \in ImageLen .. BssEnd - 1
    BY Lengths
  <1>3. Run(c) + Info \in BackArea(c)
    BY <1>2, BssBack
  <1>4. Ahead(c, w) /\ SrcAt(c, w)
    BY <1>1, <1>3, BackKept
  <1>5. Informed(c, w)
    BY DEF Informed, Wrote
  <1>6. 0 \in 0 .. c.count - 1 /\ HeadersAt(c, w, 0)
    BY BuildIs DEF HeadersAt
  <1> QED
    BY <1>4, <1>5, <1>6 DEF StageInv

LEMMA StageScratch ==
  ASSUME NEW c \in Builds, NEW v, NEW w, NEW k, StageInv(c, "scratch", v, k),
         Wrote(v, w, Space(c, k), Header(Run(c), Arg(c)))
  PROVE  /\ k + 1 < c.count => StageInv(c, "scratch", w, k + 1)
         /\ ~(k + 1 < c.count) => StageInv(c, "fdt", w, 0)
  <1>1. Ahead(c, v) /\ SrcAt(c, v) /\ Informed(c, v) /\ k \in 0 .. c.count - 1 /\ HeadersAt(c, v, k)
    BY DEF StageInv
  <1>2. k \in Int /\ c.count \in Nat /\ 0 \in 0 .. ScratchSize - 1
    BY <1>1, BuildIs, Lengths
  <1>3. Space(c, k) \in BackArea(c) /\ Space(c, k) \in Int /\ Space(c, k) + 0 \in Run(c) + FwLen .. MemEnd - 1
    BY <1>1, <1>2, SpaceBack, SpaceIs
  <1>4. Ahead(c, w) /\ SrcAt(c, w)
    BY <1>1, <1>3, BackKept
  <1>5. Informed(c, w)
    <2>1. Space(c, k) # Run(c) + Info
      BY <1>3, BuildIs, Lengths
    <2> QED
      BY <1>1, <2>1, WordsIn, FinalIs DEF Informed, Wrote
  <1>6. HeadersAt(c, w, k + 1)
    <2>1. \A l \in 0 .. k - 1 : Space(c, k) # Space(c, l)
      <3>1. ASSUME NEW l \in 0 .. k - 1 PROVE Space(c, k) # Space(c, l)
        <4>1. l \in Int /\ l # k
          BY <1>2
        <4>2. Space(c, k) + StackSize <= Space(c, l) \/ Space(c, l) + StackSize <= Space(c, k)
          BY <1>2, <4>1, SpaceApart
        <4> QED
          BY <1>3, <4>2, Lengths
      <3> QED
        BY <3>1
    <2>2. HeadersAt(c, w, k)
      BY <1>1, <1>2, <2>1, HeadersKept
    <2>3. w[Space(c, k)] = Header(Run(c), Arg(c))
      BY DEF Wrote
    <2> QED
      BY <1>2, <2>2, <2>3 DEF HeadersAt
  <1>7. k + 1 < c.count => k + 1 \in 0 .. c.count - 1
    BY <1>1, <1>2
  <1>8. ~(k + 1 < c.count) => k + 1 = c.count
    BY <1>1, <1>2
  <1>9. TreeCopying(c, w, 0)
    BY <1>4 DEF TreeCopying, TreeMoves, SrcAt
  <1> QED
    BY <1>4, <1>5, <1>6, <1>7, <1>8, <1>9 DEF StageInv

LEMMA SpacesRun ==
  ASSUME NEW c \in Builds, NEW l \in 0 .. c.count - 1
  PROVE  /\ Space(c, l) \in Run(c) .. Run(c) + RuntimeEnd(c) - 1
         /\ Space(c, l) \in 0 .. MemEnd - 1 /\ Space(c, l) >= Run(c) + FwLen
  <1>1. Space(c, l) \in Int
    BY SpaceIs
  <1>2. 0 \in 0 .. ScratchSize - 1
    BY Lengths
  <1>3. Space(c, l) + 0 \in Run(c) .. Run(c) + RuntimeEnd(c) - 1 /\ Space(c, l) + 0 \in Run(c) + FwLen .. MemEnd - 1
    BY <1>2, SpaceBack
  <1> QED
    BY <1>1, <1>3, BuildIs, Lengths

LEMMA StageFdt ==
  ASSUME NEW c \in Builds, NEW v, NEW w, NEW k, StageInv(c, "fdt", v, k),
         c.src # 0, Arg(c) # 0, Arg(c) # c.src, k < FdtLen,
         Wrote(v, w, Arg(c) + k, v[c.src + k])
  PROVE  StageInv(c, "fdt", w, k + 1)
  <1>1. Steady(c, v) /\ v[Run(c) + Status] \in Started /\ Informed(c, v) /\ HeadersAt(c, v, c.count) /\ TreeCopying(c, v, k)
    BY DEF StageInv, Ahead
  <1>2. PICK src \in Nat, arg \in Nat : src = c.src /\ arg = Arg(c) /\ src # arg
    BY BuildIs
  <1>3. k \in 0 .. FdtLen - 1
    BY <1>1, Lengths DEF TreeCopying
  <1>4. Spares(c, arg + k) /\ \A d \in Run(c) .. Run(c) + RuntimeEnd(c) - 1 : arg + k # d
    BY <1>2, <1>3, TreeApart
  <1>5. Steady(c, w) /\ w[Run(c) + Status] \in Started
    BY <1>1, <1>2, <1>4, SteadyKept
  <1>6. HeadersAt(c, w, c.count)
    <2>1. \A l \in 0 .. c.count - 1 : arg + k # Space(c, l)
      BY <1>4, SpacesRun
    <2>2. c.count \in 0 .. c.count
      BY BuildIs
    <2> QED
      BY <1>1, <1>2, <2>1, <2>2, HeadersKept
  <1>7. Informed(c, w)
    <2>1. PICK end \in Nat, r \in Nat : end = RuntimeEnd(c) /\ r = Run(c) /\ FwLen <= end
      BY Layout, BuildIs
    <2>2. r + 8 \in r .. r + end - 1
      BY <2>1, Lengths
    <2>3. arg + k # Run(c) + Info
      BY <1>4, <2>1, <2>2
    <2> QED
      BY <1>1, <1>2, <2>3, WordsIn, FinalIs DEF Informed, Wrote
  <1>8. TreeCopying(c, w, k + 1)
    <2>1. ASSUME TreeMoves(c), NEW l \in 0 .. FdtLen - 1
          PROVE  IF l < k + 1 THEN w[arg + l] = Fdt(l) ELSE w[src + l] = Fdt(l)
      <3>1. IF l < k THEN v[arg + l] = Fdt(l) ELSE v[src + l] = Fdt(l)
        BY <1>1, <1>2, <2>1 DEF TreeCopying
      <3>2. arg + l \in 0 .. MemEnd - 1 /\ src + l \in 0 .. MemEnd - 1
        BY <1>2, SrcIn
      <3>3. CASE l < k
        <4>1. arg + l # arg + k /\ l < k + 1
          BY <1>2, <1>3, <3>3
        <4> QED
          BY <1>2, <3>1, <3>2, <3>3, <4>1 DEF Wrote
      <3>4. CASE l = k
        <4>1. ~(l < k) /\ l < k + 1
          BY <1>3, <3>4
        <4> QED
          BY <1>2, <3>1, <3>4, <4>1 DEF Wrote
      <3>5. CASE l > k
        <4>1. ~(l < k) /\ ~(l < k + 1)
          BY <1>3, <3>5
        <4>2. arg < src \/ arg >= src + FdtLen
          BY <1>2, <2>1, Lengths DEF TreeMoves
        <4>3. src + l # arg + k
          BY <1>2, <1>3, <3>5, <4>2, Lengths
        <4> QED
          BY <1>2, <3>1, <3>2, <4>1, <4>3 DEF Wrote
      <3> QED
        BY <1>3, <3>3, <3>4, <3>5
    <2>2. k + 1 \in 0 .. FdtLen
      BY <1>3, Lengths
    <2> QED
      BY <1>2, <2>1, <2>2 DEF TreeCopying
  <1> QED
    BY <1>5, <1>6, <1>7, <1>8 DEF StageInv, Ahead

LEMMA StageFdtEnd ==
  ASSUME NEW c \in Builds, NEW v, NEW k, StageInv(c, "fdt", v, k),
         ~(c.src # 0 /\ Arg(c) # 0 /\ Arg(c) # c.src /\ k < FdtLen)
  PROVE  StageInv(c, "done", v, k)
  <1>1. Ahead(c, v) /\ HeadersAt(c, v, c.count) /\ TreeCopying(c, v, k)
    BY DEF StageInv
  <1>2. ASSUME TreeMoves(c), NEW l \in 0 .. FdtLen - 1 PROVE v[Arg(c) + l] = Fdt(l)
    <2>1. k \in 0 .. FdtLen
      BY <1>1, Lengths DEF TreeCopying
    <2>2. IF l < k THEN v[Arg(c) + l] = Fdt(l) ELSE v[c.src + l] = Fdt(l)
      BY <1>1, <1>2 DEF TreeCopying
    <2>3. CASE Arg(c) = c.src
      BY <2>2, <2>3
    <2>4. CASE Arg(c) # c.src
      <3>1. l < k
        BY <1>2, <2>1, <2>4, Lengths DEF TreeMoves
      <3> QED
        BY <2>2, <3>1
    <2> QED
      BY <2>3, <2>4
  <1> QED
    BY <1>1, <1>2 DEF StageInv, TreeAt

LEMMA StageDone ==
  ASSUME NEW c \in Builds, NEW v, NEW w, NEW k, StageInv(c, "done", v, k), Wrote(v, w, Run(c) + Status, Num(2))
  PROVE  StageInv(c, "fence2", w, k)
  <1>1. Steady(c, v) /\ HeadersAt(c, v, c.count) /\ TreeAt(c, v)
    BY DEF StageInv, Ahead
  <1>2. PICK ld \in Nat, r \in Nat : ld = c.load /\ r = Run(c)
    BY BuildIs
  <1>3. \A o \in Words : r + o # r + 5
    BY <1>2, FinalIs DEF Words
  <1>4. ImageAt(c, w)
    BY <1>1, <1>2, <1>3, WordsIn, FinalIs DEF ImageAt, Wrote, Steady
  <1>5. Moves(c) => ld + 5 # r + 5
    BY <1>2, BuildIs DEF Moves
  <1>6. Steady(c, w)
    BY <1>1, <1>2, <1>4, <1>5, WordsIn, FinalIs DEF Wrote, Steady
  <1>7. HeadersAt(c, w, c.count)
    <2>1. \A l \in 0 .. c.count - 1 : r + 5 # Space(c, l)
      BY <1>2, SpacesRun, Lengths
    <2>2. c.count \in 0 .. c.count
      BY BuildIs
    <2> QED
      BY <1>1, <1>2, <2>1, <2>2, HeadersKept
  <1>8. TreeAt(c, w)
    <2>1. ASSUME TreeMoves(c), NEW l \in 0 .. FdtLen - 1 PROVE w[Arg(c) + l] = Fdt(l)
      <3>1. Arg(c) # 0 /\ v[Arg(c) + l] = Fdt(l)
        BY <1>1, <2>1 DEF TreeAt, TreeMoves
      <3>2. Arg(c) + l \in 0 .. MemEnd - 1 /\ Spares(c, Arg(c) + l)
        BY <3>1, TreeApart
      <3>3. Arg(c) + l # Run(c) + Status
        BY <3>2 DEF Spares
      <3> QED
        BY <3>1, <3>2, <3>3 DEF Wrote
    <2> QED
      BY <2>1 DEF TreeAt
  <1>9. w[Run(c) + Status] = Num(2)
    BY DEF Wrote
  <1> QED
    BY <1>6, <1>7, <1>8, <1>9 DEF StageInv
-----------------------------------------------------------------------------
(* The stores on their way.                                                *)
LEMMA WithinAppend ==
  ASSUME NEW q \in Entries, NEW S, Within(q, S), NEW a \in 0 .. MemEnd - 1, NEW x \in Value
  PROVE  /\ a \in S => Within(Append(q, <<a, x>>), S)
         /\ Signals(Append(q, <<a, x>>), S, a, x)
  <1>0. Append(q, <<a, x>>) \in Entries
    BY DEF Entries
  <1>1. PICK p \in Entries : p = Append(q, <<a, x>>)
    BY <1>0
  <1>2. PICK len \in Nat : len = Len(q) /\ DOMAIN q = 1 .. len /\ DOMAIN p = 1 .. len + 1 /\ Len(p) = len + 1
    BY <1>1 DEF Entries
  <1>3. p[len + 1] = <<a, x>> /\ \A k \in 1 .. len : p[k] = q[k]
    BY <1>1, <1>2 DEF Entries
  <1>4. \A k \in 1 .. len : p[k][1] \in S
    BY <1>2, <1>3 DEF Within
  <1>5. a \in S => Within(p, S)
    <2>1. ASSUME a \in S, NEW k \in 1 .. len + 1 PROVE p[k][1] \in S
      <3>1. CASE k = len + 1
        BY <1>3, <2>1, <3>1
      <3>2. CASE k # len + 1
        BY <1>2, <1>4, <3>2
      <3> QED
        BY <3>1, <3>2
    <2> QED
      BY <1>2, <2>1 DEF Within
  <1>6. p[Len(p)] = <<a, x>> /\ \A k \in 1 .. Len(p) - 1 : p[k][1] \in S
    BY <1>2, <1>3, <1>4
  <1> QED
    BY <1>1, <1>5, <1>6 DEF Signals

LEMMA WithinOther ==
  ASSUME NEW m \in Memory, NEW q \in Entries, NEW S, Within(q, S), NEW a \in 0 .. MemEnd - 1, a \notin S
  PROVE  Seen(m, q)[a] = m[a]
  BY SeenOutside DEF Within

LEMMA BootSave ==
  ASSUME NEW c \in Builds, NEW m \in Memory, NEW q \in Entries, NEW k, BootInv(c, "save", m, q, k)
  PROVE  BootInv(c, IF c.pic THEN "pic" ELSE "relocate", m, Append(q, <<c.load + LoadStart, Num(c.load)>>), k)
  <1>1. q = << >> /\ StageInv(c, "save", Seen(m, q), k)
    BY DEF BootInv, PendInv
  <1>2. c.load + LoadStart \in 0 .. MemEnd - 1 /\ Num(c.load) \in Value
    <2>1. c.load \in Int
      BY BuildIs
    <2> QED
      BY <2>1, WordsIn, FinalIs, NumType
  <1>3. PICK p \in Entries : p = Append(q, <<c.load + LoadStart, Num(c.load)>>)
                             /\ Wrote(Seen(m, q), Seen(m, p), c.load + LoadStart, Num(c.load))
    BY <1>2, StoreWrote
  <1>4. Within(q, {c.load + LoadStart})
    BY <1>1 DEF Within
  <1>5. Within(p, {c.load + LoadStart})
    BY <1>2, <1>3, <1>4, WithinAppend
  <1>6. StageInv(c, IF c.pic THEN "pic" ELSE "relocate", Seen(m, p), k)
    BY <1>1, <1>3, StageSave
  <1>7. PendInv(c, IF c.pic THEN "pic" ELSE "relocate", m, p)
    BY <1>5 DEF PendInv
  <1> QED
    BY <1>3, <1>6, <1>7 DEF BootInv

LEMMA BootPic ==
  ASSUME NEW c \in Builds, NEW m \in Memory, NEW q \in Entries, NEW k, BootInv(c, "pic", m, q, k)
  PROVE  /\ BootInv(c, "status", m, Append(q, <<c.load + Ptr, Num(c.load + 10)>>), k)
         /\ Seen(m, q)[c.load + LinkStart] = Num(c.link)
  <1>1. Within(q, {c.load + LoadStart}) /\ StageInv(c, "pic", Seen(m, q), k)
    BY DEF BootInv, PendInv
  <1>2. c.load + Ptr \in 0 .. MemEnd - 1 /\ Num(c.load + 10) \in Value
    <2>1. c.load + 10 \in Int
      BY BuildIs
    <2> QED
      BY <2>1, WordsIn, FinalIs, NumType
  <1>3. PICK p \in Entries : p = Append(q, <<c.load + Ptr, Num(c.load + 10)>>)
                             /\ Wrote(Seen(m, q), Seen(m, p), c.load + Ptr, Num(c.load + 10))
    BY <1>2, StoreWrote
  <1>4. c.pic /\ Original(c, Seen(m, q))
    BY <1>1 DEF StageInv, Fresh
  <1>5. Within(q, FrontArea(c)) /\ c.load + Ptr \in FrontArea(c)
    BY <1>1, <1>4 DEF Within, FrontArea
  <1>6. Within(p, FrontArea(c))
    BY <1>2, <1>3, <1>5, WithinAppend
  <1>7. StageInv(c, "status", Seen(m, p), k)
    BY <1>1, <1>3, StagePic
  <1>8. PendInv(c, "status", m, p)
    BY <1>6 DEF PendInv
  <1>9. Seen(m, q)[c.load + LinkStart] = Num(c.link)
    BY <1>4, FinalIs DEF Original
  <1> QED
    BY <1>3, <1>7, <1>8, <1>9 DEF BootInv

LEMMA BootRelocate ==
  ASSUME NEW c \in Builds, NEW m \in Memory, NEW q \in Entries, NEW k, BootInv(c, "relocate", m, q, k), NEW d
  PROVE  /\ BootInv(c, "stuck", m, q, d)
         /\ c.link = c.load => BootInv(c, "status", m, q, d)
         /\ c.link # c.load /\ Clear(c) /\ d = (IF c.link < c.load THEN 0 ELSE FwLen - 1) =>
              BootInv(c, "copy", m, q, d)
         /\ Seen(m, q)[c.load + LinkStart] = Num(c.link) /\ Seen(m, q)[c.load + LoadStart] = Num(c.load)
         /\ ~c.pic
  <1>1. Within(q, {c.load + LoadStart}) /\ StageInv(c, "relocate", Seen(m, q), k)
    BY DEF BootInv, PendInv
  <1>2. Within(q, FrontArea(c))
    BY <1>1 DEF Within, FrontArea
  <1>3. PendInv(c, "stuck", m, q) /\ PendInv(c, "status", m, q) /\ PendInv(c, "copy", m, q)
    BY <1>1, <1>2 DEF PendInv
  <1>4. /\ ~c.pic /\ Original(c, Seen(m, q)) /\ Seen(m, q)[c.load + LoadStart] = Num(c.load)
    BY <1>1 DEF StageInv, Fresh
  <1>5. Seen(m, q)[c.load + LinkStart] = Num(c.link)
    BY <1>4, FinalIs DEF Original
  <1> QED
    BY <1>1, <1>3, <1>4, <1>5, StageRelocate DEF BootInv

LEMMA BootCopy ==
  ASSUME NEW c \in Builds, NEW m \in Memory, NEW q \in Entries, NEW k, BootInv(c, "copy", m, q, k)
  PROVE  LET p == Append(q, <<c.link + k, Seen(m, q)[c.load + k]>>)
         IN  /\ k # (IF c.link < c.load THEN FwLen - 1 ELSE 0) =>
                  BootInv(c, "copy", m, p, IF c.link < c.load THEN k + 1 ELSE k - 1)
             /\ k = (IF c.link < c.load THEN FwLen - 1 ELSE 0) => BootInv(c, "status", m, p, 0)
             /\ Moves(c) /\ k \in 0 .. FwLen - 1
             /\ c.load + k \in 0 .. MemEnd - 1 /\ c.link + k \in 0 .. MemEnd - 1
             /\ p \in Entries
  <1>1. Within(q, FrontArea(c)) /\ StageInv(c, "copy", Seen(m, q), k)
    BY DEF BootInv, PendInv
  <1>2. k \in 0 .. FwLen - 1 /\ Moves(c) /\ Clear(c)
    BY <1>1 DEF StageInv, Copying
  <1>3. PICK end \in Nat, ld \in Nat, ln \in Nat :
          ld = c.load /\ ln = c.link /\ ln = Run(c) /\ FwLen <= end /\ ln + end <= MemEnd /\ ld + FwLen <= MemEnd
    BY <1>2, BuildIs, Layout
  <1>4. ld + k \in 0 .. MemEnd - 1 /\ ln + k \in 0 .. MemEnd - 1 /\ ln + k \in ln .. ln + FwLen - 1
    BY <1>2, <1>3, Lengths
  <1>5. ln + k \in FrontArea(c)
    BY <1>2, <1>3, <1>4 DEF FrontArea
  <1>6. PICK x \in Value : x = Seen(m, q)[c.load + k]
    BY <1>3, <1>4, SeenType DEF Memory
  <1>7. PICK p \in Entries : p = Append(q, <<c.link + k, x>>) /\ Wrote(Seen(m, q), Seen(m, p), c.link + k, x)
    BY <1>3, <1>4, StoreWrote
  <1>8. Within(p, FrontArea(c))
    BY <1>1, <1>3, <1>4, <1>5, <1>7, WithinAppend
  <1>9. PendInv(c, "copy", m, p) /\ PendInv(c, "status", m, p)
    BY <1>8 DEF PendInv
  <1>10. /\ k # (IF c.link < c.load THEN FwLen - 1 ELSE 0) =>
              StageInv(c, "copy", Seen(m, p), IF c.link < c.load THEN k + 1 ELSE k - 1)
         /\ k = (IF c.link < c.load THEN FwLen - 1 ELSE 0) => StageInv(c, "status", Seen(m, p), 0)
    BY <1>1, <1>6, <1>7, StageCopy
  <1> QED
    BY <1>2, <1>3, <1>4, <1>6, <1>7, <1>9, <1>10 DEF BootInv

LEMMA BootStatus ==
  ASSUME NEW c \in Builds, NEW m \in Memory, NEW q \in Entries, NEW k, BootInv(c, "status", m, q, k)
  PROVE  /\ BootInv(c, "fence", m, Append(q, <<c.load + Status, Num(1)>>), k)
         /\ Seen(m, q)[Run(c) + LinkStart] = Num(c.link) /\ Seen(m, q)[Run(c) + LoadStart] = Num(c.load)
  <1>1. Within(q, FrontArea(c)) /\ StageInv(c, "status", Seen(m, q), k)
    BY DEF BootInv, PendInv
  <1>2. Clear(c) /\ ImageAt(c, Seen(m, q)) /\ Seen(m, q)[c.load + Status] = Num(0)
    BY <1>1 DEF StageInv
  <1>3. c.load + Status \in 0 .. MemEnd - 1 /\ Num(1) \in Value
    BY WordsIn, FinalIs, ValueType
  <1>4. PICK p \in Entries : p = Append(q, <<c.load + Status, Num(1)>>)
                             /\ Wrote(Seen(m, q), Seen(m, p), c.load + Status, Num(1))
    BY <1>3, StoreWrote
  <1>5. c.load + Status \notin FrontArea(c)
    BY <1>2, FrontApart
  <1>6. m[c.load + Status] = Num(0)
    BY <1>1, <1>2, <1>3, <1>5, WithinOther
  <1>7. Signals(p, FrontArea(c), c.load + Status, Num(1))
    BY <1>1, <1>3, <1>4, WithinAppend
  <1>8. PendInv(c, "fence", m, p)
    BY <1>6, <1>7 DEF PendInv
  <1>9. StageInv(c, "fence", Seen(m, p), k)
    BY <1>1, <1>4, StageStatus
  <1>10. Seen(m, q)[Run(c) + LinkStart] = Num(c.link) /\ Seen(m, q)[Run(c) + LoadStart] = Num(c.load)
    BY <1>2, FinalIs DEF ImageAt
  <1> QED
    BY <1>4, <1>8, <1>9, <1>10 DEF BootInv

LEMMA BootFence ==
  ASSUME NEW c \in Builds, NEW m \in Memory, NEW q \in Entries, NEW k, BootInv(c, "fence", m, q, k), q = << >>
  PROVE  BootInv(c, "bss", m, q, ImageLen)
  <1>1. StageInv(c, "fence", Seen(m, q), k)
    BY DEF BootInv
  <1>2. StageInv(c, "bss", Seen(m, q), ImageLen)
    BY <1>1, Lengths DEF StageInv
  <1>3. PendInv(c, "bss", m, q)
    BY DEF PendInv, Within
  <1> QED
    BY <1>2, <1>3 DEF BootInv

(* A store of the second part.                                             *)
LEMMA BackStore ==
  ASSUME NEW c \in Builds, NEW m \in Memory, NEW q \in Entries, Within(q, BackArea(c) \cup TreeArea(c)),
         NEW a \in BackArea(c) \cup TreeArea(c), NEW x \in Value, Clear(c),
         NEW l \in {"bss", "info", "scratch", "fdt", "done"}
  PROVE  \E p \in Entries :
           /\ p = Append(q, <<a, x>>) /\ Wrote(Seen(m, q), Seen(m, p), a, x) /\ PendInv(c, l, m, p)
           /\ a \in 0 .. MemEnd - 1
  <1>1. a \in 0 .. MemEnd - 1
    BY BackApart, TreeSpares
  <1>2. PICK p \in Entries : p = Append(q, <<a, x>>) /\ Wrote(Seen(m, q), Seen(m, p), a, x)
    BY <1>1, StoreWrote
  <1>3. Within(p, BackArea(c) \cup TreeArea(c))
    BY <1>1, <1>2, WithinAppend
  <1>4. PendInv(c, l, m, p)
    BY <1>3 DEF PendInv
  <1> QED
    BY <1>1, <1>2, <1>4

LEMMA BootBss ==
  ASSUME NEW c \in Builds, NEW m \in Memory, NEW q \in Entries, NEW k, BootInv(c, "bss", m, q, k)
  PROVE  /\ BootInv(c, IF k + 1 < BssEnd THEN "bss" ELSE "info", m, Append(q, <<Run(c) + k, Num(0)>>), k + 1)
         /\ k + 1 \in 0 .. MemEnd /\ Append(q, <<Run(c) + k, Num(0)>>) \in Entries
  <1>1. Within(q, BackArea(c) \cup TreeArea(c)) /\ StageInv(c, "bss", Seen(m, q), k)
    BY DEF BootInv, PendInv
  <1>2. Clear(c) /\ k \in ImageLen .. BssEnd - 1
    BY <1>1 DEF StageInv, Ahead, Steady
  <1>3. Num(0) \in Value /\ Run(c) + k \in BackArea(c) \cup TreeArea(c)
    BY <1>2, ValueType, BssBack
  <1>4. PICK l \in {"bss", "info", "scratch", "fdt", "done"} : l = IF k + 1 < BssEnd THEN "bss" ELSE "info"
    OBVIOUS
  <1>5. PICK p \in Entries : /\ p = Append(q, <<Run(c) + k, Num(0)>>) /\ PendInv(c, l, m, p)
                             /\ Wrote(Seen(m, q), Seen(m, p), Run(c) + k, Num(0))
    BY <1>1, <1>2, <1>3, BackStore
  <1>6. StageInv(c, l, Seen(m, p), k + 1)
    BY <1>1, <1>4, <1>5, StageBss
  <1>7. PICK end \in Nat : FwLen <= end /\ Run(c) + end <= MemEnd
    BY Layout
  <1>8. k + 1 \in 0 .. MemEnd
    BY <1>2, <1>7, BuildIs, Lengths
  <1> QED
    BY <1>4, <1>5, <1>6, <1>8 DEF BootInv

LEMMA BootInfo ==
  ASSUME NEW c \in Builds, NEW m \in Memory, NEW q \in Entries, NEW k, BootInv(c, "info", m, q, k)
  PROVE  /\ ~c.dynamic => BootInv(c, "scratch", m, q, 0)
         /\ c.dynamic => BootInv(c, "scratch", m, Append(q, <<Run(c) + Info, Num(c.a1)>>), 0)
         /\ Append(q, <<Run(c) + Info, Num(c.a1)>>) \in Entries
  <1>1. Within(q, BackArea(c) \cup TreeArea(c)) /\ StageInv(c, "info", Seen(m, q), k)
    BY DEF BootInv, PendInv
  <1>2. Clear(c) /\ Num(c.a1) \in Value
    BY <1>1, BuildIs, ValueType DEF StageInv, Ahead, Steady
  <1>3. Run(c) + Info \in BackArea(c) \cup TreeArea(c)
    <2>1. ImageLen \in ImageLen .. BssEnd - 1
      BY Lengths
    <2> QED
      BY <2>1, BssBack
  <1>4. PICK p \in Entries : /\ p = Append(q, <<Run(c) + Info, Num(c.a1)>>) /\ PendInv(c, "scratch", m, p)
                             /\ Wrote(Seen(m, q), Seen(m, p), Run(c) + Info, Num(c.a1))
    BY <1>1, <1>2, <1>3, BackStore
  <1>5. c.dynamic => StageInv(c, "scratch", Seen(m, p), 0)
    BY <1>1, <1>4, StageInfo
  <1>6. ~c.dynamic => StageInv(c, "scratch", Seen(m, q), 0)
    BY <1>1, StageInfo
  <1>7. PendInv(c, "scratch", m, q)
    BY <1>1 DEF PendInv
  <1> QED
    BY <1>4, <1>5, <1>6, <1>7 DEF BootInv

(* fw_next_arg1 *)
ArgSeen(c, v) == IF c.dynamic THEN v[Run(c) + Info][2] ELSE IF c.jumpFdt # None THEN c.jumpFdt ELSE c.src

LEMMA ArgIs ==
  ASSUME NEW c, NEW v, Informed(c, v)
  PROVE  ArgSeen(c, v) = Arg(c)
  BY DEF ArgSeen, Arg, Informed, Num

LEMMA BootScratch ==
  ASSUME NEW c \in Builds, NEW m \in Memory, NEW q \in Entries, NEW k, BootInv(c, "scratch", m, q, k)
  PROVE  LET p == Append(q, <<Space(c, k), Header(Run(c), Arg(c))>>)
         IN  /\ k + 1 < c.count => BootInv(c, "scratch", m, p, k + 1)
             /\ ~(k + 1 < c.count) => BootInv(c, "fdt", m, p, 0)
             /\ ArgSeen(c, Seen(m, q)) = Arg(c) /\ k \in 0 .. c.count - 1
             /\ p \in Entries
  <1>1. Within(q, BackArea(c) \cup TreeArea(c)) /\ StageInv(c, "scratch", Seen(m, q), k)
    BY DEF BootInv, PendInv
  <1>2. Clear(c) /\ Informed(c, Seen(m, q)) /\ k \in 0 .. c.count - 1
    BY <1>1 DEF StageInv, Ahead, Steady
  <1>3. Header(Run(c), Arg(c)) \in Value
    <2>1. Run(c) \in Int /\ Arg(c) \in Int
      BY BuildIs
    <2> QED
      BY <2>1, ValueType
  <1>4. Space(c, k) \in BackArea(c) \cup TreeArea(c)
    <2>1. 0 \in 0 .. ScratchSize - 1
      BY Lengths
    <2> QED
      BY <1>2, <2>1, SpaceBack
  <1>5. ASSUME NEW l \in {"scratch", "fdt"}
        PROVE  \E p \in Entries : /\ p = Append(q, <<Space(c, k), Header(Run(c), Arg(c))>>) /\ PendInv(c, l, m, p)
                                  /\ Wrote(Seen(m, q), Seen(m, p), Space(c, k), Header(Run(c), Arg(c)))
    <2>1. l \in {"bss", "info", "scratch", "fdt", "done"}
      OBVIOUS
    <2> QED
      BY <1>1, <1>2, <1>3, <1>4, <2>1, BackStore
  <1>6. PICK p \in Entries : /\ p = Append(q, <<Space(c, k), Header(Run(c), Arg(c))>>)
                             /\ PendInv(c, "scratch", m, p) /\ PendInv(c, "fdt", m, p)
                             /\ Wrote(Seen(m, q), Seen(m, p), Space(c, k), Header(Run(c), Arg(c)))
    BY <1>5
  <1>7. /\ k + 1 < c.count => StageInv(c, "scratch", Seen(m, p), k + 1)
        /\ ~(k + 1 < c.count) => StageInv(c, "fdt", Seen(m, p), 0)
    BY <1>1, <1>6, StageScratch
  <1> QED
    BY <1>2, <1>6, <1>7, ArgIs DEF BootInv

LEMMA BootFdt ==
  ASSUME NEW c \in Builds, NEW m \in Memory, NEW q \in Entries, NEW k, BootInv(c, "fdt", m, q, k)
  PROVE  LET p == Append(q, <<Arg(c) + k, Seen(m, q)[c.src + k]>>)
             go == c.src # 0 /\ Arg(c) # 0 /\ Arg(c) # c.src /\ k < FdtLen
         IN  /\ go => /\ BootInv(c, "fdt", m, p, k + 1) /\ c.src + k \in 0 .. MemEnd - 1
                      /\ k + 1 \in 0 .. MemEnd /\ p \in Entries
             /\ ~go => BootInv(c, "done", m, q, k)
             /\ ArgSeen(c, Seen(m, q)) = Arg(c)
  <1> DEFINE go == c.src # 0 /\ Arg(c) # 0 /\ Arg(c) # c.src /\ k < FdtLen
  <1>1. Within(q, BackArea(c) \cup TreeArea(c)) /\ StageInv(c, "fdt", Seen(m, q), k)
    BY DEF BootInv, PendInv
  <1>2. Clear(c) /\ Informed(c, Seen(m, q)) /\ TreeCopying(c, Seen(m, q), k)
    BY <1>1 DEF StageInv, Ahead, Steady
  <1>3. ArgSeen(c, Seen(m, q)) = Arg(c)
    BY <1>2, ArgIs
  <1>4. ASSUME ~go PROVE BootInv(c, "done", m, q, k)
    <2>1. StageInv(c, "done", Seen(m, q), k)
      BY <1>1, <1>4, StageFdtEnd
    <2> QED
      BY <1>1, <2>1 DEF BootInv, PendInv
  <1>5. ASSUME go
        PROVE  LET p == Append(q, <<Arg(c) + k, Seen(m, q)[c.src + k]>>)
               IN  /\ BootInv(c, "fdt", m, p, k + 1) /\ c.src + k \in 0 .. MemEnd - 1
                   /\ k + 1 \in 0 .. MemEnd /\ p \in Entries
    <2>1. PICK src \in Nat, arg \in Nat : src = c.src /\ arg = Arg(c)
      BY BuildIs
    <2>2. k \in 0 .. FdtLen - 1
      BY <1>2, <1>5, Lengths DEF TreeCopying
    <2>3. src + k \in 0 .. MemEnd - 1
      BY <1>5, <2>1, <2>2, SrcIn
    <2>4. k + 1 \in 0 .. MemEnd
      BY <2>1, <2>2, <2>3, Lengths
    <2>5. PICK x \in Value : x = Seen(m, q)[c.src + k]
      BY <2>1, <2>3, SeenType DEF Memory
    <2>6. arg + k \in arg .. arg + FdtLen - 1
      BY <2>1, <2>2, Lengths
    <2>7. Arg(c) + k \in BackArea(c) \cup TreeArea(c)
      BY <1>5, <2>1, <2>6 DEF TreeArea
    <2>8. PICK p \in Entries : /\ p = Append(q, <<Arg(c) + k, x>>) /\ PendInv(c, "fdt", m, p)
                               /\ Wrote(Seen(m, q), Seen(m, p), Arg(c) + k, x)
      BY <1>1, <1>2, <2>7, BackStore
    <2>9. StageInv(c, "fdt", Seen(m, p), k + 1)
      BY <1>1, <1>5, <2>5, <2>8, StageFdt
    <2> QED
      BY <2>1, <2>3, <2>4, <2>5, <2>8, <2>9 DEF BootInv
  <1> QED
    BY <1>3, <1>4, <1>5

LEMMA BackOthers ==
  ASSUME NEW c \in Builds, NEW m \in Memory, NEW q \in Entries, Within(q, BackArea(c) \cup TreeArea(c)), Clear(c)
  PROVE  /\ Seen(m, q)[Run(c) + Status] = m[Run(c) + Status]
         /\ \A k \in DOMAIN q : q[k][1] \in 0 .. MemEnd - 1 /\ Spares(c, q[k][1])
  <1>1. \A k \in DOMAIN q : q[k][1] \in 0 .. MemEnd - 1 /\ Spares(c, q[k][1])
    BY BackApart, TreeSpares DEF Within
  <1>2. \A k \in DOMAIN q : q[k][1] # Run(c) + Status
    BY <1>1 DEF Spares
  <1> QED
    BY <1>1, <1>2, SeenOutside, WordsIn, FinalIs

LEMMA BootDone ==
  ASSUME NEW c \in Builds, NEW m \in Memory, NEW q \in Entries, NEW k, BootInv(c, "done", m, q, k)
  PROVE  /\ BootInv(c, "fence2", m, Append(q, <<Run(c) + Status, Num(2)>>), k)
         /\ Append(q, <<Run(c) + Status, Num(2)>>) \in Entries
  <1>1. Within(q, BackArea(c) \cup TreeArea(c)) /\ StageInv(c, "done", Seen(m, q), k)
    BY DEF BootInv, PendInv
  <1>2. Clear(c) /\ Seen(m, q)[Run(c) + Status] \in Started
    BY <1>1 DEF StageInv, Ahead, Steady
  <1>3. Run(c) + Status \in 0 .. MemEnd - 1 /\ Num(2) \in Value
    BY WordsIn, FinalIs, ValueType
  <1>4. PICK p \in Entries : p = Append(q, <<Run(c) + Status, Num(2)>>)
                             /\ Wrote(Seen(m, q), Seen(m, p), Run(c) + Status, Num(2))
    BY <1>3, StoreWrote
  <1>5. m[Run(c) + Status] \in Started
    BY <1>1, <1>2, BackOthers
  <1>6. Signals(p, BackArea(c) \cup TreeArea(c), Run(c) + Status, Num(2))
    BY <1>1, <1>3, <1>4, WithinAppend
  <1>7. PendInv(c, "fence2", m, p)
    BY <1>5, <1>6 DEF PendInv
  <1>8. StageInv(c, "fence2", Seen(m, p), k)
    BY <1>1, <1>4, StageDone
  <1> QED
    BY <1>4, <1>7, <1>8 DEF BootInv
-----------------------------------------------------------------------------
(* What the other harts see when a store arrives.                          *)
LEMMA TailPend ==
  ASSUME NEW q \in Entries, Len(q) > 0, NEW S, NEW a, NEW x
  PROVE  /\ Within(q, S) => q[1][1] \in S /\ Within(Tail(q), S)
         /\ Signals(q, S, a, x) =>
              \/ q[1] = <<a, x>> /\ Tail(q) = << >>
              \/ q[1][1] \in S /\ Signals(Tail(q), S, a, x)
         /\ q[1][1] \in 0 .. MemEnd - 1 /\ q[1][2] \in Value
  <1>1. PICK len \in Nat \ {0} : len = Len(q) /\ DOMAIN q = 1 .. len
    BY DEF Entries
  <1>2. PICK p \in Entries : p = Tail(q) /\ Len(p) = len - 1 /\ DOMAIN p = 1 .. len - 1
    <2>1. Tail(q) \in Entries /\ Len(Tail(q)) = len - 1 /\ DOMAIN Tail(q) = 1 .. len - 1
      BY <1>1 DEF Entries
    <2> QED
      BY <2>1
  <1>3. \A k \in 1 .. len - 1 : p[k] = q[k + 1]
    BY <1>1, <1>2 DEF Entries
  <1>4. 1 \in DOMAIN q
    BY <1>1
  <1>5. ASSUME Within(q, S) PROVE q[1][1] \in S /\ Within(p, S)
    BY <1>1, <1>2, <1>3, <1>5 DEF Within
  <1>6. ASSUME Signals(q, S, a, x)
        PROVE  (q[1] = <<a, x>> /\ p = << >>) \/ (q[1][1] \in S /\ Signals(p, S, a, x))
    <2>1. q[len] = <<a, x>> /\ \A k \in 1 .. len - 1 : q[k][1] \in S
      BY <1>1, <1>6 DEF Signals, Entries
    <2>2. CASE len = 1
      BY <1>2, <2>1, <2>2 DEF Entries
    <2>3. CASE len > 1
      <3>1. p[len - 1] = <<a, x>>
        BY <1>3, <2>1, <2>3
      <3>2. \A k \in 1 .. len - 2 : p[k][1] \in S
        BY <1>3, <2>1, <2>3
      <3> QED
        BY <1>2, <2>1, <2>3, <3>1, <3>2 DEF Signals
    <2> QED
      BY <2>2, <2>3
  <1> QED
    BY <1>2, <1>4, <1>5, <1>6, EntryIs

LEMMA NumApart == Num(2) \notin Started /\ Num(0) # Num(2) /\ Num(1) # Num(0) /\ Num(2) # Num(0)
  BY DEF Num, Started

LEMMA FixedKept ==
  ASSUME NEW c \in Builds, NEW m, NEW w, NEW a, NEW x, Wrote(m, w, a, x), \A o \in Polled : a # c.load + o, Fixed(c, m)
  PROVE  Fixed(c, w) /\ w[c.load + Lottery] = m[c.load + Lottery]
  <1>1. \A o \in Polled : w[c.load + o] = m[c.load + o]
    BY WordsIn, FinalIs DEF Wrote, Polled
  <1>2. \A o \in 0 .. 3 : o \in Polled
    BY DEF Polled
  <1> QED
    BY <1>1, <1>2 DEF Fixed, Polled

(* Before _boot_status is written.                                         *)
LEMMA MemFront ==
  ASSUME NEW c \in Builds, NEW m, NEW w, NEW a, NEW x, Wrote(m, w, a, x), MemInv(c, m),
         m[c.load + Status] = Num(0), \A o \in Polled \cup {Status} : a # c.load + o,
         ~Moves(c) => a = c.load + LoadStart \/ a = c.load + Ptr
  PROVE  /\ MemInv(c, w) /\ w[c.load + Status] = Num(0) /\ (Moved(c, m) => Moved(c, w)) /\ ~Done(c, m)
         /\ w[c.load + Lottery] = m[c.load + Lottery]
  <1>1. w[c.load + Status] = Num(0)
    BY WordsIn, FinalIs DEF Wrote
  <1>2. Fixed(c, w) /\ w[c.load + Lottery] = m[c.load + Lottery]
    BY FixedKept DEF MemInv
  <1>3. CASE Moves(c)
    BY <1>1, <1>2, <1>3 DEF MemInv, Moved, Done
  <1>4. CASE ~Moves(c)
    <2>1. PICK ld \in Nat : ld = c.load /\ Run(c) = ld /\ (a = ld + 6 \/ a = ld + 9)
      BY <1>4, BuildIs
    <2>2. Moved(c, m) /\ Moved(c, w) /\ Clear(c)
      BY <1>4 DEF Moved, Clear
    <2>3. CodeAt(c, m)
      BY <2>2 DEF MemInv
    <2>4. \A o \in Words \ {LoadStart, Ptr} : ld + o # a
      BY <2>1, FinalIs
    <2>5. CodeAt(c, w)
      BY <2>1, <2>3, <2>4, WordsIn, FinalIs DEF CodeAt, Wrote
    <2>6. ~Done(c, m) /\ ~Done(c, w)
      BY <1>1, <2>1, NumApart DEF Done
    <2> QED
      BY <1>1, <1>2, <2>1, <2>2, <2>5, <2>6 DEF MemInv
  <1> QED
    BY <1>3, <1>4

(* After that.                                                             *)
LEMMA MemBack ==
  ASSUME NEW c \in Builds, NEW m, NEW w, NEW a, NEW x, Wrote(m, w, a, x), MemInv(c, m), Spares(c, a),
         m[Run(c) + Status] \in Started
  PROVE  /\ MemInv(c, w) /\ w[Run(c) + Status] = m[Run(c) + Status] /\ (Moved(c, m) => Moved(c, w)) /\ ~Done(c, m)
         /\ w[c.load + Lottery] = m[c.load + Lottery]
  <1>1. Fixed(c, w) /\ w[c.load + Lottery] = m[c.load + Lottery]
    BY FixedKept DEF MemInv, Spares
  <1>2. w[Run(c) + Status] = m[Run(c) + Status]
    BY WordsIn, FinalIs DEF Wrote, Spares
  <1>3. ~Done(c, m) /\ ~Done(c, w)
    BY <1>2, NumApart DEF Done
  <1>4. Moved(c, m) <=> Moved(c, w)
    BY WordsIn, FinalIs DEF Wrote, Spares, Moved
  <1>5. CodeAt(c, m) => CodeAt(c, w)
    BY WordsIn, FinalIs DEF CodeAt, Wrote, Spares
  <1> QED
    BY <1>1, <1>2, <1>3, <1>4, <1>5 DEF MemInv

LEMMA StatusApart ==
  ASSUME NEW c \in Builds, Clear(c)
  PROVE  \A o \in Polled : Run(c) + Status # c.load + o /\ c.load + Status # c.load + o
  <1>1. PICK ld \in Nat, r \in Nat : ld = c.load /\ r = Run(c)
    BY BuildIs
  <1>2. r = ld \/ r >= ld + 8 \/ r + FwLen <= ld
    BY <1>1, BuildIs DEF Clear
  <1> QED
    BY <1>1, <1>2, Lengths DEF Polled

BootLabels == Before \cup Front \cup Back

(* q is p after its first entry, which is the write of x to a.             *)
Arrives(q, p, a, x) ==
  /\ \A S : Within(q, S) => a \in S /\ Within(p, S)
  /\ \A S, d, y : Signals(q, S, d, y) => (a = d /\ x = y /\ p = << >>) \/ (a \in S /\ Signals(p, S, d, y))

LEMMA BootArrives ==
  ASSUME NEW c \in Builds, NEW m \in Memory, NEW q \in Entries, q # << >>, NEW k, NEW l,
         BootInv(c, l, m, q, k), MemInv(c, m), NEW w \in Memory, NEW p \in Entries, NEW a, NEW x,
         Wrote(m, w, a, x), Arrives(q, p, a, x), Seen(w, p) = Seen(m, q)
  PROVE  /\ MemInv(c, w) /\ PendInv(c, l, w, p)
         /\ (Moved(c, m) => Moved(c, w)) /\ ~Done(c, m) /\ w[c.load + Lottery] = m[c.load + Lottery]
  <1>3. Wrote(m, w, a, x)
    OBVIOUS
  <1>4. StageInv(c, l, Seen(w, p), k) /\ StageInv(c, l, Seen(m, q), k) /\ PendInv(c, l, m, q)
    BY DEF BootInv
  <1>5. q # << >>
    OBVIOUS
  <1>6. CASE l \in {"save", "pic", "relocate", "stuck"}
    <2>1. Within(q, {c.load + LoadStart}) /\ l # "save"
      BY <1>4, <1>5, <1>6 DEF PendInv
    <2>2. a = c.load + LoadStart /\ Within(p, {c.load + LoadStart})
      BY <2>1 DEF Arrives
    <2>3. \A o \in Polled \cup {Status} : c.load + LoadStart # c.load + o
      BY BuildIs DEF Polled
    <2>4. m[c.load + Status] = Num(0)
      <3>1. Seen(m, q)[c.load + Status] = Num(0)
        BY <1>4, <1>6 DEF StageInv, Fresh, Original
      <3>2. c.load + Status \notin {c.load + LoadStart}
        BY BuildIs
      <3> QED
        BY <2>1, <3>1, <3>2, WithinOther, WordsIn, FinalIs
    <2>5. /\ MemInv(c, w) /\ (Moved(c, m) => Moved(c, w)) /\ ~Done(c, m)
          /\ w[c.load + Lottery] = m[c.load + Lottery]
      BY <1>3, <2>2, <2>3, <2>4, MemFront
    <2>6. PendInv(c, l, w, p)
      BY <1>6, <2>1, <2>2 DEF PendInv
    <2> QED
      BY <2>5, <2>6
  <1>7. ASSUME Clear(c), a \in FrontArea(c), m[c.load + Status] = Num(0)
        PROVE  /\ MemInv(c, w) /\ (Moved(c, m) => Moved(c, w)) /\ ~Done(c, m)
               /\ w[c.load + Lottery] = m[c.load + Lottery] /\ w[c.load + Status] = Num(0)
    <2>1. /\ \A o \in Polled \cup {Status} : a # c.load + o
          /\ ~Moves(c) => a = c.load + LoadStart \/ a = c.load + Ptr
      BY <1>7, FrontApart
    <2> QED
      BY <1>3, <1>7, <2>1, MemFront
  <1>8. CASE l \in {"copy", "status"}
    <2>1. Within(q, FrontArea(c)) /\ Clear(c) /\ Seen(m, q)[c.load + Status] = Num(0)
      BY <1>4, <1>8 DEF PendInv, StageInv
    <2>2. a \in FrontArea(c) /\ Within(p, FrontArea(c))
      BY <2>1 DEF Arrives
    <2>3. c.load + Status \notin FrontArea(c)
      BY <2>1, FrontApart
    <2>4. m[c.load + Status] = Num(0)
      BY <2>1, <2>3, WithinOther, WordsIn, FinalIs
    <2>5. PendInv(c, l, w, p)
      BY <1>8, <2>2 DEF PendInv
    <2> QED
      BY <1>7, <2>1, <2>2, <2>4, <2>5
  <1>9. CASE l = "fence"
    <2>1. /\ Signals(q, FrontArea(c), c.load + Status, Num(1)) /\ m[c.load + Status] = Num(0)
          /\ Ahead(c, Seen(w, p)) /\ Clear(c)
      BY <1>4, <1>5, <1>9 DEF PendInv, StageInv, Ahead, Steady
    <2>2. CASE a = c.load + Status /\ x = Num(1) /\ p = << >>
      <3>1. a = c.load + Status /\ x = Num(1) /\ Seen(w, p) = w
        BY <2>2, SeenEmpty
      <3>2. \A o \in Polled : a # c.load + o
        BY <2>1, <3>1, StatusApart
      <3>3. Fixed(c, w) /\ w[c.load + Lottery] = m[c.load + Lottery]
        BY <1>3, <3>2, FixedKept DEF MemInv
      <3>4. ImageAt(c, w) /\ w[Run(c) + Status] \in Started
        BY <2>1, <3>1 DEF Ahead, Steady
      <3>5. CodeAt(c, w) /\ ~Done(c, w)
        BY <3>4, NumApart DEF CodeAt, ImageAt, Done
      <3>6. Moved(c, w)
        BY <1>3, <3>1, NumApart DEF Moved, Wrote
      <3>7. ~Done(c, m)
        <4>1. CASE Moves(c)
          BY <2>1, <4>1 DEF Done, Moved
        <4>2. CASE ~Moves(c)
          BY <2>1, <4>2, BuildIs, NumApart DEF Done
        <4> QED
          BY <4>1, <4>2
      <3>8. PendInv(c, l, w, p)
        BY <1>9, <2>2 DEF PendInv, Signals
      <3> QED
        BY <2>1, <3>3, <3>4, <3>5, <3>6, <3>7, <3>8 DEF MemInv, Started
    <2>3. CASE a \in FrontArea(c) /\ Signals(p, FrontArea(c), c.load + Status, Num(1))
      <3>1. a \in FrontArea(c)
        BY <2>3
      <3>2. /\ MemInv(c, w) /\ (Moved(c, m) => Moved(c, w)) /\ ~Done(c, m)
            /\ w[c.load + Lottery] = m[c.load + Lottery] /\ w[c.load + Status] = Num(0)
        BY <1>7, <2>1, <3>1
      <3>3. PendInv(c, l, w, p)
        BY <1>9, <2>3, <3>2 DEF PendInv
      <3> QED
        BY <3>2, <3>3
    <2> QED
      BY <2>1, <2>2, <2>3 DEF Arrives
  <1>10. ASSUME Clear(c), a \in BackArea(c) \cup TreeArea(c), m[Run(c) + Status] \in Started
         PROVE  /\ MemInv(c, w) /\ (Moved(c, m) => Moved(c, w)) /\ ~Done(c, m)
                /\ w[c.load + Lottery] = m[c.load + Lottery] /\ w[Run(c) + Status] = m[Run(c) + Status]
    <2>1. Spares(c, a)
      BY <1>10, BackApart, TreeSpares
    <2> QED
      BY <1>3, <1>10, <2>1, MemBack
  <1>11. CASE l \in {"bss", "info", "scratch", "fdt", "done"}
    <2>1. Within(q, BackArea(c) \cup TreeArea(c))
      BY <1>4, <1>11 DEF PendInv
    <2>2. Ahead(c, Seen(m, q))
      BY <1>4, <1>11 DEF StageInv
    <2>3. Clear(c) /\ Seen(m, q)[Run(c) + Status] \in Started
      BY <2>2 DEF Ahead, Steady
    <2>4. m[Run(c) + Status] \in Started
      BY <2>1, <2>3, BackOthers
    <2>5. a \in BackArea(c) \cup TreeArea(c) /\ Within(p, BackArea(c) \cup TreeArea(c))
      BY <2>1 DEF Arrives
    <2>6. PendInv(c, l, w, p)
      BY <1>11, <2>5 DEF PendInv
    <2> QED
      BY <1>10, <2>3, <2>4, <2>5, <2>6
  <1>12. CASE l = "fence2"
    <2>1. /\ Signals(q, BackArea(c) \cup TreeArea(c), Run(c) + Status, Num(2)) /\ m[Run(c) + Status] \in Started
          /\ Steady(c, Seen(w, p)) /\ HeadersAt(c, Seen(w, p), c.count) /\ TreeAt(c, Seen(w, p)) /\ Clear(c)
          /\ Seen(w, p)[Run(c) + Status] = Num(2)
      BY <1>4, <1>5, <1>12 DEF PendInv, StageInv, Steady
    <2>2. CASE a = Run(c) + Status /\ x = Num(2) /\ p = << >>
      <3>1. a = Run(c) + Status /\ x = Num(2) /\ Seen(w, p) = w
        BY <2>2, SeenEmpty
      <3>2. \A o \in Polled : a # c.load + o
        BY <2>1, <3>1, StatusApart
      <3>3. Fixed(c, w) /\ w[c.load + Lottery] = m[c.load + Lottery]
        BY <1>3, <3>2, FixedKept DEF MemInv
      <3>4. ImageAt(c, w) /\ Complete(c, w) /\ (Moves(c) => w[c.load + Status] = Num(1))
        BY <2>1, <3>1 DEF Steady, Complete
      <3>5. CodeAt(c, w) /\ Moved(c, w)
        BY <3>4, NumApart DEF CodeAt, ImageAt, Moved
      <3>6. ~Done(c, m)
        BY <2>1, NumApart DEF Done
      <3>7. PendInv(c, l, w, p)
        BY <1>12, <2>2 DEF PendInv, Signals
      <3> QED
        BY <2>1, <3>1, <3>3, <3>4, <3>5, <3>6, <3>7 DEF MemInv
    <2>3. CASE a \in BackArea(c) \cup TreeArea(c) /\ Signals(p, BackArea(c) \cup TreeArea(c), Run(c) + Status, Num(2))
      <3>1. a \in BackArea(c) \cup TreeArea(c)
        BY <2>3
      <3>2. /\ MemInv(c, w) /\ (Moved(c, m) => Moved(c, w)) /\ ~Done(c, m)
            /\ w[c.load + Lottery] = m[c.load + Lottery] /\ w[Run(c) + Status] \in Started
        BY <1>10, <2>1, <3>1
      <3>3. PendInv(c, l, w, p)
        BY <1>12, <2>3, <3>2 DEF PendInv
      <3> QED
        BY <3>2, <3>3
    <2> QED
      BY <2>1, <2>2, <2>3 DEF Arrives
  <1>13. \/ l \in {"save", "pic", "relocate", "stuck"} \/ l \in {"copy", "status"} \/ l = "fence"
         \/ l \in {"bss", "info", "scratch", "fdt", "done"} \/ l = "fence2"
    BY <1>4 DEF PendInv
  <1> QED
    BY <1>6, <1>8, <1>9, <1>11, <1>12, <1>13

LEMMA BootDrain ==
  ASSUME NEW c \in Builds, NEW m \in Memory, NEW q \in Entries, Len(q) > 0, NEW k, NEW l,
         BootInv(c, l, m, q, k), MemInv(c, m)
  PROVE  \E w \in Memory, p \in Entries :
           /\ w = [m EXCEPT ![q[1][1]] = q[1][2]] /\ p = Tail(q) /\ Len(p) = Len(q) - 1
           /\ MemInv(c, w) /\ BootInv(c, l, w, p, k)
           /\ (Moved(c, m) => Moved(c, w)) /\ ~Done(c, m) /\ w[c.load + Lottery] = m[c.load + Lottery]
  <1>1. PICK w \in Memory, p \in Entries :
          w = [m EXCEPT ![q[1][1]] = q[1][2]] /\ p = Tail(q) /\ Len(p) = Len(q) - 1 /\ Seen(w, p) = Seen(m, q)
    BY SeenDrain
  <1>2. PICK a \in 0 .. MemEnd - 1, x \in Value : a = q[1][1] /\ x = q[1][2]
    BY TailPend
  <1>3. Wrote(m, w, a, x)
    BY <1>1, <1>2, ExceptWrote
  <1>4. Arrives(q, p, a, x)
    <2>1. ASSUME NEW S, Within(q, S) PROVE a \in S /\ Within(p, S)
      BY <1>1, <1>2, <2>1, TailPend
    <2>2. ASSUME NEW S, NEW d, NEW y, Signals(q, S, d, y)
          PROVE  (a = d /\ x = y /\ p = << >>) \/ (a \in S /\ Signals(p, S, d, y))
      <3>1. (q[1] = <<d, y>> /\ p = << >>) \/ (q[1][1] \in S /\ Signals(p, S, d, y))
        BY <1>1, <2>2, TailPend
      <3> QED
        BY <1>2, <3>1
    <2> QED
      BY <2>1, <2>2 DEF Arrives
  <1>5. q # << >> /\ Seen(w, p) = Seen(m, q)
    BY <1>1
  <1>6. /\ MemInv(c, w) /\ PendInv(c, l, w, p)
        /\ (Moved(c, m) => Moved(c, w)) /\ ~Done(c, m) /\ w[c.load + Lottery] = m[c.load + Lottery]
    BY <1>3, <1>4, <1>5, BootArrives
  <1>7. BootInv(c, l, w, p, k)
    BY <1>1, <1>6 DEF BootInv
  <1> QED
    BY <1>1, <1>6, <1>7
-----------------------------------------------------------------------------
(* Writes of the other harts: the lottery, and the areas of the scratch    *)
(* spaces.                                                                 *)
Agree(v, w, S) ==
  /\ v \in Memory /\ w \in Memory
  /\ \A d \in 0 .. MemEnd - 1 : d \notin S => w[d] = v[d]

Unused(c, S) ==
  \A d \in S :
    /\ \A o \in (0 .. ImageLen - 1) \ {Lottery} : d # c.load + o /\ (Clear(c) => d # Run(c) + o)
    /\ Clear(c) => \A l \in 0 .. c.count - 1 : d # Space(c, l)
    /\ \A t \in {c.src, Arg(c)} : t # 0 => \A l \in 0 .. FdtLen - 1 : d # t + l

LEMMA UnusedKept ==
  ASSUME NEW c \in Builds, NEW S, Unused(c, S), NEW v, NEW w, Agree(v, w, S)
  PROVE  /\ \A o \in (0 .. ImageLen - 1) \ {Lottery} :
              w[c.load + o] = v[c.load + o] /\ (Clear(c) => w[Run(c) + o] = v[Run(c) + o])
         /\ Clear(c) => \A l \in 0 .. c.count - 1 : w[Space(c, l)] = v[Space(c, l)]
         /\ \A t \in {c.src, Arg(c)} : t # 0 => \A l \in 0 .. FdtLen - 1 : w[t + l] = v[t + l]
  <1>1. ASSUME NEW o \in (0 .. ImageLen - 1) \ {Lottery} PROVE w[c.load + o] = v[c.load + o]
    <2>1. c.load + o \notin S /\ c.load + o \in 0 .. MemEnd - 1
      BY <1>1, WordsIn DEF Unused
    <2> QED
      BY <2>1 DEF Agree
  <1>2. ASSUME Clear(c), NEW o \in (0 .. ImageLen - 1) \ {Lottery} PROVE w[Run(c) + o] = v[Run(c) + o]
    <2>1. Run(c) + o \notin S /\ Run(c) + o \in 0 .. MemEnd - 1
      BY <1>2, WordsIn DEF Unused
    <2> QED
      BY <2>1 DEF Agree
  <1>3. ASSUME Clear(c), NEW l \in 0 .. c.count - 1 PROVE w[Space(c, l)] = v[Space(c, l)]
    <2>1. Space(c, l) \notin S /\ Space(c, l) \in 0 .. MemEnd - 1
      BY <1>3, SpacesRun DEF Unused
    <2> QED
      BY <2>1 DEF Agree
  <1>4. ASSUME NEW t \in {c.src, Arg(c)}, t # 0, NEW l \in 0 .. FdtLen - 1 PROVE w[t + l] = v[t + l]
    <2>1. t + l \notin S
      BY <1>4 DEF Unused
    <2>2. t + l \in 0 .. MemEnd - 1
      BY <1>4, SrcIn
    <2> QED
      BY <2>1, <2>2 DEF Agree
  <1> QED
    BY <1>1, <1>2, <1>3, <1>4

LEMMA PartsKept ==
  ASSUME NEW c \in Builds, NEW S, Unused(c, S), NEW v, NEW w, Agree(v, w, S)
  PROVE  /\ Original(c, v) => Original(c, w)
         /\ SrcAt(c, v) => SrcAt(c, w)
         /\ w[c.load + LoadStart] = v[c.load + LoadStart] /\ w[c.load + Status] = v[c.load + Status]
         /\ TreeAt(c, v) => TreeAt(c, w)
         /\ Clear(c) =>
              /\ ImageAt(c, v) => ImageAt(c, w)
              /\ CodeAt(c, v) => CodeAt(c, w)
              /\ HeadersAt(c, v, c.count) => HeadersAt(c, w, c.count)
              /\ w[Run(c) + Status] = v[Run(c) + Status] /\ w[Run(c) + Info] = v[Run(c) + Info]
  <1> DEFINE O == (0 .. ImageLen - 1) \ {Lottery}
  <1>1. Words \subseteq O /\ {Status, LoadStart, Ptr, Info} \subseteq O
    BY FinalIs, Lengths DEF Words
  <1>2. \A o \in O : w[c.load + o] = v[c.load + o] /\ (Clear(c) => w[Run(c) + o] = v[Run(c) + o])
    BY UnusedKept
  <1>3. Clear(c) => \A l \in 0 .. c.count - 1 : w[Space(c, l)] = v[Space(c, l)]
    BY UnusedKept
  <1>4. \A t \in {c.src, Arg(c)} : t # 0 => \A l \in 0 .. FdtLen - 1 : w[t + l] = v[t + l]
    BY UnusedKept
  <1> HIDE DEF O
  <1>5. Original(c, v) => Original(c, w)
    BY <1>1, <1>2 DEF Original
  <1>6. SrcAt(c, v) => SrcAt(c, w)
    BY <1>4 DEF SrcAt
  <1>7. TreeAt(c, v) => TreeAt(c, w)
    BY <1>4 DEF TreeAt, TreeMoves
  <1>8. ASSUME Clear(c)
        PROVE  /\ ImageAt(c, v) => ImageAt(c, w)
               /\ CodeAt(c, v) => CodeAt(c, w)
               /\ HeadersAt(c, v, c.count) => HeadersAt(c, w, c.count)
    <2>1. ImageAt(c, v) => ImageAt(c, w)
      BY <1>1, <1>2, <1>8 DEF ImageAt
    <2>2. CodeAt(c, v) => CodeAt(c, w)
      BY <1>1, <1>2, <1>8 DEF CodeAt
    <2>3. HeadersAt(c, v, c.count) => HeadersAt(c, w, c.count)
      BY <1>3, <1>8 DEF HeadersAt
    <2> QED
      BY <2>1, <2>2, <2>3
  <1> QED
    BY <1>1, <1>2, <1>5, <1>6, <1>7, <1>8

LEMMA MemKept ==
  ASSUME NEW c \in Builds, NEW S, Unused(c, S), NEW v, NEW w, Agree(v, w, S), Fixed(c, w), MemInv(c, v)
  PROVE  MemInv(c, w) /\ (Moved(c, v) <=> Moved(c, w)) /\ (Done(c, v) <=> Done(c, w))
  <1>1. Moved(c, v) <=> Moved(c, w)
    BY PartsKept DEF Moved
  <1>2. ASSUME Moved(c, v) PROVE Clear(c) /\ CodeAt(c, w) /\ w[Run(c) + Status] = v[Run(c) + Status]
    BY <1>2, PartsKept DEF MemInv
  <1>3. Done(c, v) <=> Done(c, w)
    BY <1>1, <1>2 DEF Done
  <1>4. ASSUME Done(c, v) PROVE Complete(c, w)
    <2>1. Clear(c) /\ Complete(c, v)
      BY <1>2, <1>4 DEF Done, MemInv
    <2> QED
      BY <2>1, PartsKept DEF Complete
  <1> QED
    BY <1>1, <1>2, <1>3, <1>4 DEF MemInv

LEMMA StageKept ==
  ASSUME NEW c \in Builds, NEW S, Unused(c, S), NEW v, NEW w, Agree(v, w, S), NEW l, NEW k, StageInv(c, l, v, k)
  PROVE  StageInv(c, l, w, k)
  <1>1. Fresh(c, v) => Fresh(c, w)
    BY PartsKept DEF Fresh
  <1>2. Steady(c, v) => Steady(c, w)
    BY PartsKept DEF Steady
  <1>3. Ahead(c, v) => Ahead(c, w) /\ Clear(c) /\ (Informed(c, v) => Informed(c, w))
    BY <1>2, PartsKept DEF Ahead, Informed, Steady
  <1>4. CASE l \in {"save", "stuck", "pic", "relocate"}
    BY <1>1, <1>4, PartsKept DEF StageInv
  <1>5. CASE l = "copy"
    <2>1. Clear(c) /\ Copying(c, v, k) /\ v[c.load + Status] = Num(0) /\ SrcAt(c, v)
      BY <1>5 DEF StageInv
    <2>2. Run(c) = c.link
      BY <2>1 DEF Copying, Moves, Run
    <2>3. \A o \in Words \cup {Status} : w[c.load + o] = v[c.load + o] /\ w[c.link + o] = v[c.link + o]
      <3>1. \A o \in Words \cup {Status} : o \in (0 .. ImageLen - 1) \ {Lottery}
        BY FinalIs DEF Words
      <3> QED
        BY <2>1, <2>2, <3>1, UnusedKept
    <2>4. Copying(c, w, k)
      BY <2>1, <2>3 DEF Copying
    <2> QED
      BY <1>5, <2>1, <2>4, PartsKept DEF StageInv
  <1>6. CASE l = "status"
    BY <1>6, PartsKept DEF StageInv
  <1>7. CASE l \in {"fence", "bss", "info"}
    BY <1>3, <1>7, PartsKept DEF StageInv
  <1>8. CASE l = "scratch"
    <2>1. Ahead(c, v) /\ SrcAt(c, v) /\ Informed(c, v) /\ k \in 0 .. c.count - 1 /\ HeadersAt(c, v, k)
      BY <1>8 DEF StageInv
    <2>2. \A j \in 0 .. k - 1 : j \in 0 .. c.count - 1
      BY <2>1, BuildIs
    <2>3. HeadersAt(c, w, k)
      BY <1>3, <2>1, <2>2, UnusedKept DEF HeadersAt
    <2> QED
      BY <1>3, <1>8, <2>1, <2>3, PartsKept DEF StageInv
  <1>9. CASE l = "fdt"
    <2>1. Ahead(c, v) /\ Informed(c, v) /\ HeadersAt(c, v, c.count) /\ TreeCopying(c, v, k)
      BY <1>9 DEF StageInv
    <2>2. TreeCopying(c, w, k)
      <3>1. TreeMoves(c) => \A j \in 0 .. FdtLen - 1 : w[Arg(c) + j] = v[Arg(c) + j] /\ w[c.src + j] = v[c.src + j]
        BY UnusedKept DEF TreeMoves
      <3> QED
        BY <2>1, <3>1 DEF TreeCopying
    <2> QED
      BY <1>3, <1>9, <2>1, <2>2, PartsKept DEF StageInv
  <1>10. CASE l = "done"
    BY <1>3, <1>10, PartsKept DEF StageInv
  <1>11. CASE l = "fence2"
    <2>1. Clear(c)
      BY <1>11 DEF StageInv, Steady
    <2> QED
      BY <1>2, <1>11, <2>1, PartsKept DEF StageInv
  <1>12. \/ l \in {"save", "stuck", "pic", "relocate"} \/ l = "copy" \/ l = "status" \/ l \in {"fence", "bss", "info"}
         \/ l = "scratch" \/ l = "fdt" \/ l = "done" \/ l = "fence2"
    BY DEF StageInv
  <1> QED
    BY <1>4, <1>5, <1>6, <1>7, <1>8, <1>9, <1>10, <1>11, <1>12

LEMMA LotteryUnused ==
  ASSUME NEW c \in Builds
  PROVE  Unused(c, {c.load + Lottery})
  <1>1. PICK ld \in Nat, r \in Nat : ld = c.load /\ r = Run(c)
    BY BuildIs
  <1>2. Clear(c) => r = ld \/ r >= ld + 8 \/ r + FwLen <= ld
    BY <1>1, BuildIs DEF Clear
  <1>3. \A o \in (0 .. ImageLen - 1) \ {4} : ld + 4 # ld + o /\ (Clear(c) => ld + 4 # r + o)
    BY <1>1, <1>2, Lengths
  <1>4. ASSUME Clear(c), NEW l \in 0 .. c.count - 1 PROVE ld + 4 # Space(c, l)
    <2>1. 0 \in 0 .. ScratchSize - 1
      BY Lengths
    <2>2. Space(c, l) \in BackArea(c)
      BY <2>1, SpaceBack
    <2> QED
      BY <1>1, <1>4, <2>2, BackApart DEF Spares, Polled
  <1>5. \A t \in {c.src, Arg(c)} : t # 0 => \A l \in 0 .. FdtLen - 1 : ld + 4 # t + l
    BY <1>1, TreeApart DEF Spares, Polled
  <1> QED
    BY <1>1, <1>3, <1>4, <1>5 DEF Unused

(* The boot hart stores nothing to the word of the lottery.                *)
LEMMA LotteryAlone ==
  ASSUME NEW c \in Builds, NEW m \in Memory, NEW q \in Entries, NEW l, NEW k, BootInv(c, l, m, q, k)
  PROVE  \A j \in DOMAIN q : q[j][1] # c.load + Lottery
  <1>1. PendInv(c, l, m, q) /\ StageInv(c, l, Seen(m, q), k)
    BY DEF BootInv
  <1>2. Clear(c) => \A a \in FrontArea(c) \cup BackArea(c) \cup TreeArea(c) : a # c.load + Lottery
    BY FrontApart, BackApart, TreeSpares DEF Spares, Polled
  <1>3. CASE l \in {"save", "pic", "relocate", "stuck"}
    <2>1. Within(q, {c.load + LoadStart})
      BY <1>1, <1>3 DEF PendInv, Within
    <2>2. c.load + LoadStart # c.load + Lottery
      BY BuildIs
    <2> QED
      BY <2>1, <2>2 DEF Within
  <1>4. CASE l \in {"copy", "status"}
    BY <1>1, <1>2, <1>4 DEF PendInv, StageInv, Within
  <1>5. ASSUME NEW S, NEW a, NEW x, Signals(q, S, a, x), a # c.load + Lottery, c.load + Lottery \notin S
        PROVE  \A j \in DOMAIN q : q[j][1] # c.load + Lottery
    <2>1. PICK len \in Nat : len = Len(q) /\ DOMAIN q = 1 .. len
      BY DEF Entries
    <2>2. q # << >> => q[len] = <<a, x>> /\ \A j \in 1 .. len - 1 : q[j][1] \in S
      BY <1>5, <2>1 DEF Signals
    <2>3. ASSUME NEW j \in 1 .. len PROVE q[j][1] # c.load + Lottery
      <3>1. q # << >>
        BY <2>1, <2>3
      <3>2. CASE j = len
        BY <1>5, <2>2, <3>1, <3>2
      <3>3. CASE j # len
        <4>1. j \in 1 .. len - 1
          BY <2>1, <3>3
        <4> QED
          BY <1>5, <2>2, <3>1, <4>1
      <3> QED
        BY <3>2, <3>3
    <2> QED
      BY <2>1, <2>3
  <1>6. CASE l = "fence"
    <2>1. Signals(q, FrontArea(c), c.load + Status, Num(1)) /\ Clear(c)
      BY <1>1, <1>6 DEF PendInv, StageInv, Ahead, Steady
    <2>2. c.load + Status # c.load + Lottery
      BY BuildIs
    <2> QED
      BY <1>2, <1>5, <2>1, <2>2
  <1>7. CASE l \in {"bss", "info", "scratch", "fdt", "done"}
    <2>1. Within(q, BackArea(c) \cup TreeArea(c))
      BY <1>1, <1>7 DEF PendInv
    <2>2. Ahead(c, Seen(m, q))
      BY <1>1, <1>7 DEF StageInv
    <2> QED
      BY <1>2, <2>1, <2>2 DEF Within, Ahead, Steady
  <1>8. CASE l = "fence2"
    <2>1. Signals(q, BackArea(c) \cup TreeArea(c), Run(c) + Status, Num(2)) /\ Clear(c)
      BY <1>1, <1>8 DEF PendInv, StageInv, Steady
    <2>2. Run(c) + Status # c.load + Lottery
      BY <2>1, StatusApart DEF Polled
    <2> QED
      BY <1>2, <1>5, <2>1, <2>2
  <1>9. \/ l \in {"save", "pic", "relocate", "stuck"} \/ l \in {"copy", "status"} \/ l = "fence"
        \/ l \in {"bss", "info", "scratch", "fdt", "done"} \/ l = "fence2"
    BY <1>1 DEF PendInv
  <1> QED
    BY <1>3, <1>4, <1>6, <1>7, <1>8, <1>9

LEMMA BootLottery ==
  ASSUME NEW c \in Builds, NEW m \in Memory, NEW q \in Entries, NEW l, NEW k, BootInv(c, l, m, q, k),
         NEW x \in Value
  PROVE  BootInv(c, l, [m EXCEPT ![c.load + Lottery] = x], q, k)
  <1>1. PICK a \in 0 .. MemEnd - 1 : a = c.load + Lottery
    BY WordsIn, FinalIs
  <1>2. \A j \in DOMAIN q : q[j][1] # a
    BY <1>1, LotteryAlone
  <1>3. PICK w \in Memory : w = [m EXCEPT ![a] = x] /\ Seen(w, q) = [Seen(m, q) EXCEPT ![a] = x]
    <2>1. [m EXCEPT ![a] = x] \in Memory /\ Seen([m EXCEPT ![a] = x], q) = [Seen(m, q) EXCEPT ![a] = x]
      BY <1>2, SeenWrite
    <2> QED
      BY <2>1
  <1>4. Agree(m, w, {a})
    BY <1>3 DEF Agree, Memory
  <1>5. Agree(Seen(m, q), Seen(w, q), {a})
    <2>1. Seen(m, q) \in Memory
      BY SeenType
    <2>2. Wrote(Seen(m, q), [Seen(m, q) EXCEPT ![a] = x], a, x)
      BY <2>1, ExceptWrote
    <2>3. Wrote(Seen(m, q), Seen(w, q), a, x)
      BY <1>3, <2>2
    <2> QED
      BY <2>3 DEF Wrote, Agree
  <1>6. Unused(c, {a})
    BY <1>1, LotteryUnused
  <1>7. StageInv(c, l, Seen(w, q), k)
    BY <1>5, <1>6, StageKept DEF BootInv
  <1>8. w[c.load + Status] = m[c.load + Status] /\ (Clear(c) => w[Run(c) + Status] = m[Run(c) + Status])
    BY <1>4, <1>6, PartsKept
  <1>9. l = "fence2" => Clear(c)
    BY DEF BootInv, StageInv, Steady
  <1>10. PendInv(c, l, m, q)
    BY DEF BootInv
  <1>11. PendInv(c, l, w, q)
    <2>1. CASE l = "fence"
      BY <1>8, <1>10, <2>1 DEF PendInv
    <2>2. CASE l = "fence2"
      BY <1>8, <1>9, <1>10, <2>2 DEF PendInv
    <2>3. CASE l \notin {"fence", "fence2"}
      BY <1>10, <2>3 DEF PendInv
    <2> QED
      BY <2>1, <2>2, <2>3
  <1> QED
    BY <1>1, <1>3, <1>7, <1>11 DEF BootInv

LEMMA MemLottery ==
  ASSUME NEW c \in Builds, NEW m \in Memory, MemInv(c, m), NEW y \in Nat
  PROVE  \E w \in Memory :
           /\ w = [m EXCEPT ![c.load + Lottery] = Num(y)] /\ MemInv(c, w) /\ w[c.load + Lottery] = Num(y)
           /\ (Moved(c, m) <=> Moved(c, w)) /\ (Done(c, m) <=> Done(c, w))
           /\ Agree(m, w, {c.load + Lottery})
  <1>1. PICK a \in 0 .. MemEnd - 1, x \in Value : a = c.load + Lottery /\ x = Num(y)
    BY WordsIn, FinalIs, NumType
  <1>2. PICK w : w = [m EXCEPT ![a] = x]
    OBVIOUS
  <1>3. Wrote(m, w, a, x)
    BY <1>2, ExceptWrote
  <1>4. Agree(m, w, {a}) /\ w \in Memory /\ w[a] = x
    BY <1>3 DEF Wrote, Agree
  <1>5. \A o \in 0 .. 3 : c.load + o # a
    BY <1>1, BuildIs
  <1>6. c.load + LinkStart # a
    BY <1>1, BuildIs
  <1>7. Fixed(c, w)
    <2>1. \A o \in 0 .. 3 : w[c.load + o] = m[c.load + o]
      BY <1>4, <1>5, WordsIn, Lengths DEF Agree
    <2>2. w[c.load + LinkStart] = m[c.load + LinkStart]
      BY <1>4, <1>6, WordsIn, FinalIs DEF Agree
    <2>3. w[c.load + Lottery] \in {"num"} \X Nat
      BY <1>1, <1>4 DEF Num
    <2> QED
      BY <2>1, <2>2, <2>3 DEF MemInv, Fixed
  <1>8. MemInv(c, w) /\ (Moved(c, m) <=> Moved(c, w)) /\ (Done(c, m) <=> Done(c, w))
    BY <1>1, <1>4, <1>7, LotteryUnused, MemKept
  <1> QED
    BY <1>1, <1>2, <1>4, <1>8

(* Once the boot hart's work is visible there is nothing left to arrive.   *)
LEMMA BootQuiet ==
  ASSUME NEW c \in Builds, NEW m \in Memory, NEW q \in Entries, NEW l, NEW k, BootInv(c, l, m, q, k), MemInv(c, m),
         Done(c, m)
  PROVE  l = "fence2" /\ q = << >>
  <1>1. q = << >>
    <2>1. Len(q) \in Nat /\ (Len(q) = 0 => q = << >>)
      BY DEF Entries
    <2>2. ~(Len(q) > 0)
      BY BootDrain
    <2> QED
      BY <2>1, <2>2
  <1>2. StageInv(c, l, m, k)
    BY <1>1, SeenEmpty DEF BootInv
  <1>3. m[Run(c) + Status] = Num(2) /\ m[c.load + Status] # Num(0)
    BY BuildIs, NumApart DEF Done, Moved
  <1>4. ~Original(c, m) /\ ~Ahead(c, m)
    BY <1>3, NumApart DEF Original, Ahead
  <1>5. l = "fence2"
    BY <1>2, <1>3, <1>4 DEF StageInv, Fresh
  <1> QED
    BY <1>1, <1>5
-----------------------------------------------------------------------------
(* The steps.                                                              *)
LEMMA StateIs ==
  ASSUME FwInv, NEW h \in Harts
  PROVE  /\ b \in Builds /\ mem \in Memory /\ buf[h] \in Entries /\ MemInv(b, mem)
         /\ (Boots(h) => BootInv(b, pc[h], mem, buf[h], n) /\ mem[b.load + Lottery] # Num(0))
         /\ (~Boots(h) => buf[h] = << >>)
         /\ base[h] = (IF pc[h] \in Early \cup Before \cup {"copy"} THEN b.load ELSE Run(b))
  BY DEF FwInv, TypeInv, BaseInv, HartInv, Memory, Entries

LEMMA LoadIs ==
  ASSUME FwInv, NEW h \in Harts, NEW a \in 0 .. MemEnd - 1
  PROVE  /\ Load(h, a) = Seen(mem, buf[h])[a]
         /\ buf[h] = << >> => Load(h, a) = mem[a]
  <1>1. mem \in Memory /\ DOMAIN mem = 0 .. MemEnd - 1
    BY StateIs DEF Memory
  <1>2. Load(h, a) = Seen(mem, buf[h])[a]
    BY <1>1 DEF Load, Seen, View
  <1>3. buf[h] = << >> => Load(h, a) = mem[a]
    BY <1>1, <1>2, SeenEmpty
  <1> QED
    BY <1>2, <1>3

LEMMA FreshWaits ==
  ASSUME NEW c \in Builds, NEW m, Original(c, m)
  PROVE  ~Done(c, m)
  BY BuildIs, NumApart DEF Original, Done, Moved

(* A step that changes neither memory nor the tables.                      *)
Quiet == mem' = mem /\ b' = b /\ table' = table /\ extra' = extra /\ allocs' = allocs

LEMMA QuietRest ==
  ASSUME FwInv, Quiet
  PROVE  MemInv(b, mem)' /\ AllocInv' /\ (\A h : HartIndex(h)' = HartIndex(h)) /\ (\A h : Known(h)' = Known(h))
  <1>1. MemInv(b, mem)'
    BY DEF FwInv, Quiet
  <1>2. (\A h : HartIndex(h)' = HartIndex(h)) /\ (\A h : Known(h)' = Known(h))
    BY DEF Quiet, HartIndex, Known
  <1>3. AllocInv'
    BY <1>2 DEF FwInv, Quiet, AllocInv, AllocsSound
  <1> QED
    BY <1>1, <1>2, <1>3

(* The boot hart goes on.                                                  *)
LEMMA BootStep ==
  ASSUME FwInv, Quiet, UNCHANGED scratch, NEW h \in Harts, Boots(h),
         NEW l \in BootLabels, pc' = [pc EXCEPT ![h] = l],
         NEW p \in Entries, Len(p) <= BufMax, buf' = [buf EXCEPT ![h] = p],
         NEW r, base' = [base EXCEPT ![h] = r],
         r = IF l \in Before \cup {"copy"} THEN b.load ELSE Run(b),
         n' \in 0 .. MemEnd, BootInv(b, l, mem, p, n')
  PROVE  FwInv'
  <1>1. b' = b /\ mem' = mem /\ ~b.badInfo /\ b \in Builds
    BY StateIs DEF Quiet, Boots
  <1>2. /\ \A g \in Harts : pc'[g] = IF g = h THEN l ELSE pc[g]
        /\ \A g \in Harts : buf'[g] = IF g = h THEN p ELSE buf[g]
        /\ \A g \in Harts : base'[g] = IF g = h THEN r ELSE base[g]
    BY DEF FwInv, TypeInv
  <1>3. \A g \in Harts : Boots(g)' <=> Boots(g)
    BY <1>1, <1>2 DEF Boots, BootLabels
  <1>4. l \in Labels /\ l \notin Early /\ l \notin Late /\ l # "wait" /\ l # "init"
    BY DEF BootLabels, Before, Front, Back, Labels, Early, Late
  <1>5. TypeInv'
    <2>1. r \in {b.load, b.link}
      BY <1>1 DEF Run
    <2>2. pc' \in [Harts -> Labels] /\ base' \in [Harts -> {b.load, b.link}]
      BY <1>4, <2>1 DEF FwInv, TypeInv
    <2>3. buf' \in [Harts -> Seq((0 .. MemEnd - 1) \X Value)] /\ \A g \in Harts : Len(buf'[g]) <= BufMax
      <3>1. buf' \in [Harts -> Seq((0 .. MemEnd - 1) \X Value)]
        BY DEF FwInv, TypeInv, Entries
      <3> QED
        BY <1>2, <3>1 DEF FwInv, TypeInv
    <2> QED
      BY <1>1, <2>2, <2>3 DEF FwInv, TypeInv
  <1>6. BaseInv'
    BY <1>1, <1>2, <1>4 DEF FwInv, BaseInv
  <1>7. HartInv'
    <2>1. \A g \in Harts : ~Boots(g)' => buf'[g] = << >>
      BY <1>2, <1>3 DEF FwInv, HartInv
    <2>2. \A g, f \in Harts : Boots(g)' /\ Boots(f)' => g = f
      BY <1>3 DEF FwInv, HartInv
    <2>3. \A g \in Harts : Boots(g)' => BootInv(b', pc'[g], mem', buf'[g], n')
      <3>1. ASSUME NEW g \in Harts, Boots(g)' PROVE BootInv(b', pc'[g], mem', buf'[g], n')
        <4>1. g = h
          BY <1>3, <3>1 DEF FwInv, HartInv
        <4> QED
          BY <1>1, <1>2, <4>1
      <3> QED
        BY <3>1
    <2>4. \A g \in Harts : pc'[g] = "wait" => Moved(b', mem')
      BY <1>1, <1>2, <1>4 DEF FwInv, HartInv
    <2>5. \A g \in Harts : pc'[g] \in Late => Done(b', mem')
      BY <1>1, <1>2, <1>4 DEF FwInv, HartInv
    <2>6. mem'[b'.load + Lottery] # Num(0)
      BY <1>1, StateIs
    <2> QED
      BY <1>1, <2>1, <2>2, <2>3, <2>4, <2>5, <2>6 DEF HartInv
  <1>8. TableInv'
    <2>1. \A g \in Harts : pc'[g] = "init" => HartIndex(g)' < b'.count /\ scratch'[g] = Space(b', HartIndex(g)')
      BY <1>1, <1>2, <1>4, QuietRest DEF FwInv, TableInv
    <2>2. table' # None => Done(b', mem')
      BY <1>1 DEF FwInv, TableInv, Quiet
    <2>3. table' # None =>
            table' = [g \in Harts |-> IF Known(g)' THEN Run(b') + FwLen + (b'.count - HartIndex(g)') * StackSize - ScratchSize
                                      ELSE 0]
      BY <1>1, QuietRest DEF FwInv, TableInv, Quiet
    <2> QED
      BY <2>1, <2>2, <2>3 DEF TableInv
  <1> QED
    BY <1>5, <1>6, <1>7, <1>8, QuietRest DEF FwInv

(* A hart without stores on their way goes to a label where it has none.   *)
LEMMA HartStep ==
  ASSUME FwInv, Quiet, UNCHANGED <<buf, n>>, NEW h \in Harts, buf[h] = << >>,
         NEW l \in Labels, pc' = [pc EXCEPT ![h] = l], l \in BootLabels => b.badInfo,
         NEW r, base' = [base EXCEPT ![h] = r], r = IF l \in Early \cup {"stuck"} THEN b.load ELSE Run(b),
         b.badInfo => l \in {"off", "start", "stuck"},
         l = "wait" => Moved(b, mem), l \in Late => Done(b, mem),
         DOMAIN scratch' = Harts, \A g \in Harts \ {h} : scratch'[g] = scratch[g],
         l = "init" => HartIndex(h) < b.count /\ scratch'[h] = Space(b, HartIndex(h))
  PROVE  FwInv'
  <1>1. b' = b /\ mem' = mem /\ b \in Builds /\ buf' = buf /\ n' = n
    BY StateIs DEF Quiet
  <1>2. /\ \A g \in Harts : pc'[g] = IF g = h THEN l ELSE pc[g]
        /\ \A g \in Harts : base'[g] = IF g = h THEN r ELSE base[g]
    BY DEF FwInv, TypeInv
  <1>3. \A g \in Harts : Boots(g)' => Boots(g) /\ g # h
    BY <1>1, <1>2 DEF Boots, BootLabels
  <1>4. ~Boots(h)' /\ \A g \in Harts \ {h} : Boots(g)' <=> Boots(g)
    BY <1>1, <1>2 DEF Boots, BootLabels
  <1>5. TypeInv'
    <2>1. r \in {b.load, b.link}
      BY <1>1 DEF Run
    <2>2. pc' \in [Harts -> Labels] /\ base' \in [Harts -> {b.load, b.link}]
      BY <2>1 DEF FwInv, TypeInv
    <2> QED
      BY <1>1, <2>2 DEF FwInv, TypeInv
  <1>6. BaseInv'
    <2>1. l \in Before \cup {"copy"} => l = "stuck"
      BY DEF BootLabels, Front, Before
    <2>2. "stuck" \in Before
      BY DEF Before
    <2> QED
      BY <1>1, <1>2, <2>1, <2>2 DEF FwInv, BaseInv
  <1>7. HartInv'
    <2>1. \A g \in Harts : ~Boots(g)' => buf'[g] = << >>
      BY <1>1, <1>4 DEF FwInv, HartInv
    <2>2. \A g, f \in Harts : Boots(g)' /\ Boots(f)' => g = f
      BY <1>3 DEF FwInv, HartInv
    <2>3. \A g \in Harts : Boots(g)' => BootInv(b', pc'[g], mem', buf'[g], n')
      BY <1>1, <1>2, <1>3 DEF FwInv, HartInv
    <2>4. \A g \in Harts : pc'[g] = "wait" => Moved(b', mem')
      BY <1>1, <1>2 DEF FwInv, HartInv
    <2>5. \A g \in Harts : pc'[g] \in Late => Done(b', mem')
      BY <1>1, <1>2 DEF FwInv, HartInv
    <2>6. ASSUME mem'[b'.load + Lottery] = Num(0)
          PROVE  (\A g \in Harts : ~Boots(g)' /\ pc'[g] \notin Late) /\ Original(b', mem') /\ SrcAt(b', mem')
      <3>1. (\A g \in Harts : ~Boots(g) /\ pc[g] \notin Late) /\ Original(b, mem) /\ SrcAt(b, mem)
        BY <1>1, <2>6 DEF FwInv, HartInv
      <3>2. l \notin Late
        BY <1>1, <3>1, FreshWaits
      <3> QED
        BY <1>1, <1>2, <1>3, <3>1, <3>2
    <2>7. b'.badInfo => \A g \in Harts : pc'[g] \in {"off", "start", "stuck"}
      BY <1>1, <1>2 DEF FwInv, HartInv
    <2> QED
      BY <2>1, <2>2, <2>3, <2>4, <2>5, <2>6, <2>7 DEF HartInv
  <1>8. TableInv'
    <2>1. \A g \in Harts : pc'[g] = "init" => HartIndex(g)' < b'.count /\ scratch'[g] = Space(b', HartIndex(g)')
      BY <1>1, <1>2, QuietRest DEF FwInv, TableInv
    <2>2. table' # None => Done(b', mem')
      BY <1>1 DEF FwInv, TableInv, Quiet
    <2>3. table' # None =>
            table' = [g \in Harts |-> IF Known(g)' THEN Run(b') + FwLen + (b'.count - HartIndex(g)') * StackSize - ScratchSize
                                      ELSE 0]
      BY <1>1, QuietRest DEF FwInv, TableInv, Quiet
    <2> QED
      BY <2>1, <2>2, <2>3 DEF TableInv
  <1> QED
    BY <1>5, <1>6, <1>7, <1>8, QuietRest DEF FwInv

(* The index of a hart.                                                    *)
LEMMA IndexIs ==
  ASSUME b \in Builds, NEW h \in Harts
  PROVE  /\ HartIndex(h) \in Int /\ -1 <= HartIndex(h)
         /\ Known(h) <=> 0 <= HartIndex(h) /\ HartIndex(h) < b.count
         /\ \A g \in Harts : HartIndex(g) = HartIndex(h) /\ HartIndex(h) >= 0 => g = h
  <1>1. \A g \in Harts : g \in Nat
    BY FwAssumption
  <1>2. b.count \in Nat /\ (b.index2id # None => b.index2id \in Seq(Int))
    BY BuildIs
  <1>3. CASE b.index2id = None
    BY <1>1, <1>2, <1>3 DEF HartIndex, Known
  <1>4. CASE b.index2id # None
    <2> DEFINE at(g) == {k \in 1 .. b.count : b.index2id[k] = g}
    <2>1. ASSUME NEW g \in Harts
          PROVE  (HartIndex(g) = -1) \/ (HartIndex(g) + 1 \in 1 .. b.count /\ HartIndex(g) \in Int /\ b.index2id[HartIndex(g) + 1] = g)
      <3>1. CASE at(g) = {}
        BY <1>4, <3>1 DEF HartIndex
      <3>2. CASE at(g) # {}
        <4>1. at(g) \in SUBSET Nat
          BY <1>2
        <4>2. PICK x \in at(g) : x = Min(at(g))
          <5> HIDE DEF at
          <5> QED
            BY <3>2, <4>1, MinIn
        <4>3. HartIndex(g) = x - 1
          BY <1>4, <3>2, <4>2 DEF HartIndex
        <4>4. x \in 1 .. b.count /\ b.index2id[x] = g /\ (x - 1) + 1 = x
          BY <1>2, <4>2
        <4> QED
          BY <4>3, <4>4
      <3> QED
        BY <3>1, <3>2
    <2> HIDE DEF at
    <2>2. HartIndex(h) \in Int /\ -1 <= HartIndex(h)
      BY <1>2, <2>1
    <2>3. ASSUME NEW g \in Harts, HartIndex(g) = HartIndex(h), HartIndex(h) >= 0 PROVE g = h
      BY <2>1, <2>3
    <2> QED
      BY <1>2, <2>2, <2>3 DEF Known
  <1> QED
    BY <1>3, <1>4
-----------------------------------------------------------------------------
LEMMA WordIs ==
  ASSUME FwInv, NEW h \in Harts, NEW o \in 0 .. ImageLen - 1
  PROVE  /\ Word(h, o) = Seen(mem, buf[h])[base[h] + o][2]
         /\ Load(h, base[h] + o) = Seen(mem, buf[h])[base[h] + o]
         /\ buf[h] = << >> => Word(h, o) = mem[base[h] + o][2] /\ Load(h, base[h] + o) = mem[base[h] + o]
  <1>1. base[h] + o \in 0 .. MemEnd - 1
    BY StateIs, WordsIn
  <1> QED
    BY <1>1, LoadIs DEF Word

LEMMA WordNum ==
  ASSUME FwInv, NEW h \in Harts, NEW o \in 0 .. ImageLen - 1, NEW x, Seen(mem, buf[h])[base[h] + o] = Num(x)
  PROVE  Word(h, o) = x
  <1>1. Word(h, o) = Num(x)[2]
    BY WordIs
  <1> QED
    BY <1>1, ValueOf

LEMMA OffsetsIn ==
  {0, 1, 2, 3, Lottery, Status, LoadStart, LinkStart, Info, Ptr} \subseteq 0 .. ImageLen - 1
  BY Lengths

(* Harts that do not boot the others.                                      *)
LEMMA EnterStep ==
  ASSUME FwInv, NEW h \in Harts, Enter(h)
  PROVE  FwInv'
  <1>1. ~Boots(h) /\ pc[h] = "off"
    BY DEF Enter, Boots, Before, Front, Back
  <1>2. base[h] = b.load /\ buf[h] = << >>
    BY <1>1, StateIs DEF Early
  <1>3. base' = [base EXCEPT ![h] = b.load]
    BY <1>2 DEF Enter, FwInv, TypeInv
  <1> QED
    BY <1>2, <1>3, HartStep
    DEF Enter, Goto, Quiet, allocVars, Labels, BootLabels, Before, Front, Back, Early, Late, FwInv, TypeInv

LEMMA StartStep ==
  ASSUME FwInv, NEW h \in Harts, Start(h)
  PROVE  FwInv'
  <1>1. ~Boots(h) /\ pc[h] = "start"
    BY DEF Start, Boots, Before, Front, Back
  <1>2. base[h] = b.load /\ buf[h] = << >>
    BY <1>1, StateIs DEF Early
  <1>3. base' = [base EXCEPT ![h] = b.load]
    BY <1>2 DEF Start, FwInv, TypeInv
  <1>4. PICK l \in {"stuck", "lottery", "waitcopy"} : pc' = [pc EXCEPT ![h] = l] /\ (b.badInfo <=> l = "stuck")
    <2>1. CASE b.badInfo
      BY <2>1 DEF Start, Goto
    <2>2. CASE ~b.badInfo /\ b.info \in {None, h}
      BY <2>2 DEF Start, Goto
    <2>3. CASE ~b.badInfo /\ b.info \notin {None, h}
      BY <2>3 DEF Start, Goto
    <2> QED
      BY <2>1, <2>2, <2>3
  <1>5. Quiet /\ UNCHANGED <<buf, n, scratch>> /\ DOMAIN scratch' = Harts
    BY DEF Start, Quiet, allocVars, FwInv, TypeInv
  <1>6. l \in Labels /\ l \in Early \cup {"stuck"} /\ l \notin Late /\ l # "wait" /\ l # "init" /\ (l \in BootLabels => l = "stuck")
    BY DEF Labels, BootLabels, Before, Front, Back, Early, Late
  <1> QED
    BY <1>2, <1>3, <1>4, <1>5, <1>6, HartStep

LEMMA WaitRelocateStep ==
  ASSUME FwInv, NEW h \in Harts, WaitRelocateCopyDone(h)
  PROVE  FwInv'
  <1>1. ~Boots(h) /\ pc[h] = "waitcopy"
    BY DEF WaitRelocateCopyDone, Boots, Before, Front, Back
  <1>2. base[h] = b.load /\ buf[h] = << >> /\ b \in Builds /\ MemInv(b, mem) /\ ~b.badInfo
    BY <1>1, StateIs DEF Early, FwInv, HartInv
  <1>3. Word(h, LinkStart) = b.link
    <2>1. mem[b.load + LinkStart] = Num(b.link)
      BY <1>2 DEF MemInv, Fixed
    <2>2. Word(h, LinkStart) = mem[b.load + LinkStart][2]
      BY <1>2, WordIs, OffsetsIn
    <2> QED
      BY <2>1, <2>2, ValueOf
  <1>4. Word(h, Status) = mem[b.load + Status][2]
    BY <1>2, WordIs, OffsetsIn
  <1>5. base' = [base EXCEPT ![h] = Run(b)]
    BY <1>2, <1>3 DEF WaitRelocateCopyDone, FwInv, TypeInv, Run
  <1>6. Moved(b, mem)
    <2>1. Moves(b) => ~b.pic /\ base[h] # b.link
      BY <1>2 DEF Moves
    <2>2. Moves(b) => mem[b.load + Status][2] >= 1
      BY <1>3, <1>4, <2>1 DEF WaitRelocateCopyDone
    <2>3. Num(0)[2] = 0
      BY ValueOf
    <2> QED
      BY <2>2, <2>3 DEF Moved
  <1>7. Quiet /\ UNCHANGED <<buf, n, scratch>> /\ pc' = [pc EXCEPT ![h] = "wait"]
    BY DEF WaitRelocateCopyDone, Goto, Quiet, allocVars
  <1>8. DOMAIN scratch' = Harts
    BY <1>7 DEF FwInv, TypeInv
  <1> QED
    BY <1>2, <1>5, <1>6, <1>7, <1>8, HartStep DEF Labels, BootLabels, Before, Front, Back, Early, Late

LEMMA WaitForBootStep ==
  ASSUME FwInv, NEW h \in Harts, WaitForBootHart(h)
  PROVE  FwInv'
  <1>1. ~Boots(h) /\ pc[h] = "wait"
    BY DEF WaitForBootHart, Boots, Before, Front, Back
  <1>2. /\ base[h] = Run(b) /\ buf[h] = << >> /\ b \in Builds /\ MemInv(b, mem) /\ ~b.badInfo /\ Moved(b, mem)
    BY <1>1, StateIs DEF Early, Before, FwInv, HartInv
  <1>3. mem[Run(b) + Status][2] = 2
    BY <1>2, WordIs, OffsetsIn DEF WaitForBootHart
  <1>4. mem[Run(b) + Status] \in {Num(0), Num(1), Num(2)}
    BY <1>2 DEF MemInv
  <1>5. Done(b, mem)
    <2>1. Num(0)[2] # 2 /\ Num(1)[2] # 2
      BY ValueOf
    <2> QED
      BY <1>2, <1>3, <1>4, <2>1 DEF Done
  <1>6. base' = [base EXCEPT ![h] = Run(b)]
    BY <1>2 DEF WaitForBootHart, FwInv, TypeInv
  <1>7. Quiet /\ UNCHANGED <<buf, n, scratch>> /\ pc' = [pc EXCEPT ![h] = "warm"]
    BY DEF WaitForBootHart, Goto, Quiet, allocVars
  <1>8. DOMAIN scratch' = Harts
    BY <1>7 DEF FwInv, TypeInv
  <1> QED
    BY <1>2, <1>5, <1>6, <1>7, <1>8, HartStep DEF Labels, BootLabels, Before, Front, Back, Early, Late

LEMMA LateIs ==
  ASSUME FwInv, NEW h \in Harts, pc[h] \in Late
  PROVE  /\ base[h] = Run(b) /\ buf[h] = << >> /\ ~b.badInfo /\ Done(b, mem) /\ Complete(b, mem) /\ Clear(b)
         /\ ~Boots(h)
  <1>1. ~Boots(h) /\ pc[h] \notin Early \cup Before \cup {"copy"}
    BY DEF Boots, Before, Front, Back, Late, Early
  <1>2. ~b.badInfo /\ Done(b, mem)
    BY DEF FwInv, HartInv, Late
  <1> QED
    BY <1>1, <1>2, StateIs DEF MemInv, Done

LEMMA StartWarmStep ==
  ASSUME FwInv, NEW h \in Harts, StartWarm(h)
  PROVE  FwInv'
  <1>1. pc[h] = "warm"
    BY DEF StartWarm
  <1>2. base[h] = Run(b) /\ buf[h] = << >> /\ ~b.badInfo /\ Done(b, mem)
    BY <1>1, LateIs DEF Late
  <1>3. base' = [base EXCEPT ![h] = Run(b)]
    BY <1>2 DEF StartWarm, FwInv, TypeInv
  <1>4. Quiet /\ UNCHANGED <<buf, n>>
    BY DEF StartWarm, Quiet, allocVars
  <1>5. CASE HartIndex(h) >= b.count
    <2>1. pc' = [pc EXCEPT ![h] = "hang"] /\ UNCHANGED scratch /\ DOMAIN scratch = Harts
      BY <1>5 DEF StartWarm, Goto, FwInv, TypeInv
    <2> QED
      BY <1>2, <1>3, <1>4, <2>1, HartStep DEF Labels, BootLabels, Before, Front, Back, Early, Late
  <1>6. CASE ~(HartIndex(h) >= b.count)
    <2>1. pc' = [pc EXCEPT ![h] = "init"] /\ scratch' = [scratch EXCEPT ![h] = ScratchAddr(h, HartIndex(h))]
      BY <1>6 DEF StartWarm, Goto
    <2>2. DOMAIN scratch' = Harts /\ scratch'[h] = ScratchAddr(h, HartIndex(h)) /\ \A g \in Harts \ {h} : scratch'[g] = scratch[g]
      BY <2>1 DEF FwInv, TypeInv
    <2>3. ScratchAddr(h, HartIndex(h)) = Space(b, HartIndex(h))
      BY <1>2 DEF ScratchAddr, Space
    <2>4. HartIndex(h) < b.count
      BY <1>6, IndexIs, StateIs, BuildIs
    <2> QED
      BY <1>2, <1>3, <1>4, <2>1, <2>2, <2>3, <2>4, HartStep DEF Labels, BootLabels, Before, Front, Back, Early, Late
  <1> QED
    BY <1>5, <1>6

LEMMA RestartStep ==
  ASSUME FwInv, NEW h \in Harts, Restart(h)
  PROVE  FwInv'
  <1>1. pc[h] = "init"
    BY DEF Restart
  <1>2. base[h] = Run(b) /\ buf[h] = << >> /\ ~b.badInfo /\ Done(b, mem)
    BY <1>1, LateIs DEF Late
  <1>3. base' = [base EXCEPT ![h] = Run(b)] /\ DOMAIN scratch' = Harts
    BY <1>2 DEF Restart, FwInv, TypeInv
  <1>4. Quiet /\ UNCHANGED <<buf, n, scratch>> /\ pc' = [pc EXCEPT ![h] = "warm"]
    BY DEF Restart, Goto, Quiet, allocVars
  <1> QED
    BY <1>2, <1>3, <1>4, HartStep DEF Labels, BootLabels, Before, Front, Back, Early, Late

LEMMA BootHartFenceStep ==
  ASSUME FwInv, NEW h \in Harts, BootHartFence(h)
  PROVE  FwInv'
  <1>1. pc[h] = "fence2" /\ buf[h] = << >>
    BY DEF BootHartFence, Fence
  <1>2. ~b.badInfo /\ b \in Builds /\ mem \in Memory /\ base[h] = Run(b)
    BY <1>1, StateIs DEF FwInv, HartInv, Early, Before
  <1>3. BootInv(b, "fence2", mem, << >>, n)
    BY <1>1, <1>2, StateIs DEF Boots, Back
  <1>4. Done(b, mem)
    <2>1. StageInv(b, "fence2", mem, n)
      BY <1>2, <1>3, SeenEmpty DEF BootInv
    <2> QED
      BY <2>1, NumApart DEF StageInv, Steady, Done, Moved
  <1>5. base' = [base EXCEPT ![h] = Run(b)] /\ DOMAIN scratch' = Harts
    BY <1>2 DEF BootHartFence, FwInv, TypeInv
  <1>6. Quiet /\ UNCHANGED <<buf, n, scratch>> /\ pc' = [pc EXCEPT ![h] = "warm"]
    BY DEF BootHartFence, Fence, Goto, Quiet, allocVars
  <1> QED
    BY <1>1, <1>2, <1>4, <1>5, <1>6, HartStep DEF Labels, BootLabels, Before, Front, Back, Early, Late
-----------------------------------------------------------------------------
(* The hart that boots the others.                                         *)
LEMMA BootIs ==
  ASSUME FwInv, NEW h \in Harts, pc[h] \in BootLabels, pc[h] # "stuck"
  PROVE  /\ b \in Builds /\ mem \in Memory /\ buf[h] \in Entries /\ Boots(h)
         /\ BootInv(b, pc[h], mem, buf[h], n)
         /\ base[h] = (IF pc[h] \in Before \cup {"copy"} THEN b.load ELSE Run(b))
  <1>1. Boots(h)
    BY DEF FwInv, HartInv, Boots, BootLabels, Before, Front, Back
  <1>2. pc[h] \notin Early
    BY DEF BootLabels, Before, Front, Back, Early
  <1> QED
    BY <1>1, <1>2, StateIs

LEMMA StoreIs ==
  ASSUME FwInv, NEW h \in Harts, NEW a, NEW x, Store(h, a, x), Append(buf[h], <<a, x>>) \in Entries
  PROVE  \E p \in Entries : /\ p = Append(buf[h], <<a, x>>) /\ Len(p) <= BufMax
                            /\ buf' = [buf EXCEPT ![h] = p]
  <1>1. buf' = [buf EXCEPT ![h] = Append(buf[h], <<a, x>>)]
    BY DEF Store, FwInv, TypeInv
  <1>2. Len(buf[h]) \in Nat /\ Len(Append(buf[h], <<a, x>>)) = Len(buf[h]) + 1
    BY StateIs DEF Entries
  <1>3. Len(buf[h]) < BufMax
    BY DEF Store
  <1>4. Len(Append(buf[h], <<a, x>>)) <= BufMax
    BY <1>2, <1>3, Lengths
  <1> QED
    BY <1>1, <1>4

LEMMA CountIn ==
  ASSUME NEW c \in Builds
  PROVE  c.count <= MemEnd /\ FwLen <= MemEnd
  <1>1. PICK cnt \in Nat, s \in Nat \ {0} : cnt = c.count /\ s = StackSize
    BY BuildIs, Lengths
  <1>2. cnt <= cnt * s
    BY <1>1
  <1>3. PICK cs \in Nat : cs = cnt * s
    BY <1>1
  <1>4. PICK end \in Nat : FwLen <= end /\ end = FwLen + c.count * StackSize /\ Run(c) + end <= MemEnd
    BY Layout
  <1>5. PICK r \in Nat : r = Run(c) /\ r + end <= MemEnd /\ end = FwLen + cs
    BY <1>1, <1>3, <1>4, BuildIs
  <1> QED
    BY <1>1, <1>2, <1>3, <1>5, Lengths

LEMMA SaveLoadStartStep ==
  ASSUME FwInv, NEW h \in Harts, SaveLoadStart(h)
  PROVE  FwInv'
  <1>1. pc[h] = "save"
    BY DEF SaveLoadStart
  <1>2. /\ b \in Builds /\ mem \in Memory /\ buf[h] \in Entries /\ Boots(h)
        /\ BootInv(b, "save", mem, buf[h], n) /\ base[h] = b.load
    BY <1>1, BootIs DEF BootLabels, Before
  <1>3. BootInv(b, IF b.pic THEN "pic" ELSE "relocate", mem, Append(buf[h], <<b.load + LoadStart, Num(b.load)>>), n)
    BY <1>2, BootSave
  <1>4. Append(buf[h], <<b.load + LoadStart, Num(b.load)>>) \in Entries
    <2>1. b.load + LoadStart \in 0 .. MemEnd - 1
      BY <1>2, WordsIn, OffsetsIn
    <2>2. b.load \in Int
      BY <1>2, BuildIs
    <2>3. Num(b.load) \in Value
      BY <2>2, NumType
    <2> QED
      BY <1>2, <2>1, <2>3, StoreWrote
  <1>5. PICK p \in Entries : /\ p = Append(buf[h], <<b.load + LoadStart, Num(b.load)>>) /\ Len(p) <= BufMax
                             /\ buf' = [buf EXCEPT ![h] = p]
    BY <1>2, <1>4, StoreIs DEF SaveLoadStart
  <1>6. PICK l \in BootLabels : l = (IF b.pic THEN "pic" ELSE "relocate") /\ pc' = [pc EXCEPT ![h] = l] /\ l \in Before
    BY DEF SaveLoadStart, Goto, BootLabels, Before
  <1>7. base' = [base EXCEPT ![h] = b.load] /\ n' = n /\ n \in 0 .. MemEnd
    BY <1>2 DEF SaveLoadStart, FwInv, TypeInv
  <1>8. Quiet /\ UNCHANGED scratch
    BY DEF SaveLoadStart, Quiet, allocVars
  <1> QED
    BY <1>2, <1>3, <1>5, <1>6, <1>7, <1>8, BootStep

LEMMA PicRelocateStep ==
  ASSUME FwInv, NEW h \in Harts, PicRelocate(h)
  PROVE  FwInv'
  <1>1. pc[h] = "pic"
    BY DEF PicRelocate
  <1>2. /\ b \in Builds /\ mem \in Memory /\ buf[h] \in Entries /\ Boots(h)
        /\ BootInv(b, "pic", mem, buf[h], n) /\ base[h] = b.load
    BY <1>1, BootIs DEF BootLabels, Before
  <1>3. /\ BootInv(b, "status", mem, Append(buf[h], <<b.load + Ptr, Num(b.load + 10)>>), n)
        /\ Seen(mem, buf[h])[b.load + LinkStart] = Num(b.link)
    BY <1>2, BootPic
  <1>4. Word(h, LinkStart) = b.link
    BY <1>2, <1>3, WordNum, OffsetsIn
  <1>5. Store(h, b.load + Ptr, Num(b.load + 10))
    <2>1. PICK ld \in Nat, ln \in Nat : ld = b.load /\ ln = b.link
      BY <1>2, BuildIs
    <2>2. ln + 9 + (ld - ln) = ld + 9 /\ ln + 10 + (ld - ln) = ld + 10
      BY <2>1
    <2>3. Store(h, ln + 9 + (ld - ln), Num(ln + 10 + (ld - ln)))
      BY <1>2, <1>4, <2>1 DEF PicRelocate
    <2> QED
      BY <2>1, <2>2, <2>3
  <1>6. Append(buf[h], <<b.load + Ptr, Num(b.load + 10)>>) \in Entries
    <2>1. b.load + Ptr \in 0 .. MemEnd - 1
      BY <1>2, WordsIn, OffsetsIn
    <2>2. b.load + 10 \in Int
      BY <1>2, BuildIs
    <2>3. Num(b.load + 10) \in Value
      BY <2>2, NumType
    <2> QED
      BY <1>2, <2>1, <2>3, StoreWrote
  <1>7. PICK p \in Entries : /\ p = Append(buf[h], <<b.load + Ptr, Num(b.load + 10)>>) /\ Len(p) <= BufMax
                             /\ buf' = [buf EXCEPT ![h] = p]
    BY <1>5, <1>6, StoreIs
  <1>8. pc' = [pc EXCEPT ![h] = "status"] /\ "status" \in BootLabels /\ "status" \notin Before \cup {"copy"}
    BY DEF PicRelocate, Goto, BootLabels, Front, Before
  <1>9. base' = [base EXCEPT ![h] = b.load] /\ n' = n /\ n \in 0 .. MemEnd
    BY <1>2 DEF PicRelocate, FwInv, TypeInv
  <1>10. Run(b) = b.load
    BY <1>2 DEF Run, BootInv, StageInv
  <1>11. Quiet /\ UNCHANGED scratch
    BY DEF PicRelocate, Quiet, allocVars
  <1> QED
    BY <1>2, <1>3, <1>7, <1>8, <1>9, <1>10, <1>11, BootStep

LEMMA RelocateStep ==
  ASSUME FwInv, NEW h \in Harts, Relocate(h)
  PROVE  FwInv'
  <1>1. pc[h] = "relocate"
    BY DEF Relocate
  <1>2. /\ b \in Builds /\ mem \in Memory /\ buf[h] \in Entries /\ Boots(h)
        /\ BootInv(b, "relocate", mem, buf[h], n) /\ base[h] = b.load
    BY <1>1, BootIs DEF BootLabels, Before
  <1>3. /\ BootInv(b, "stuck", mem, buf[h], n')
        /\ b.link = b.load => BootInv(b, "status", mem, buf[h], n')
        /\ b.link # b.load /\ Clear(b) /\ n' = (IF b.link < b.load THEN 0 ELSE FwLen - 1) =>
             BootInv(b, "copy", mem, buf[h], n')
        /\ Seen(mem, buf[h])[b.load + LinkStart] = Num(b.link) /\ Seen(mem, buf[h])[b.load + LoadStart] = Num(b.load)
        /\ ~b.pic
    BY <1>2, BootRelocate
  <1>4. Word(h, LinkStart) = b.link /\ Word(h, LoadStart) = b.load
    BY <1>2, <1>3, WordNum, OffsetsIn
  <1>5. n' = (IF b.link < b.load THEN 0 ELSE FwLen - 1) /\ n' \in 0 .. MemEnd
    BY <1>2, <1>4, CountIn, Lengths DEF Relocate
  <1>6. PICK l \in {"status", "stuck", "copy"} :
          /\ pc' = [pc EXCEPT ![h] = l]
          /\ l = IF b.link = b.load THEN "status" ELSE IF Clash(h) THEN "stuck" ELSE "copy"
    BY <1>4 DEF Relocate, Goto
  <1>7. b.link # b.load /\ ~Clash(h) => Clear(b)
    BY <1>2, <1>3, <1>4, NoClash DEF Clash
  <1>8. BootInv(b, l, mem, buf[h], n')
    BY <1>3, <1>5, <1>6, <1>7
  <1>9. PICK p \in Entries : p = buf[h] /\ Len(p) <= BufMax /\ buf' = [buf EXCEPT ![h] = p]
    BY <1>2 DEF Relocate, FwInv, TypeInv
  <1>10. base' = [base EXCEPT ![h] = b.load]
    BY <1>2 DEF Relocate, FwInv, TypeInv
  <1>11. l \in BootLabels /\ (l \notin Before \cup {"copy"} => Run(b) = b.load)
    BY <1>3, <1>6 DEF BootLabels, Before, Front, Run
  <1>12. Quiet /\ UNCHANGED scratch
    BY DEF Relocate, Quiet, allocVars
  <1> QED
    BY <1>2, <1>5, <1>6, <1>8, <1>9, <1>10, <1>11, <1>12, BootStep

LEMMA CopyStep ==
  ASSUME FwInv, NEW h \in Harts, Copy(h)
  PROVE  FwInv'
  <1>1. pc[h] = "copy"
    BY DEF Copy
  <1>2. /\ b \in Builds /\ mem \in Memory /\ buf[h] \in Entries /\ Boots(h)
        /\ BootInv(b, "copy", mem, buf[h], n) /\ base[h] = b.load
    BY <1>1, BootIs DEF BootLabels, Front
  <1>3. LET p == Append(buf[h], <<b.link + n, Seen(mem, buf[h])[b.load + n]>>)
        IN  /\ n # (IF b.link < b.load THEN FwLen - 1 ELSE 0) =>
                 BootInv(b, "copy", mem, p, IF b.link < b.load THEN n + 1 ELSE n - 1)
            /\ n = (IF b.link < b.load THEN FwLen - 1 ELSE 0) => BootInv(b, "status", mem, p, 0)
            /\ Moves(b) /\ n \in 0 .. FwLen - 1
            /\ b.load + n \in 0 .. MemEnd - 1 /\ b.link + n \in 0 .. MemEnd - 1
            /\ p \in Entries
    BY <1>2, BootCopy
  <1>4. Load(h, b.load + n) = Seen(mem, buf[h])[b.load + n]
    BY <1>3, LoadIs
  <1>5. PICK p \in Entries : /\ p = Append(buf[h], <<b.link + n, Seen(mem, buf[h])[b.load + n]>>) /\ Len(p) <= BufMax
                             /\ buf' = [buf EXCEPT ![h] = p]
    <2>1. Store(h, b.link + n, Seen(mem, buf[h])[b.load + n])
      BY <1>4 DEF Copy
    <2> QED
      BY <1>3, <2>1, StoreIs
  <1>6. Run(b) = b.link /\ FwLen <= MemEnd
    BY <1>2, <1>3, CountIn, BuildIs
  <1>7. Quiet /\ UNCHANGED scratch
    BY DEF Copy, Quiet, allocVars
  <1>8. CASE n = IF b.link < b.load THEN FwLen - 1 ELSE 0
    <2>1. /\ pc' = [pc EXCEPT ![h] = "status"] /\ base' = [base EXCEPT ![h] = b.link] /\ n' = 0
      BY <1>8 DEF Copy, Goto
    <2>2. BootInv(b, "status", mem, p, n') /\ n' \in 0 .. MemEnd
      BY <1>3, <1>5, <1>8, <2>1, Lengths
    <2>3. "status" \in BootLabels /\ "status" \notin Before \cup {"copy"}
      BY DEF BootLabels, Before, Front
    <2> QED
      BY <1>2, <1>5, <1>6, <1>7, <2>1, <2>2, <2>3, BootStep
  <1>9. CASE n # IF b.link < b.load THEN FwLen - 1 ELSE 0
    <2>1. /\ pc' = [pc EXCEPT ![h] = "copy"] /\ n' = (IF b.link < b.load THEN n + 1 ELSE n - 1)
          /\ base' = [base EXCEPT ![h] = b.load]
      BY <1>2, <1>9 DEF Copy, Goto, FwInv, TypeInv
    <2>2. BootInv(b, "copy", mem, p, n')
      BY <1>3, <1>5, <1>9, <2>1
    <2>3. n' \in 0 .. MemEnd
      BY <1>3, <1>6, <1>9, <2>1, Lengths
    <2>4. "copy" \in BootLabels
      BY DEF BootLabels, Front
    <2> QED
      BY <1>2, <1>5, <1>7, <2>1, <2>2, <2>3, <2>4, BootStep
  <1> QED
    BY <1>8, <1>9

LEMMA RelocateDoneStep ==
  ASSUME FwInv, NEW h \in Harts, RelocateDone(h)
  PROVE  FwInv'
  <1>1. pc[h] = "status"
    BY DEF RelocateDone
  <1>2. /\ b \in Builds /\ mem \in Memory /\ buf[h] \in Entries /\ Boots(h)
        /\ BootInv(b, "status", mem, buf[h], n) /\ base[h] = Run(b)
    BY <1>1, BootIs DEF BootLabels, Front, Before
  <1>3. /\ BootInv(b, "fence", mem, Append(buf[h], <<b.load + Status, Num(1)>>), n)
        /\ Seen(mem, buf[h])[Run(b) + LinkStart] = Num(b.link) /\ Seen(mem, buf[h])[Run(b) + LoadStart] = Num(b.load)
    BY <1>2, BootStatus
  <1>4. Word(h, LinkStart) = b.link /\ Word(h, LoadStart) = b.load
    BY <1>2, <1>3, WordNum, OffsetsIn
  <1>5. Store(h, b.load + Status, Num(1))
    <2>1. PICK ld \in Nat, ln \in Nat : ld = b.load /\ ln = b.link
      BY <1>2, BuildIs
    <2>2. Store(h, Run(b) + 5 + (IF b.pic THEN 0 ELSE ld - ln), Num(1))
      BY <1>2, <1>4, <2>1 DEF RelocateDone
    <2>3. Run(b) + 5 + (IF b.pic THEN 0 ELSE ld - ln) = ld + 5
      BY <2>1 DEF Run
    <2> QED
      BY <2>1, <2>2, <2>3
  <1>6. Append(buf[h], <<b.load + Status, Num(1)>>) \in Entries
    <2>1. b.load + Status \in 0 .. MemEnd - 1 /\ Num(1) \in Value
      BY <1>2, WordsIn, OffsetsIn, NumType
    <2> QED
      BY <1>2, <2>1, StoreWrote
  <1>7. PICK p \in Entries : /\ p = Append(buf[h], <<b.load + Status, Num(1)>>) /\ Len(p) <= BufMax
                             /\ buf' = [buf EXCEPT ![h] = p]
    BY <1>5, <1>6, StoreIs
  <1>8. pc' = [pc EXCEPT ![h] = "fence"] /\ "fence" \in BootLabels /\ "fence" \notin Before \cup {"copy"}
    BY DEF RelocateDone, Goto, BootLabels, Front, Before
  <1>9. base' = [base EXCEPT ![h] = Run(b)] /\ n' = n /\ n \in 0 .. MemEnd
    BY <1>2 DEF RelocateDone, FwInv, TypeInv
  <1>10. Quiet /\ UNCHANGED scratch
    BY DEF RelocateDone, Quiet, allocVars
  <1> QED
    BY <1>2, <1>3, <1>7, <1>8, <1>9, <1>10, BootStep

LEMMA RelocateFenceStep ==
  ASSUME FwInv, NEW h \in Harts, RelocateFence(h)
  PROVE  FwInv'
  <1>1. pc[h] = "fence" /\ buf[h] = << >>
    BY DEF RelocateFence, Fence
  <1>2. /\ b \in Builds /\ mem \in Memory /\ buf[h] \in Entries /\ Boots(h)
        /\ BootInv(b, "fence", mem, buf[h], n) /\ base[h] = Run(b)
    BY <1>1, BootIs DEF BootLabels, Front, Before
  <1>3. BootInv(b, "bss", mem, buf[h], ImageLen)
    BY <1>1, <1>2, BootFence
  <1>4. n' = ImageLen /\ ImageLen \in 0 .. MemEnd
    BY <1>2, CountIn, Lengths DEF RelocateFence
  <1>5. pc' = [pc EXCEPT ![h] = "bss"] /\ "bss" \in BootLabels /\ "bss" \notin Before \cup {"copy"}
    BY DEF RelocateFence, Fence, Goto, BootLabels, Back, Before
  <1>6. PICK p \in Entries : p = buf[h] /\ Len(p) <= BufMax /\ buf' = [buf EXCEPT ![h] = p]
    BY <1>2 DEF RelocateFence, FwInv, TypeInv
  <1>7. base' = [base EXCEPT ![h] = Run(b)]
    BY <1>2 DEF RelocateFence, FwInv, TypeInv
  <1>8. Quiet /\ UNCHANGED scratch
    BY DEF RelocateFence, Quiet, allocVars
  <1> QED
    BY <1>2, <1>3, <1>4, <1>5, <1>6, <1>7, <1>8, BootStep

LEMMA BssZeroStep ==
  ASSUME FwInv, NEW h \in Harts, BssZero(h)
  PROVE  FwInv'
  <1>1. pc[h] = "bss"
    BY DEF BssZero
  <1>2. /\ b \in Builds /\ mem \in Memory /\ buf[h] \in Entries /\ Boots(h)
        /\ BootInv(b, "bss", mem, buf[h], n) /\ base[h] = Run(b)
    BY <1>1, BootIs DEF BootLabels, Back, Before
  <1>3. /\ BootInv(b, IF n + 1 < BssEnd THEN "bss" ELSE "info", mem, Append(buf[h], <<Run(b) + n, Num(0)>>), n + 1)
        /\ n + 1 \in 0 .. MemEnd /\ Append(buf[h], <<Run(b) + n, Num(0)>>) \in Entries
    BY <1>2, BootBss
  <1>4. Store(h, Run(b) + n, Num(0))
    BY <1>2 DEF BssZero
  <1>5. PICK p \in Entries : /\ p = Append(buf[h], <<Run(b) + n, Num(0)>>) /\ Len(p) <= BufMax
                             /\ buf' = [buf EXCEPT ![h] = p]
    BY <1>3, <1>4, StoreIs
  <1>6. PICK l \in {"bss", "info"} : pc' = [pc EXCEPT ![h] = l] /\ l = IF n + 1 < BssEnd THEN "bss" ELSE "info"
    BY DEF BssZero, Goto
  <1>7. l \in BootLabels /\ l \notin Before \cup {"copy"}
    BY DEF BootLabels, Back, Before
  <1>8. base' = [base EXCEPT ![h] = Run(b)] /\ n' = n + 1
    BY <1>2 DEF BssZero, FwInv, TypeInv
  <1>9. Quiet /\ UNCHANGED scratch
    BY DEF BssZero, Quiet, allocVars
  <1>10. BootInv(b, l, mem, p, n') /\ n' \in 0 .. MemEnd
    BY <1>3, <1>5, <1>6, <1>8
  <1> QED
    BY <1>2, <1>5, <1>6, <1>7, <1>8, <1>9, <1>10, BootStep

LEMMA SaveInfoStep ==
  ASSUME FwInv, NEW h \in Harts, SaveInfo(h)
  PROVE  FwInv'
  <1>1. pc[h] = "info"
    BY DEF SaveInfo
  <1>2. /\ b \in Builds /\ mem \in Memory /\ buf[h] \in Entries /\ Boots(h)
        /\ BootInv(b, "info", mem, buf[h], n) /\ base[h] = Run(b)
    BY <1>1, BootIs DEF BootLabels, Back, Before
  <1>3. /\ ~b.dynamic => BootInv(b, "scratch", mem, buf[h], 0)
        /\ b.dynamic => BootInv(b, "scratch", mem, Append(buf[h], <<Run(b) + Info, Num(b.a1)>>), 0)
        /\ Append(buf[h], <<Run(b) + Info, Num(b.a1)>>) \in Entries
    BY <1>2, BootInfo
  <1>4. PICK p \in Entries : /\ Len(p) <= BufMax /\ buf' = [buf EXCEPT ![h] = p] /\ BootInv(b, "scratch", mem, p, 0)
    <2>1. CASE b.dynamic
      <3>1. Store(h, Run(b) + Info, Num(b.a1))
        BY <1>2, <2>1 DEF SaveInfo
      <3>2. PICK p \in Entries : /\ p = Append(buf[h], <<Run(b) + Info, Num(b.a1)>>) /\ Len(p) <= BufMax
                                 /\ buf' = [buf EXCEPT ![h] = p]
        BY <1>3, <3>1, StoreIs
      <3> QED
        BY <1>3, <2>1, <3>2
    <2>2. CASE ~b.dynamic
      <3>1. buf' = [buf EXCEPT ![h] = buf[h]] /\ Len(buf[h]) <= BufMax
        BY <2>2 DEF SaveInfo, FwInv, TypeInv
      <3> QED
        BY <1>2, <1>3, <2>2, <3>1
    <2> QED
      BY <2>1, <2>2
  <1>5. pc' = [pc EXCEPT ![h] = "scratch"] /\ "scratch" \in BootLabels /\ "scratch" \notin Before \cup {"copy"}
    BY DEF SaveInfo, Goto, BootLabels, Back, Before
  <1>6. base' = [base EXCEPT ![h] = Run(b)] /\ n' = 0 /\ 0 \in 0 .. MemEnd
    BY <1>2, Lengths DEF SaveInfo, FwInv, TypeInv
  <1>7. Quiet /\ UNCHANGED scratch
    BY DEF SaveInfo, Quiet, allocVars
  <1> QED
    BY <1>2, <1>4, <1>5, <1>6, <1>7, BootStep

LEMMA NextArgIs ==
  ASSUME FwInv, NEW h \in Harts, base[h] = Run(b), ArgSeen(b, Seen(mem, buf[h])) = Arg(b)
  PROVE  NextArg1(h) = Arg(b)
  <1>1. Word(h, Info) = Seen(mem, buf[h])[Run(b) + Info][2]
    BY WordIs, OffsetsIn
  <1> QED
    BY <1>1 DEF NextArg1, ArgSeen

LEMMA ScratchInitStep ==
  ASSUME FwInv, NEW h \in Harts, ScratchInit(h)
  PROVE  FwInv'
  <1>1. pc[h] = "scratch"
    BY DEF ScratchInit
  <1>2. /\ b \in Builds /\ mem \in Memory /\ buf[h] \in Entries /\ Boots(h)
        /\ BootInv(b, "scratch", mem, buf[h], n) /\ base[h] = Run(b)
    BY <1>1, BootIs DEF BootLabels, Back, Before
  <1>3. LET p == Append(buf[h], <<Space(b, n), Header(Run(b), Arg(b))>>)
        IN  /\ n + 1 < b.count => BootInv(b, "scratch", mem, p, n + 1)
            /\ ~(n + 1 < b.count) => BootInv(b, "fdt", mem, p, 0)
            /\ ArgSeen(b, Seen(mem, buf[h])) = Arg(b) /\ n \in 0 .. b.count - 1
            /\ p \in Entries
    BY <1>2, BootScratch
  <1>4. NextArg1(h) = Arg(b) /\ ScratchAddr(h, n) = Space(b, n)
    BY <1>2, <1>3, NextArgIs DEF ScratchAddr, Space
  <1>5. Store(h, Space(b, n), Header(Run(b), Arg(b)))
    BY <1>2, <1>4 DEF ScratchInit
  <1>6. PICK p \in Entries : /\ p = Append(buf[h], <<Space(b, n), Header(Run(b), Arg(b))>>) /\ Len(p) <= BufMax
                             /\ buf' = [buf EXCEPT ![h] = p]
    BY <1>3, <1>5, StoreIs
  <1>7. PICK l \in {"scratch", "fdt"} : pc' = [pc EXCEPT ![h] = l] /\ l = IF n + 1 < b.count THEN "scratch" ELSE "fdt"
    BY DEF ScratchInit, Goto
  <1>8. n' = IF n + 1 < b.count THEN n + 1 ELSE 0
    BY DEF ScratchInit
  <1>9. BootInv(b, l, mem, p, n')
    BY <1>3, <1>6, <1>7, <1>8
  <1>10. n' \in 0 .. MemEnd
    BY <1>2, <1>3, <1>8, CountIn, BuildIs, Lengths
  <1>11. l \in BootLabels /\ l \notin Before \cup {"copy"}
    BY DEF BootLabels, Back, Before
  <1>12. base' = [base EXCEPT ![h] = Run(b)]
    BY <1>2 DEF ScratchInit, FwInv, TypeInv
  <1>13. Quiet /\ UNCHANGED scratch
    BY DEF ScratchInit, Quiet, allocVars
  <1> QED
    BY <1>2, <1>6, <1>7, <1>9, <1>10, <1>11, <1>12, <1>13, BootStep

LEMMA FdtRelocStep ==
  ASSUME FwInv, NEW h \in Harts, FdtReloc(h)
  PROVE  FwInv'
  <1> DEFINE go == b.src # 0 /\ Arg(b) # 0 /\ Arg(b) # b.src /\ n < FdtLen
  <1>1. pc[h] = "fdt"
    BY DEF FdtReloc
  <1>2. /\ b \in Builds /\ mem \in Memory /\ buf[h] \in Entries /\ Boots(h)
        /\ BootInv(b, "fdt", mem, buf[h], n) /\ base[h] = Run(b)
    BY <1>1, BootIs DEF BootLabels, Back, Before
  <1>3. LET p == Append(buf[h], <<Arg(b) + n, Seen(mem, buf[h])[b.src + n]>>)
        IN  /\ go => /\ BootInv(b, "fdt", mem, p, n + 1) /\ b.src + n \in 0 .. MemEnd - 1
                     /\ n + 1 \in 0 .. MemEnd /\ p \in Entries
            /\ ~go => BootInv(b, "done", mem, buf[h], n)
            /\ ArgSeen(b, Seen(mem, buf[h])) = Arg(b)
    BY <1>2, BootFdt
  <1>4. NextArg1(h) = Arg(b)
    BY <1>2, <1>3, NextArgIs
  <1>5. base' = [base EXCEPT ![h] = Run(b)]
    BY <1>2 DEF FdtReloc, FwInv, TypeInv
  <1>6. Quiet /\ UNCHANGED scratch
    BY DEF FdtReloc, Quiet, allocVars
  <1>7. CASE go
    <2>1. Store(h, Arg(b) + n, Load(h, b.src + n)) /\ n' = n + 1 /\ UNCHANGED pc
      BY <1>4, <1>7 DEF FdtReloc
    <2>2. Load(h, b.src + n) = Seen(mem, buf[h])[b.src + n]
      BY <1>3, <1>7, LoadIs
    <2>3. Store(h, Arg(b) + n, Seen(mem, buf[h])[b.src + n])
      BY <2>1, <2>2
    <2>4. PICK p \in Entries : /\ p = Append(buf[h], <<Arg(b) + n, Seen(mem, buf[h])[b.src + n]>>) /\ Len(p) <= BufMax
                               /\ buf' = [buf EXCEPT ![h] = p]
      BY <1>3, <1>7, <2>3, StoreIs
    <2>5. BootInv(b, "fdt", mem, p, n') /\ n' \in 0 .. MemEnd
      BY <1>3, <1>7, <2>1, <2>4
    <2>6. pc' = [pc EXCEPT ![h] = "fdt"] /\ "fdt" \in BootLabels /\ "fdt" \notin Before \cup {"copy"}
      BY <1>1, <2>1 DEF FwInv, TypeInv, BootLabels, Back, Before
    <2> QED
      BY <1>2, <1>5, <1>6, <2>4, <2>5, <2>6, BootStep
  <1>8. CASE ~go
    <2>1. pc' = [pc EXCEPT ![h] = "done"] /\ UNCHANGED <<buf, n>>
      BY <1>4, <1>8 DEF FdtReloc, Goto
    <2>2. PICK p \in Entries : p = buf[h] /\ Len(p) <= BufMax /\ buf' = [buf EXCEPT ![h] = p]
      BY <1>2, <2>1 DEF FwInv, TypeInv
    <2>3. "done" \in BootLabels /\ "done" \notin Before \cup {"copy"} /\ n' \in 0 .. MemEnd
      BY <2>1 DEF BootLabels, Back, Before, FwInv, TypeInv
    <2>4. BootInv(b, "done", mem, p, n')
      BY <1>3, <1>8, <2>1, <2>2
    <2> QED
      BY <1>2, <1>5, <1>6, <2>1, <2>2, <2>3, <2>4, BootStep
  <1> QED
    BY <1>7, <1>8

LEMMA BootHartDoneStep ==
  ASSUME FwInv, NEW h \in Harts, BootHartDone(h)
  PROVE  FwInv'
  <1>1. pc[h] = "done"
    BY DEF BootHartDone
  <1>2. /\ b \in Builds /\ mem \in Memory /\ buf[h] \in Entries /\ Boots(h)
        /\ BootInv(b, "done", mem, buf[h], n) /\ base[h] = Run(b)
    BY <1>1, BootIs DEF BootLabels, Back, Before
  <1>3. /\ BootInv(b, "fence2", mem, Append(buf[h], <<Run(b) + Status, Num(2)>>), n)
        /\ Append(buf[h], <<Run(b) + Status, Num(2)>>) \in Entries
    BY <1>2, BootDone
  <1>4. Store(h, Run(b) + Status, Num(2))
    BY <1>2 DEF BootHartDone
  <1>5. PICK p \in Entries : /\ p = Append(buf[h], <<Run(b) + Status, Num(2)>>) /\ Len(p) <= BufMax
                             /\ buf' = [buf EXCEPT ![h] = p]
    BY <1>3, <1>4, StoreIs
  <1>6. pc' = [pc EXCEPT ![h] = "fence2"] /\ "fence2" \in BootLabels /\ "fence2" \notin Before \cup {"copy"}
    BY DEF BootHartDone, Goto, BootLabels, Back, Before
  <1>7. base' = [base EXCEPT ![h] = Run(b)] /\ n' = n /\ n \in 0 .. MemEnd
    BY <1>2 DEF BootHartDone, FwInv, TypeInv
  <1>8. Quiet /\ UNCHANGED scratch
    BY DEF BootHartDone, Quiet, allocVars
  <1> QED
    BY <1>2, <1>3, <1>5, <1>6, <1>7, <1>8, BootStep
-----------------------------------------------------------------------------
(* Steps that change memory.                                               *)
LEMMA MultipleOf ==
  ASSUME NEW p \in Nat \ {0}, NEW j \in Int, NEW s \in Nat, p <= j * p, j * p < s * p
  PROVE  j \in 1 .. s - 1
  <1>1. ~(j <= 0)
    OBVIOUS
  <1>2. ~(s <= j)
    OBVIOUS
  <1> QED
    BY <1>1, <1>2

(* A byte of an area is in a word of a scratch space that is not its first. *)
LEMMA AreaWord ==
  ASSUME NEW x \in Nat, Pointer <= x, x < ScratchSize * Pointer
  PROVE  \E j \in 1 .. ScratchSize - 1 : j = x \div Pointer /\ j * Pointer <= x /\ x < j * Pointer + Pointer
  <1>1. PICK p \in Nat \ {0}, s \in Nat \ {0} : p = Pointer /\ s = ScratchSize
    BY Lengths
  <1>2. PICK j \in Nat, r \in 0 .. p - 1 : j = x \div p /\ j * p + r = x
    BY <1>1, DivMod
  <1>3. PICK jp \in Nat, sp \in Nat : jp = j * p /\ sp = s * p
    BY <1>1, <1>2
  <1>4. jp <= x /\ x < jp + p /\ p <= x /\ x < sp
    BY <1>1, <1>2, <1>3
  <1>5. j # 0
    BY <1>1, <1>2, <1>3, <1>4
  <1>6. ~(s <= j)
    <2>1. s <= j => s * p <= j * p
      BY <1>1, <1>2
    <2> QED
      BY <1>3, <1>4, <2>1
  <1>7. j \in 1 .. s - 1
    BY <1>1, <1>2, <1>5, <1>6
  <1> QED
    BY <1>1, <1>2, <1>3, <1>4, <1>7

Zeroed(c, S) == \A d \in S : \E i \in 0 .. c.count - 1, j \in 1 .. ScratchSize - 1 : d = Space(c, i) + j

LEMMA SpaceUnused ==
  ASSUME NEW c \in Builds, Clear(c), NEW S, Zeroed(c, S)
  PROVE  Unused(c, S) /\ \A d \in S : d \in 0 .. MemEnd - 1 /\ \A o \in 0 .. ImageLen - 1 : d # c.load + o
  <1>1. ASSUME NEW d \in S
        PROVE  /\ \A o \in 0 .. ImageLen - 1 : d # c.load + o /\ d # Run(c) + o
               /\ \A l \in 0 .. c.count - 1 : d # Space(c, l)
               /\ \A t \in {c.src, Arg(c)} : t # 0 => \A l \in 0 .. FdtLen - 1 : d # t + l
               /\ d \in 0 .. MemEnd - 1
    <2>1. PICK i \in 0 .. c.count - 1, j \in 1 .. ScratchSize - 1 : d = Space(c, i) + j
      BY <1>1 DEF Zeroed
    <2>2. i \in Int /\ j \in 0 .. ScratchSize - 1
      BY BuildIs, Lengths
    <2>3. /\ d \in BackArea(c) /\ d \in Run(c) + FwLen .. MemEnd - 1
          /\ d \in Run(c) .. Run(c) + RuntimeEnd(c) - 1
      BY <2>1, <2>2, SpaceBack
    <2>4. PICK end \in Nat, ld \in Nat, r \in Nat :
            /\ ld = c.load /\ r = Run(c) /\ end = RuntimeEnd(c) /\ FwLen <= end
            /\ Away(ld, FwLen, r, FwLen) => Away(ld, ImageLen, r + FwLen, end - FwLen)
      BY Layout, BuildIs
    <2>5. d \in Nat /\ r + FwLen <= d /\ d < r + end
      BY <2>3, <2>4, Lengths
    <2>6. r = ld \/ r >= ld + 8 \/ r + FwLen <= ld
      BY <2>4, BuildIs DEF Clear
    <2>7. r + FwLen <= ld => r + end <= ld
      BY <2>4, Lengths DEF Away
    <2>8. \A o \in 0 .. ImageLen - 1 : d # ld + o /\ d # r + o
      BY <2>4, <2>5, <2>6, <2>7, Lengths
    <2>9. ASSUME NEW l \in 0 .. c.count - 1 PROVE d # Space(c, l)
      <3>1. l \in Int /\ Space(c, l) \in Int /\ Space(c, i) \in Int
        BY <2>2, SpaceIs
      <3>2. CASE l = i
        BY <2>1, <3>1, <3>2
      <3>3. CASE l # i
        <4>1. Space(c, l) + StackSize <= Space(c, i) \/ Space(c, i) + StackSize <= Space(c, l)
          BY <2>2, <3>1, <3>3, SpaceApart
        <4> QED
          BY <2>1, <3>1, <4>1, Lengths
      <3> QED
        BY <3>2, <3>3
    <2>10. \A t \in {c.src, Arg(c)} : t # 0 => \A l \in 0 .. FdtLen - 1 : d # t + l
      BY <2>3, BackApart
    <2>11. d \in 0 .. MemEnd - 1
      BY <2>3, BackApart
    <2> QED
      BY <2>4, <2>8, <2>9, <2>10, <2>11
  <1> QED
    BY <1>1 DEF Unused

(* The word of memory for a byte of an area.                               *)
LEMMA AllocWord ==
  ASSUME FwInv, NEW x \in allocs, NEW h \in Harts, Known(h), NEW k \in 0 .. x[2] - 1
  PROVE  \E i \in 0 .. b.count - 1, j \in 1 .. ScratchSize - 1 : table[h] + (x[1] + k) \div Pointer = Space(b, i) + j
  <1>1. x[1] \in Nat /\ x[2] \in Nat /\ Pointer <= x[1] /\ x[1] + x[2] <= ScratchSize * Pointer /\ table # None
    BY DEF FwInv, AllocInv, AllocsSound
  <1>2. PICK sp \in Nat : sp = ScratchSize * Pointer
    BY Lengths
  <1>3. x[1] + k \in Nat /\ Pointer <= x[1] + k /\ x[1] + k < sp
    BY <1>1, <1>2, Lengths
  <1>4. PICK j \in 1 .. ScratchSize - 1 : j = (x[1] + k) \div Pointer
    BY <1>2, <1>3, AreaWord
  <1>5. b \in Builds
    BY DEF FwInv, TypeInv
  <1>6. HartIndex(h) \in Int /\ HartIndex(h) \in 0 .. b.count - 1
    BY <1>5, IndexIs DEF Known
  <1>7. table[h] = Run(b) + FwLen + (b.count - HartIndex(h)) * StackSize - ScratchSize
    BY <1>1 DEF FwInv, TableInv
  <1>8. table[h] = Space(b, HartIndex(h))
    BY <1>5, <1>6, <1>7, SpaceIs
  <1> QED
    BY <1>4, <1>6, <1>8

(* The areas stay zero when words elsewhere are written.                   *)
LEMMA AllocsKept ==
  ASSUME FwInv, NEW S, Agree(mem, mem', S), b' = b, table' = table, extra' = extra, allocs' = allocs,
         allocs # {} => \A d \in S : \E o \in 0 .. ImageLen - 1 : d = b.load + o
  PROVE  AllocInv'
  <1>1. (\A h : HartIndex(h)' = HartIndex(h)) /\ (\A h : Known(h)' = Known(h))
    BY DEF HartIndex, Known
  <1>2. ASSUME NEW x \in allocs, NEW h \in Harts, NEW k \in 0 .. x[2] - 1, Known(h)
        PROVE  mem'[table[h] + (x[1] + k) \div Pointer] = Num(0)
    <2> DEFINE d == table[h] + (x[1] + k) \div Pointer
    <2>1. mem[d] = Num(0)
      BY <1>2 DEF FwInv, AllocInv, AllocsSound
    <2>2. Zeroed(b, {d})
      BY <1>2, AllocWord DEF Zeroed
    <2>3. b \in Builds /\ Clear(b)
      <3>1. table # None
        BY <1>2 DEF FwInv, AllocInv
      <3> QED
        BY <3>1 DEF FwInv, TypeInv, TableInv, MemInv, Done
    <2> HIDE DEF d
    <2>4. d \in 0 .. MemEnd - 1 /\ \A o \in 0 .. ImageLen - 1 : d # b.load + o
      BY <2>2, <2>3, SpaceUnused
    <2>5. d \notin S
      BY <1>2, <2>4
    <2>6. mem'[d] = mem[d]
      BY <2>4, <2>5 DEF Agree
    <2> QED
      BY <2>1, <2>6 DEF d
  <1>3. AllocsSound'
    BY <1>1, <1>2 DEF FwInv, AllocInv, AllocsSound
  <1> QED
    BY <1>3 DEF FwInv, AllocInv

LEMMA TryLotteryStep ==
  ASSUME FwInv, NEW h \in Harts, TryLottery(h)
  PROVE  FwInv'
  <1>1. pc[h] = "lottery" /\ ~Boots(h) /\ UNCHANGED <<b, base, buf, n, scratch, table, extra, allocs>>
    BY DEF TryLottery, Boots, Before, Front, Back, allocVars
  <1>2. /\ base[h] = b.load /\ buf[h] = << >> /\ b \in Builds /\ mem \in Memory /\ MemInv(b, mem) /\ ~b.badInfo
    BY <1>1, StateIs DEF Early, FwInv, HartInv
  <1>3. PICK old \in Nat : mem[b.load + Lottery] = Num(old)
    BY <1>2 DEF MemInv, Fixed, Num
  <1>4. mem[b.load + Lottery][2] = old
    BY <1>3, ValueOf
  <1>5. PICK y \in Nat : y = old + 1 /\ y # 0
    OBVIOUS
  <1>6. mem' = [mem EXCEPT ![b.load + Lottery] = Num(y)]
    BY <1>2, <1>4, <1>5 DEF TryLottery
  <1>7. /\ mem' \in Memory /\ MemInv(b, mem') /\ mem'[b.load + Lottery] = Num(y)
        /\ (Moved(b, mem) <=> Moved(b, mem')) /\ (Done(b, mem) <=> Done(b, mem'))
        /\ Agree(mem, mem', {b.load + Lottery})
    <2>1. PICK w \in Memory :
            /\ w = [mem EXCEPT ![b.load + Lottery] = Num(y)] /\ MemInv(b, w) /\ w[b.load + Lottery] = Num(y)
            /\ (Moved(b, mem) <=> Moved(b, w)) /\ (Done(b, mem) <=> Done(b, w))
            /\ Agree(mem, w, {b.load + Lottery})
      BY <1>2, MemLottery
    <2>2. w = mem'
      BY <1>6, <2>1
    <2> QED
      BY <2>1, <2>2
  <1>8. PICK l \in {"save", "waitcopy"} : pc' = [pc EXCEPT ![h] = l] /\ (l = "save" <=> old = 0)
    BY <1>2, <1>4 DEF TryLottery, Goto
  <1>9. /\ l \in Labels /\ l \in Early \cup Before \cup {"copy"} /\ l \notin Late /\ l # "wait" /\ l # "init"
        /\ (l \in BootLabels <=> l = "save")
    BY DEF Labels, Early, Before, Late, BootLabels, Front, Back
  <1>10. \A g \in Harts : pc'[g] = IF g = h THEN l ELSE pc[g]
    BY <1>8 DEF FwInv, TypeInv
  <1>11. (Boots(h)' <=> l = "save") /\ \A g \in Harts \ {h} : Boots(g)' <=> Boots(g)
    BY <1>1, <1>2, <1>9, <1>10 DEF Boots, BootLabels
  <1>12. l = "save" => (\A g \in Harts : ~Boots(g)) /\ Original(b, mem) /\ SrcAt(b, mem)
    BY <1>3, <1>8 DEF FwInv, HartInv
  <1>13. TypeInv'
    <2>1. pc' \in [Harts -> Labels]
      BY <1>8, <1>9 DEF FwInv, TypeInv
    <2> QED
      BY <1>1, <1>7, <2>1 DEF FwInv, TypeInv, Memory
  <1>14. BaseInv'
    <2>1. base[h] = b.load
      BY <1>2
    <2> QED
      BY <1>1, <1>9, <1>10, <2>1 DEF FwInv, BaseInv
  <1>15. HartInv'
    <2>1. \A g \in Harts : ~Boots(g)' => buf'[g] = << >>
      BY <1>1, <1>2, <1>11 DEF FwInv, HartInv
    <2>2. \A g, f \in Harts : Boots(g)' /\ Boots(f)' => g = f
      BY <1>11, <1>12 DEF FwInv, HartInv
    <2>3. \A g \in Harts : Boots(g)' => BootInv(b', pc'[g], mem', buf'[g], n')
      <3>1. ASSUME NEW g \in Harts, Boots(g)', g # h PROVE BootInv(b, pc[g], mem', buf[g], n)
        <4>1. BootInv(b, pc[g], mem, buf[g], n) /\ buf[g] \in Entries
          BY <1>11, <3>1, StateIs
        <4>2. y \in Int
          OBVIOUS
        <4>3. Num(y) \in Value
          BY <4>2, NumType
        <4> QED
          BY <1>2, <1>6, <4>1, <4>3, BootLottery
      <3>2. ASSUME l = "save" PROVE BootInv(b, "save", mem', << >>, n)
        <4>1. Unused(b, {b.load + Lottery})
          BY <1>2, LotteryUnused
        <4>2. Original(b, mem') /\ SrcAt(b, mem')
          BY <1>2, <1>7, <1>12, <3>2, <4>1, PartsKept
        <4>3. Seen(mem', << >>) = mem'
          BY <1>7, SeenEmpty
        <4> QED
          BY <4>2, <4>3 DEF BootInv, StageInv, PendInv, Fresh
      <3> QED
        BY <1>1, <1>2, <1>10, <1>11, <3>1, <3>2
    <2>4. \A g \in Harts : pc'[g] = "wait" => Moved(b', mem')
      BY <1>1, <1>7, <1>9, <1>10 DEF FwInv, HartInv
    <2>5. \A g \in Harts : pc'[g] \in Late => Done(b', mem')
      BY <1>1, <1>7, <1>9, <1>10 DEF FwInv, HartInv
    <2>6. mem'[b'.load + Lottery] # Num(0)
      BY <1>1, <1>5, <1>7, ValueOf
    <2>7. ~b'.badInfo
      BY <1>1, <1>2
    <2> QED
      BY <2>1, <2>2, <2>3, <2>4, <2>5, <2>6, <2>7 DEF HartInv
  <1>16. TableInv'
    <2>1. (\A g : HartIndex(g)' = HartIndex(g)) /\ (\A g : Known(g)' = Known(g))
      BY <1>1 DEF HartIndex, Known
    <2>2. \A g \in Harts : pc'[g] = "init" => HartIndex(g)' < b'.count /\ scratch'[g] = Space(b', HartIndex(g)')
      BY <1>1, <1>9, <1>10, <2>1 DEF FwInv, TableInv
    <2>3. table' # None => Done(b', mem')
      BY <1>1, <1>7 DEF FwInv, TableInv
    <2>4. table' # None =>
            table' = [g \in Harts |-> IF Known(g)' THEN Run(b') + FwLen + (b'.count - HartIndex(g)') * StackSize - ScratchSize
                                      ELSE 0]
      BY <1>1, <2>1 DEF FwInv, TableInv
    <2> QED
      BY <2>2, <2>3, <2>4 DEF TableInv
  <1>17. AllocInv'
    BY <1>1, <1>7, OffsetsIn, AllocsKept
  <1>18. MemInv(b, mem)'
    BY <1>1, <1>7
  <1> QED
    BY <1>13, <1>14, <1>15, <1>16, <1>17, <1>18 DEF FwInv

LEMMA TailIs ==
  ASSUME NEW q \in Entries, 1 \in DOMAIN q
  PROVE  Len(q) > 0 /\ SubSeq(q, 1, 0) \o SubSeq(q, 2, Len(q)) = Tail(q)
  BY DEF Entries

LEMMA DrainStep ==
  ASSUME FwInv, InOrder, NEW h \in Harts, Drain(h)
  PROVE  FwInv'
  <1>1. PICK k \in DOMAIN buf[h] :
          /\ \A l \in 1 .. k - 1 : ~InOrder /\ buf[h][l][1] # buf[h][k][1]
          /\ mem' = [mem EXCEPT ![buf[h][k][1]] = buf[h][k][2]]
          /\ buf' = [buf EXCEPT ![h] = SubSeq(buf[h], 1, k - 1) \o SubSeq(buf[h], k + 1, Len(buf[h]))]
          /\ UNCHANGED <<b, pc, base, n, scratch, table, extra, allocs>>
    BY DEF Drain, allocVars, FwInv, TypeInv
  <1>2. b \in Builds /\ mem \in Memory /\ buf[h] \in Entries /\ MemInv(b, mem)
    BY StateIs
  <1>3. k = 1
    <2>1. k \in Nat /\ k >= 1
      BY <1>2, EntryIs
    <2>2. ~(1 \in 1 .. k - 1)
      BY <1>1
    <2> QED
      BY <2>1, <2>2
  <1>4. Len(buf[h]) > 0 /\ SubSeq(buf[h], 1, 0) \o SubSeq(buf[h], 2, Len(buf[h])) = Tail(buf[h])
    BY <1>1, <1>2, <1>3, TailIs
  <1>5. mem' = [mem EXCEPT ![buf[h][1][1]] = buf[h][1][2]] /\ buf' = [buf EXCEPT ![h] = Tail(buf[h])]
    <2>1. mem' = [mem EXCEPT ![buf[h][1][1]] = buf[h][1][2]]
      BY <1>1, <1>3
    <2>2. k - 1 = 0 /\ k + 1 = 2
      BY <1>3
    <2>3. SubSeq(buf[h], 1, k - 1) \o SubSeq(buf[h], k + 1, Len(buf[h])) = Tail(buf[h])
      BY ONLY <1>4, <2>2
    <2>4. buf' = [buf EXCEPT ![h] = SubSeq(buf[h], 1, k - 1) \o SubSeq(buf[h], k + 1, Len(buf[h]))]
      BY <1>1
    <2> QED
      BY ONLY <2>1, <2>3, <2>4
  <1>6. Boots(h) /\ BootInv(b, pc[h], mem, buf[h], n) /\ mem[b.load + Lottery] # Num(0)
    <2>1. buf[h] # << >>
      BY <1>2, <1>4
    <2> QED
      BY <2>1, StateIs
  <1>7. PICK p \in Entries :
          /\ p = Tail(buf[h]) /\ Len(p) = Len(buf[h]) - 1 /\ mem' \in Memory
          /\ MemInv(b, mem') /\ BootInv(b, pc[h], mem', p, n)
          /\ (Moved(b, mem) => Moved(b, mem')) /\ ~Done(b, mem) /\ mem'[b.load + Lottery] = mem[b.load + Lottery]
    <2>1. Len(buf[h]) > 0
      BY <1>4
    <2>2. PICK w \in Memory, p \in Entries :
            /\ w = [mem EXCEPT ![buf[h][1][1]] = buf[h][1][2]] /\ p = Tail(buf[h]) /\ Len(p) = Len(buf[h]) - 1
            /\ MemInv(b, w) /\ BootInv(b, pc[h], w, p, n)
            /\ (Moved(b, mem) => Moved(b, w)) /\ ~Done(b, mem) /\ w[b.load + Lottery] = mem[b.load + Lottery]
      BY <1>2, <1>6, <2>1, BootDrain
    <2>3. w = mem'
      BY <1>5, <2>2
    <2>4. MemInv(b, mem') /\ BootInv(b, pc[h], mem', p, n)
      BY <2>2, <2>3
    <2> QED
      BY <2>2, <2>3, <2>4
  <1>8. buf' = [buf EXCEPT ![h] = p] /\ UNCHANGED <<b, pc, base, n, scratch, table, extra, allocs>>
    BY <1>1, <1>5, <1>7
  <1>9. \A g \in Harts : buf'[g] = IF g = h THEN p ELSE buf[g]
    BY <1>8 DEF FwInv, TypeInv
  <1>10. \A g \in Harts : Boots(g)' <=> Boots(g)
    BY <1>8 DEF Boots
  <1>11. Len(p) <= BufMax
    <2>1. Len(buf[h]) <= BufMax /\ Len(buf[h]) \in Nat
      BY <1>2 DEF FwInv, TypeInv, Entries
    <2> QED
      BY <1>7, <2>1, Lengths
  <1>12. TypeInv'
    <2>1. buf' \in [Harts -> Seq((0 .. MemEnd - 1) \X Value)]
      BY <1>8 DEF FwInv, TypeInv, Entries
    <2>2. \A g \in Harts : Len(buf'[g]) <= BufMax
      BY <1>9, <1>11 DEF FwInv, TypeInv
    <2> QED
      BY <1>7, <1>8, <2>1, <2>2 DEF FwInv, TypeInv, Memory
  <1>13. BaseInv'
    BY <1>8 DEF FwInv, BaseInv
  <1>14. table = None /\ allocs = {} /\ \A g \in Harts : pc[g] \notin Late
    BY <1>7 DEF FwInv, TableInv, AllocInv, HartInv
  <1>15. HartInv'
    <2>1. \A g \in Harts : ~Boots(g)' => buf'[g] = << >>
      BY <1>6, <1>9, <1>10 DEF FwInv, HartInv
    <2>2. \A g, f \in Harts : Boots(g)' /\ Boots(f)' => g = f
      BY <1>10 DEF FwInv, HartInv
    <2>3. \A g \in Harts : Boots(g)' => BootInv(b', pc'[g], mem', buf'[g], n')
      <3>1. ASSUME NEW g \in Harts, Boots(g)' PROVE BootInv(b', pc'[g], mem', buf'[g], n')
        <4>1. g = h
          BY <1>6, <1>10, <3>1 DEF FwInv, HartInv
        <4> QED
          BY <1>7, <1>8, <1>9, <4>1
      <3> QED
        BY <3>1
    <2>4. \A g \in Harts : pc'[g] = "wait" => Moved(b', mem')
      BY <1>7, <1>8 DEF FwInv, HartInv
    <2>5. \A g \in Harts : pc'[g] \in Late => Done(b', mem')
      BY <1>8, <1>14
    <2>6. mem'[b'.load + Lottery] # Num(0)
      BY <1>6, <1>7, <1>8
    <2>7. b'.badInfo => \A g \in Harts : pc'[g] \in {"off", "start", "stuck"}
      BY <1>8 DEF FwInv, HartInv
    <2> QED
      BY <2>1, <2>2, <2>3, <2>4, <2>5, <2>6, <2>7 DEF HartInv
  <1>16. TableInv'
    BY <1>8, <1>14 DEF TableInv, Late
  <1>17. AllocInv'
    BY <1>8, <1>14 DEF FwInv, AllocInv, AllocsSound
  <1>18. MemInv(b, mem)'
    BY <1>7, <1>8
  <1> QED
    BY <1>12, <1>13, <1>15, <1>16, <1>17, <1>18 DEF FwInv
-----------------------------------------------------------------------------
(* The scratch allocator.                                                  *)
LEMMA SbiScratchInitStep ==
  ASSUME FwInv, NEW h \in Harts, SbiScratchInit(h)
  PROVE  FwInv'
  <1>1. /\ pc[h] = "init" /\ table = None /\ UNCHANGED <<b, mem, pc, base, buf, n, scratch, extra, allocs>>
        /\ table' = [g \in Harts |-> IF Known(g) THEN base[h] + FwLen + (b.count - HartIndex(g)) * StackSize - ScratchSize
                                     ELSE 0]
    BY DEF SbiScratchInit
  <1>2. base[h] = Run(b) /\ Done(b, mem)
    BY <1>1, LateIs DEF Late
  <1>3. (\A g : HartIndex(g)' = HartIndex(g)) /\ (\A g : Known(g)' = Known(g))
    BY <1>1 DEF HartIndex, Known
  <1>4. allocs = {}
    BY <1>1 DEF FwInv, AllocInv
  <1>5. TypeInv' /\ BaseInv'
    BY <1>1 DEF FwInv, TypeInv, BaseInv
  <1>6. HartInv'
    <2>1. \A g \in Harts : Boots(g)' <=> Boots(g)
      BY <1>1 DEF Boots
    <2> QED
      BY <1>1, <2>1 DEF FwInv, HartInv
  <1>7. TableInv'
    <2>1. \A g \in Harts : pc'[g] = "init" => HartIndex(g)' < b'.count /\ scratch'[g] = Space(b', HartIndex(g)')
      BY <1>1, <1>3 DEF FwInv, TableInv
    <2>2. Done(b', mem')
      BY <1>1, <1>2
    <2>3. table' = [g \in Harts |-> IF Known(g)' THEN Run(b') + FwLen + (b'.count - HartIndex(g)') * StackSize - ScratchSize
                                    ELSE 0]
      BY <1>1, <1>2, <1>3
    <2> QED
      BY <2>1, <2>2, <2>3 DEF TableInv
  <1>8. AllocInv'
    <2>1. allocs' = {} /\ extra' = extra
      BY <1>1, <1>4
    <2>2. AllocsSound'
      BY <2>1 DEF AllocsSound
    <2> QED
      BY <2>1, <2>2 DEF FwInv, AllocInv
  <1>9. MemInv(b, mem)'
    BY <1>1 DEF FwInv
  <1> QED
    BY <1>5, <1>6, <1>7, <1>8, <1>9 DEF FwInv

(* A size is rounded up to words.                                          *)
LEMMA RoundedIs ==
  ASSUME NEW size \in Nat
  PROVE  \E k \in Nat : Rounded(size) = k * Pointer /\ size <= k * Pointer
  <1>1. PICK p \in Nat \ {0} : p = Pointer
    BY Lengths
  <1>2. PICK q \in Nat, r \in 0 .. p - 1 : q = size \div p /\ r = size % p /\ q * p + r = size
    BY <1>1, DivMod
  <1>3. PICK qp \in Nat : qp = q * p
    BY <1>1, <1>2
  <1>4. CASE r = 0
    <2>1. Rounded(size) = size
      BY <1>1, <1>2, <1>4 DEF Rounded
    <2>2. size = q * p
      BY <1>2, <1>3, <1>4
    <2>3. size <= size
      BY <1>2, <1>3, <1>4
    <2>4. Rounded(size) = q * Pointer /\ size <= q * Pointer
      BY ONLY <1>1, <2>1, <2>2, <2>3
    <2> QED
      BY ONLY <1>2, <2>4
  <1>5. CASE r # 0
    <2>1. Rounded(size) = q * p + p
      BY <1>1, <1>2, <1>5 DEF Rounded
    <2>2. (q + 1) * p = q * p + p
      BY <1>1, <1>2
    <2>3. size <= qp + p
      BY <1>1, <1>2, <1>3
    <2>4. Rounded(size) = (q + 1) * p /\ size <= (q + 1) * p
      BY <1>3, <2>1, <2>2, <2>3
    <2>5. Rounded(size) = (q + 1) * Pointer /\ size <= (q + 1) * Pointer
      BY ONLY <1>1, <2>4
    <2>6. q + 1 \in Nat
      BY <1>2
    <2> QED
      BY ONLY <2>5, <2>6
  <1> QED
    BY <1>4, <1>5

LEMMA TableIs ==
  ASSUME FwInv, table # None, NEW h \in Harts
  PROVE  /\ ~Known(h) => table[h] = 0
         /\ Known(h) =>
              /\ HartIndex(h) \in 0 .. b.count - 1
              /\ table[h] = Space(b, HartIndex(h))
              /\ table[h] \in Nat \ {0}
  <1>1. /\ b \in Builds
        /\ table[h] = IF Known(h) THEN Run(b) + FwLen + (b.count - HartIndex(h)) * StackSize - ScratchSize ELSE 0
    BY DEF FwInv, TypeInv, TableInv
  <1>2. ASSUME Known(h)
        PROVE  /\ HartIndex(h) \in 0 .. b.count - 1 /\ table[h] = Space(b, HartIndex(h))
               /\ table[h] \in Nat \ {0}
    <2>1. HartIndex(h) \in Int /\ HartIndex(h) \in 0 .. b.count - 1
      BY <1>1, <1>2, IndexIs DEF Known
    <2>2. table[h] = Space(b, HartIndex(h))
      BY <1>1, <1>2, <2>1, SpaceIs
    <2>3. PICK r \in Nat, s \in Int : r = Run(b) /\ s = Space(b, HartIndex(h)) /\ r + FwLen <= s - (StackSize - ScratchSize)
      BY <1>1, <2>1, SpaceIs, BuildIs
    <2>4. s \in Nat \ {0}
      BY <2>3, Lengths
    <2> QED
      BY <2>1, <2>2, <2>3, <2>4
  <1> QED
    BY <1>1, <1>2

LEMMA AllocOffsetStep ==
  ASSUME FwInv, NEW h \in Harts, NEW size \in Sizes, AllocOffset(h, size)
  PROVE  FwInv'
  <1>1. /\ pc[h] = "init" /\ table # None /\ size > 0 /\ ScratchSize * Pointer >= extra + Rounded(size)
        /\ extra' = extra + Rounded(size) /\ allocs' = allocs \cup {<<extra, size>>}
        /\ mem' = [a \in DOMAIN mem |->
             IF \E g \in Harts : table[g] # 0 /\ InRange(extra, extra', (a - table[g]) * Pointer) THEN Num(0) ELSE mem[a]]
        /\ UNCHANGED <<b, pc, base, buf, n, scratch, table>>
    BY DEF AllocOffset
  <1>2. /\ b \in Builds /\ mem \in Memory /\ MemInv(b, mem) /\ Done(b, mem) /\ Clear(b)
    BY <1>1, StateIs, LateIs DEF Late
  <1>3. PICK p \in Nat \ {0}, s \in Nat \ {0}, sp \in Nat : p = Pointer /\ s = ScratchSize /\ sp = s * p
    BY Lengths
  <1>4. PICK e \in Nat, k \in Nat, x \in Nat, y \in Nat :
          x = extra /\ x = e * p /\ y = extra' /\ y = (e + k) * p /\ p <= x /\ x + size <= y /\ y <= sp
    <2>1. size \in Nat
      BY FwAssumption
    <2>2. PICK k \in Nat : Rounded(size) = k * p /\ size <= k * p
      BY <1>3, <2>1, RoundedIs
    <2>3. PICK x \in Nat : x = extra /\ x % p = 0 /\ p <= x
      BY <1>3 DEF FwInv, AllocInv
    <2>4. PICK e \in Nat, r \in 0 .. p - 1 : r = x % p /\ e * p + r = x
      BY <1>3, <2>3, DivMod
    <2>5. PICK ep \in Nat, kp \in Nat : ep = e * p /\ kp = k * p
      BY <1>3, <2>2, <2>4
    <2>6. x = ep
      BY <2>3, <2>4, <2>5
    <2>7. (e + k) * p = ep + kp
      BY <1>3, <2>2, <2>4, <2>5
    <2>8. extra' = ep + kp /\ ep + kp <= sp
      BY <1>1, <1>3, <2>2, <2>3, <2>5, <2>6
    <2>9. size <= kp
      BY <2>2, <2>5
    <2>10. x + size <= ep + kp
      BY <2>1, <2>5, <2>6, <2>9
    <2> QED
      BY <1>3, <2>2, <2>3, <2>4, <2>5, <2>6, <2>7, <2>8, <2>10
  <1> DEFINE S == {a \in DOMAIN mem : \E g \in Harts : table[g] # 0 /\ InRange(extra, extra', (a - table[g]) * Pointer)}
  <1>5. Zeroed(b, S)
    <2>1. ASSUME NEW d \in S
          PROVE  \E i \in 0 .. b.count - 1, j \in 1 .. ScratchSize - 1 : d = Space(b, i) + j
      <3>1. PICK g \in Harts : table[g] # 0 /\ InRange(x, y, (d - table[g]) * p)
        BY <1>3, <1>4
      <3>2. Known(g)
        BY <1>1, <3>1, TableIs
      <3>3. PICK i \in 0 .. b.count - 1, t \in Nat : i = HartIndex(g) /\ t = Space(b, i) /\ t = table[g]
        BY <1>1, <3>2, TableIs
      <3>4. d \in Nat
        BY <1>2 DEF Memory
      <3>5. PICK j \in Int : j = d - t
        BY <3>3, <3>4
      <3>6. x <= j * p /\ j * p < y
        BY <3>1, <3>3, <3>5 DEF InRange
      <3>7. p <= j * p /\ j * p < s * p
        <4>1. PICK jp \in Int : jp = j * p
          BY <1>3, <3>5
        <4>2. p <= jp /\ jp < sp
          BY <1>3, <1>4, <3>6, <4>1
        <4> QED
          BY <1>3, <4>1, <4>2
      <3>8. j \in 1 .. s - 1
        BY <1>3, <3>7, MultipleOf
      <3>9. d = t + j
        BY <3>3, <3>4, <3>5
      <3> QED
        BY <1>3, <3>3, <3>8, <3>9
    <2> QED
      BY <2>1 DEF Zeroed
  <1>6. mem' \in Memory /\ Agree(mem, mem', S) /\ \A d \in DOMAIN mem : mem'[d] = IF d \in S THEN Num(0) ELSE mem[d]
    <2>1. \A d \in DOMAIN mem : mem'[d] = IF d \in S THEN Num(0) ELSE mem[d]
      BY <1>1
    <2>2. DOMAIN mem' = 0 .. MemEnd - 1 /\ DOMAIN mem = 0 .. MemEnd - 1
      BY <1>1, <1>2 DEF Memory
    <2>3. Num(0) \in Value
      BY NumType
    <2>4. mem' = [d \in DOMAIN mem |-> mem'[d]]
      BY <1>1
    <2>5. \A d \in 0 .. MemEnd - 1 : mem'[d] \in Value
      <3> HIDE DEF S
      <3> QED
        BY <1>2, <2>1, <2>2, <2>3 DEF Memory
    <2>6. mem' \in Memory
      BY <2>2, <2>4, <2>5 DEF Memory
    <2> QED
      BY <1>2, <2>1, <2>2, <2>6 DEF Agree
  <1> HIDE DEF S
  <1>7. Unused(b, S) /\ \A d \in S : d \in 0 .. MemEnd - 1 /\ \A o \in 0 .. ImageLen - 1 : d # b.load + o
    BY <1>2, <1>5, SpaceUnused
  <1>8. ASSUME NEW o \in 0 .. ImageLen - 1 PROVE mem'[b.load + o] = mem[b.load + o]
    BY <1>2, <1>6, <1>7, WordsIn DEF Agree
  <1>9. Fixed(b, mem')
    BY <1>2, <1>8, OffsetsIn, Lengths DEF Fixed, MemInv
  <1>10. MemInv(b, mem') /\ (Moved(b, mem) <=> Moved(b, mem')) /\ (Done(b, mem) <=> Done(b, mem'))
    BY <1>2, <1>6, <1>7, <1>9, MemKept
  <1>11. (\A g : HartIndex(g)' = HartIndex(g)) /\ (\A g : Known(g)' = Known(g)) /\ \A g \in Harts : Boots(g)' <=> Boots(g)
    BY <1>1 DEF HartIndex, Known, Boots
  <1>12. TypeInv' /\ BaseInv'
    BY <1>1, <1>6 DEF FwInv, TypeInv, BaseInv, Memory
  <1>13. HartInv'
    <2>1. ASSUME NEW g \in Harts, Boots(g) PROVE BootInv(b, pc[g], mem', buf[g], n)
      <3>1. BootInv(b, pc[g], mem, buf[g], n) /\ buf[g] \in Entries
        BY <2>1, StateIs
      <3>2. pc[g] = "fence2" /\ buf[g] = << >>
        BY <1>2, <3>1, BootQuiet
      <3>3. StageInv(b, "fence2", mem, n)
        BY <1>2, <3>1, <3>2, SeenEmpty DEF BootInv
      <3>4. StageInv(b, "fence2", mem', n)
        BY <1>2, <1>6, <1>7, <3>3, StageKept
      <3>5. PendInv(b, "fence2", mem', << >>)
        BY DEF PendInv, Signals
      <3> QED
        BY <1>6, <3>2, <3>4, <3>5, SeenEmpty DEF BootInv
    <2>2. \A g \in Harts : ~Boots(g)' => buf'[g] = << >>
      BY <1>1, <1>11 DEF FwInv, HartInv
    <2>3. b'.badInfo => \A g \in Harts : pc'[g] \in {"off", "start", "stuck"}
      BY <1>1 DEF FwInv, HartInv
    <2>4. \A g, f \in Harts : Boots(g)' /\ Boots(f)' => g = f
      BY <1>11 DEF FwInv, HartInv
    <2>5. \A g \in Harts : Boots(g)' => BootInv(b', pc'[g], mem', buf'[g], n')
      BY <1>1, <1>11, <2>1
    <2>6. \A g \in Harts : pc'[g] = "wait" => Moved(b', mem')
      BY <1>1, <1>10 DEF FwInv, HartInv
    <2>7. \A g \in Harts : pc'[g] \in Late => Done(b', mem')
      BY <1>1, <1>10 DEF FwInv, HartInv
    <2>8. mem'[b'.load + Lottery] # Num(0)
      <3>1. mem[b.load + Lottery] # Num(0)
        BY <1>1 DEF FwInv, HartInv, Late
      <3> QED
        BY <1>1, <1>8, <3>1, OffsetsIn
    <2> QED
      BY <2>2, <2>3, <2>4, <2>5, <2>6, <2>7, <2>8 DEF HartInv
  <1>14. TableInv'
    <2>1. \A g \in Harts : pc'[g] = "init" => HartIndex(g)' < b'.count /\ scratch'[g] = Space(b', HartIndex(g)')
      BY <1>1, <1>11 DEF FwInv, TableInv
    <2>2. Done(b', mem')
      BY <1>1, <1>2, <1>10
    <2>3. table' = [g \in Harts |-> IF Known(g)' THEN Run(b') + FwLen + (b'.count - HartIndex(g)') * StackSize - ScratchSize
                                    ELSE 0]
      BY <1>1, <1>11 DEF FwInv, TableInv
    <2> QED
      BY <2>1, <2>2, <2>3 DEF TableInv
  <1>15. AllocInv'
    <2>1. x % p = 0 /\ y % p = 0
      <3>1. (e * p + 0) % p = 0 /\ ((e + k) * p + 0) % p = 0
        BY <1>3, <1>4, DivUnique
      <3>2. e * p + 0 = x /\ (e + k) * p + 0 = y
        BY <1>4
      <3> QED
        BY <3>1, <3>2
    <2>2. size \in Nat
      BY FwAssumption
    <2>3. <<extra, size>> \in Nat \X Nat /\ <<extra, size>>[1] = x /\ <<extra, size>>[2] = size
      BY <1>4, <2>2
    <2>4. \A z \in allocs : z[1] \in Nat /\ z[2] \in Nat /\ z[1] + z[2] <= x
      BY <1>4 DEF FwInv, AllocInv
    <2>5. \A z \in allocs' : p <= z[1] /\ z[1] + z[2] <= y /\ z[1] + z[2] <= sp /\ z[1] % p = 0
      <3>1. \A z \in allocs : p <= z[1] /\ z[1] % p = 0
        BY <1>3 DEF FwInv, AllocInv, AllocsSound
      <3>2. \A z \in allocs : z[1] + z[2] <= y /\ z[1] + z[2] <= sp
        BY <1>3, <1>4, <2>2, <2>4
      <3> QED
        BY <1>1, <1>3, <1>4, <2>1, <2>2, <2>3, <3>1, <3>2
    <2>6. \A z, v \in allocs' : z # v => Away(z[1], z[2], v[1], v[2])
      <3>1. \A z, v \in allocs : z # v => Away(z[1], z[2], v[1], v[2])
        BY DEF FwInv, AllocInv, AllocsSound
      <3> QED
        BY <1>1, <2>3, <2>4, <3>1 DEF Away
    <2>7. ASSUME NEW z \in allocs', NEW g \in Harts, NEW l \in 0 .. z[2] - 1, Known(g)
          PROVE  mem'[table[g] + (z[1] + l) \div Pointer] = Num(0)
      <3>1. CASE z \in allocs
        <4> DEFINE d == table[g] + (z[1] + l) \div Pointer
        <4>1. mem[d] = Num(0)
          BY <2>7, <3>1 DEF FwInv, AllocInv, AllocsSound
        <4>2. Zeroed(b, {d})
          BY <2>7, <3>1, AllocWord DEF Zeroed
        <4> HIDE DEF d
        <4>3. d \in DOMAIN mem
          BY <1>2, <4>2, SpaceUnused DEF Memory
        <4>4. mem'[d] = Num(0)
          BY <1>6, <4>1, <4>3
        <4> QED
          BY <4>4 DEF d
      <3>2. CASE z = <<extra, size>>
        <4>1. z[1] = x /\ l \in 0 .. size - 1
          BY <2>3, <3>2
        <4>2. PICK c \in Nat : c = x + l /\ c < x + size /\ x <= c
          BY <2>2, <4>1
        <4>3. p <= c /\ c < sp
          BY <1>3, <1>4, <2>2, <4>2
        <4>4. PICK j \in 1 .. s - 1 : j = c \div p /\ j * p <= c
          BY <1>3, <4>3, AreaWord
        <4>5. e <= j
          <5>1. (e * p + 0) \div p = e
            BY <1>3, <1>4, DivUnique
          <5>2. x \div p = e
            BY <1>4, <5>1
          <5> QED
            BY <1>3, <4>2, <4>4, <5>2, DivMonotone
        <4>6. x <= j * p /\ j * p < y
          <5>1. PICK jp \in Nat : jp = j * p
            BY <1>3, <4>4
          <5>2. e * p <= j * p
            BY <1>3, <4>4, <4>5
          <5>3. x <= jp
            BY <1>4, <5>1, <5>2
          <5>4. jp < y
            BY <1>4, <2>2, <4>2, <4>4, <5>1
          <5> QED
            BY <5>1, <5>3, <5>4
        <4>7. PICK t \in Nat \ {0}, i \in 0 .. b.count - 1 : t = table[g] /\ t = Space(b, i)
          BY <1>1, <2>7, TableIs
        <4>8. t + j \in DOMAIN mem
          <5>1. j \in 0 .. ScratchSize - 1
            BY <1>3, <4>4
          <5>2. Space(b, i) + j \in Run(b) + FwLen .. MemEnd - 1
            BY <1>2, <5>1, SpaceBack
          <5> QED
            BY <1>2, <4>4, <4>7, <5>2 DEF Memory
        <4>9. (t + j) - t = j
          BY <4>4, <4>7
        <4>10. t + j \in S
          BY <1>3, <1>4, <4>6, <4>7, <4>8, <4>9 DEF S, InRange
        <4>11. mem'[t + j] = Num(0)
          BY <1>6, <4>8, <4>10
        <4>12. table[g] + (z[1] + l) \div Pointer = t + j
          BY <1>3, <4>1, <4>2, <4>4, <4>7
        <4> QED
          BY <4>11, <4>12
      <3> QED
        BY <1>1, <2>7, <3>1, <3>2
    <2>8. AllocsSound'
      BY <1>1, <1>3, <1>11, <2>5, <2>6, <2>7 DEF AllocsSound
    <2>9. extra' \in Nat /\ extra' % Pointer = 0 /\ Pointer <= extra' /\ extra' <= ScratchSize * Pointer
      BY <1>3, <1>4, <2>1, <2>2
    <2>10. allocs' \in SUBSET (Nat \X Nat)
      BY <1>1, <2>3 DEF FwInv, AllocInv
    <2>11. \A z \in allocs' : z[1] + z[2] <= extra'
      BY <1>4, <2>5
    <2> QED
      BY <1>1, <2>8, <2>9, <2>10, <2>11 DEF AllocInv
  <1>16. MemInv(b, mem)'
    BY <1>1, <1>10
  <1> QED
    BY <1>12, <1>13, <1>14, <1>15, <1>16 DEF FwInv
-----------------------------------------------------------------------------
(* The invariant.                                                          *)
LEMMA ImageIs ==
  ASSUME NEW link \in Nat, NEW o \in 0 .. ImageLen - 1
  PROVE  /\ o \in {Lottery, Status, Info} => Image(link)[o] = Num(0)
         /\ o \in {LoadStart, LinkStart} => Image(link)[o] = Num(link)
         /\ o = Ptr => Image(link)[o] = Num(link + Target)
         /\ o \notin {Lottery, Status, Info, LoadStart, LinkStart, Ptr} => Image(link)[o] = Code(o)
         /\ Image(link)[o] \in Value
  <1>1. o \in Int /\ link + Target \in Int /\ 0 \in Int
    BY Lengths
  <1>2. Code(o) \in Value /\ Num(0) \in Value /\ Num(link) \in Value /\ Num(link + Target) \in Value
    BY <1>1, ValueType, NumType
  <1>3. /\ o \in {Lottery, Status, Info} => Image(link)[o] = Num(0)
        /\ o \in {LoadStart, LinkStart} => Image(link)[o] = Num(link)
        /\ o = Ptr => Image(link)[o] = Num(link + Target)
        /\ o \notin {Lottery, Status, Info, LoadStart, LinkStart, Ptr} => Image(link)[o] = Code(o)
    BY DEF Image
  <1> QED
    BY <1>2, <1>3

LEMMA InitFwInv ==
  ASSUME Init
  PROVE  FwInv
  <1>1. b \in Builds
    BY DEF Init
  <1>2. PICK ld \in Nat, src \in Nat, link \in Nat :
          /\ ld = b.load /\ src = b.src /\ link = b.link /\ ld + FwLen <= MemEnd
          /\ src # 0 => Away(src, FdtLen, ld, ImageLen) /\ src + FdtLen <= MemEnd
    BY <1>1, Layout, BuildIs
  <1>3. ASSUME NEW a \in 0 .. MemEnd - 1
        PROVE  mem[a] = IF ld <= a /\ a < ld + ImageLen THEN Image(link)[a - ld]
                        ELSE IF src # 0 /\ src <= a /\ a < src + FdtLen THEN Fdt(a - src) ELSE Junk
    BY <1>2, <1>3 DEF Init
  <1>4. mem \in Memory
    <2>1. ASSUME NEW a \in 0 .. MemEnd - 1 PROVE mem[a] \in Value
      <3>1. CASE ld <= a /\ a < ld + ImageLen
        <4>1. PICK o \in 0 .. ImageLen - 1 : o = a - ld
          BY <1>2, <3>1, Lengths
        <4> QED
          BY <1>2, <1>3, <3>1, <4>1, ImageIs
      <3>2. CASE ~(ld <= a /\ a < ld + ImageLen)
        <4>1. a - src \in Int
          BY <1>2, Lengths
        <4>2. Fdt(a - src) \in Value /\ Junk \in Value
          BY <4>1, ValueType
        <4> QED
          BY <1>3, <3>2, <4>2
      <3> QED
        BY <3>1, <3>2
    <2>2. mem = [a \in 0 .. MemEnd - 1 |-> mem[a]]
      BY DEF Init
    <2> QED
      BY <2>1, <2>2 DEF Memory
  <1>5. ASSUME NEW o \in 0 .. ImageLen - 1 PROVE mem[ld + o] = Image(link)[o]
    <2>1. ld + o \in 0 .. MemEnd - 1 /\ ld <= ld + o /\ ld + o < ld + ImageLen /\ (ld + o) - ld = o
      BY <1>2, Lengths
    <2> QED
      BY <1>3, <2>1
  <1>6. Original(b, mem)
    <2>1. \A o \in Words \ {LoadStart, Ptr} : mem[ld + o] = Final(b, o)
      <3>1. ASSUME NEW o \in Words, o # LoadStart, o # Ptr PROVE mem[ld + o] = Final(b, o)
        <4>1. o \in 0 .. ImageLen - 1 /\ o \notin {Lottery, Status, Info}
          BY DEF Words
        <4>2. CASE o = LinkStart
          BY <1>2, <1>5, <3>1, <4>1, <4>2, ImageIs DEF Final
        <4>3. CASE o # LinkStart
          BY <1>2, <1>5, <3>1, <4>1, <4>3, ImageIs DEF Final
        <4> QED
          BY <4>2, <4>3
      <3> QED
        BY <3>1
    <2>2. ~b.pic => mem[ld + Ptr] = Final(b, Ptr)
      BY <1>2, <1>5, ImageIs, OffsetsIn DEF Final, Run
    <2>3. mem[ld + Status] = Num(0)
      BY <1>2, <1>5, ImageIs, OffsetsIn
    <2> QED
      BY <1>2, <2>1, <2>2, <2>3 DEF Original
  <1>7. SrcAt(b, mem)
    <2>1. ASSUME src # 0, NEW l \in 0 .. FdtLen - 1 PROVE mem[src + l] = Fdt(l)
      <3>1. src + l \in 0 .. MemEnd - 1 /\ (src + l) - src = l /\ src <= src + l /\ src + l < src + FdtLen
        BY <1>2, <2>1, Lengths
      <3>2. ~(ld <= src + l /\ src + l < ld + ImageLen)
        BY <1>2, <2>1, Lengths DEF Away
      <3> QED
        BY <1>3, <2>1, <3>1, <3>2
    <2> QED
      BY <1>2, <2>1 DEF SrcAt
  <1>8. MemInv(b, mem)
    <2>1. Fixed(b, mem)
      <3>1. \A o \in 0 .. 3 : o \in 0 .. ImageLen - 1
        BY Lengths
      <3>2. \A o \in 0 .. 3 : mem[ld + o] = Code(o)
        BY <1>2, <1>5, <3>1, ImageIs
      <3>3. mem[ld + LinkStart] = Num(link) /\ mem[ld + Lottery] = Num(0)
        <4>1. mem[ld + LinkStart] = Image(link)[LinkStart] /\ mem[ld + Lottery] = Image(link)[Lottery]
          BY <1>5, OffsetsIn
        <4>2. Image(link)[LinkStart] = Num(link) /\ Image(link)[Lottery] = Num(0)
          BY OffsetsIn, ImageIs
        <4> QED
          BY <4>1, <4>2
      <3>4. Num(0) \in {"num"} \X Nat
        BY DEF Num
      <3> QED
        BY <1>2, <3>2, <3>3, <3>4 DEF Fixed
    <2>2. ASSUME Moved(b, mem) PROVE Clear(b) /\ CodeAt(b, mem) /\ mem[Run(b) + Status] \in {Num(0), Num(1), Num(2)}
      <3>1. ~Moves(b)
        BY <1>6, <2>2 DEF Original, Moved
      <3>2. Run(b) = b.load
        BY <1>1, <3>1, BuildIs
      <3> QED
        BY <1>6, <3>1, <3>2 DEF Clear, CodeAt, Original
    <2>3. ~Done(b, mem)
      BY <1>1, <1>6, FreshWaits
    <2> QED
      BY <2>1, <2>2, <2>3 DEF MemInv
  <1>9. pc = [h \in Harts |-> "off"] /\ base = [h \in Harts |-> b.load] /\ buf = [h \in Harts |-> << >>]
    BY DEF Init
  <1>10. \A h \in Harts : ~Boots(h)
    BY <1>9 DEF Boots, Before, Front, Back
  <1>11. TypeInv
    <2>1. Len(<< >>) = 0 /\ << >> \in Seq((0 .. MemEnd - 1) \X Value) /\ 0 <= BufMax /\ 0 \in 0 .. MemEnd
      BY Lengths
    <2>2. pc \in [Harts -> Labels] /\ base \in [Harts -> {b.load, b.link}]
      BY <1>9 DEF Labels
    <2>3. DOMAIN scratch = Harts /\ n = 0
      BY DEF Init
    <2>4. buf \in [Harts -> Seq((0 .. MemEnd - 1) \X Value)] /\ \A h \in Harts : Len(buf[h]) <= BufMax
      BY <1>9, <2>1
    <2> QED
      BY <1>1, <1>4, <2>1, <2>2, <2>3, <2>4 DEF TypeInv, Memory
  <1>12. BaseInv
    BY <1>9 DEF BaseInv, Early
  <1>13. HartInv
    BY <1>6, <1>7, <1>9, <1>10 DEF HartInv, Late
  <1>14. TableInv
    BY <1>9 DEF Init, TableInv
  <1>15. AllocInv
    <2>1. PICK p \in Nat \ {0}, s \in Nat \ {0} : p = Pointer /\ s = ScratchSize
      BY Lengths
    <2>2. p % p = 0 /\ p <= p /\ p <= s * p
      <3>1. 1 * p <= s * p
        BY <2>1
      <3>2. (1 * p + 0) % p = 0
        BY <2>1, DivUnique
      <3> QED
        BY <2>1, <3>1, <3>2
    <2>3. extra = Pointer /\ allocs = {}
      BY DEF Init
    <2>4. AllocsSound
      BY <2>3 DEF AllocsSound
    <2> QED
      BY <2>1, <2>2, <2>3, <2>4 DEF AllocInv
  <1> QED
    BY <1>8, <1>11, <1>12, <1>13, <1>14, <1>15 DEF FwInv

LEMMA NextFwInv ==
  ASSUME FwInv, InOrder, [Next]_vars
  PROVE  FwInv'
  <1>1. CASE UNCHANGED vars
    <2>1. Quiet /\ UNCHANGED <<pc, base, buf, n, scratch>>
      BY <1>1 DEF vars, Quiet
    <2>2. MemInv(b, mem)' /\ AllocInv' /\ (\A h : HartIndex(h)' = HartIndex(h)) /\ (\A h : Known(h)' = Known(h))
      BY <2>1, QuietRest
    <2>3. \A h \in Harts : Boots(h)' <=> Boots(h)
      BY <2>1 DEF Boots, Quiet
    <2>4. TypeInv' /\ BaseInv'
      BY <2>1 DEF FwInv, TypeInv, BaseInv, Quiet
    <2>5. HartInv'
      BY <2>1, <2>3 DEF FwInv, HartInv, Quiet
    <2>6. TableInv'
      BY <2>1, <2>2 DEF FwInv, TableInv, Quiet
    <2> QED
      BY <2>2, <2>4, <2>5, <2>6 DEF FwInv
  <1>2. CASE Next
    <2>1. PICK h \in Harts :
            \/ Drain(h) \/ Enter(h) \/ Start(h) \/ TryLottery(h) \/ SaveLoadStart(h) \/ PicRelocate(h)
            \/ Relocate(h) \/ Copy(h) \/ WaitRelocateCopyDone(h) \/ RelocateDone(h) \/ RelocateFence(h)
            \/ BssZero(h) \/ SaveInfo(h) \/ ScratchInit(h) \/ FdtReloc(h) \/ BootHartDone(h)
            \/ BootHartFence(h) \/ WaitForBootHart(h) \/ StartWarm(h) \/ Restart(h)
            \/ SbiScratchInit(h) \/ \E size \in Sizes : AllocOffset(h, size)
      BY <1>2 DEF Next
    <2>2. ASSUME NEW size \in Sizes, AllocOffset(h, size) PROVE FwInv'
      BY <2>2, AllocOffsetStep
    <2> QED
      BY <2>1, <2>2, DrainStep, EnterStep, StartStep, TryLotteryStep, SaveLoadStartStep, PicRelocateStep,
         RelocateStep, CopyStep, WaitRelocateStep, RelocateDoneStep, RelocateFenceStep, BssZeroStep,
         SaveInfoStep, ScratchInitStep, FdtRelocStep, BootHartDoneStep, BootHartFenceStep, WaitForBootStep,
         StartWarmStep, RestartStep, SbiScratchInitStep
  <1> QED
    BY <1>1, <1>2

(* The inductive invariant of _start ... sbi_init: one hart boots the      *)
(* others, its stores arrive in the order of the code, and the word it     *)
(* polls comes after all that a hart goes on to use.                       *)
THEOREM FwInvHolds ==
  ASSUME InOrder
  PROVE  Spec => []FwInv
  <1>1. Init => FwInv
    BY InitFwInv
  <1>2. FwInv /\ [Next]_vars => FwInv'
    BY NextFwInv
  <1> QED
    BY <1>1, <1>2, PTL DEF Spec
-----------------------------------------------------------------------------
(* What it implies.                                                        *)
LEMMA CodeWords ==
  ASSUME NEW o \in 0 .. ImageLen - 1, Image(0)[o] = Code(o)
  PROVE  o \in Words \ {LoadStart, LinkStart, Ptr}
  <1>1. \A x : Num(x) # Code(o)
    BY ValueOf
  <1>2. o \notin {Lottery, Status, Info, LoadStart, LinkStart, Ptr}
    BY <1>1, ImageIs
  <1> QED
    BY <1>2 DEF Words

LEMMA RunsCode ==
  ASSUME FwInv, NEW h \in Harts, NEW o \in Needs(pc[h])
  PROVE  Load(h, base[h] + o) = Code(o)
  <1> DEFINE v == Seen(mem, buf[h])
  <1>1. /\ b \in Builds /\ mem \in Memory /\ buf[h] \in Entries /\ MemInv(b, mem) /\ pc[h] \in Labels
        /\ (~Boots(h) => buf[h] = << >>)
        /\ base[h] = (IF pc[h] \in Early \cup Before \cup {"copy"} THEN b.load ELSE Run(b))
    BY StateIs DEF FwInv, TypeInv
  <1>2. o \in 0 .. ImageLen - 1 /\ (pc[h] \in Early \cup Before \cup {"copy"} => o \in 0 .. 3)
    BY Lengths DEF Needs, Early, Before
  <1>3. Load(h, base[h] + o) = v[base[h] + o] /\ (buf[h] = << >> => v = mem)
    BY <1>1, <1>2, WordIs, SeenEmpty
  <1>4. \A i \in 0 .. 3 : mem[b.load + i] = Code(i) /\ Final(b, i) = Code(i) /\ i \in Words \ {LoadStart, Ptr}
    BY <1>1, FinalIs DEF MemInv, Fixed
  <1>5. b.badInfo => pc[h] \in {"off", "start", "stuck"}
    BY DEF FwInv, HartInv
  <1> HIDE DEF v
  <1>6. CASE pc[h] \in Early
    <2>1. ~Boots(h) /\ base[h] = b.load
      BY <1>1, <1>6 DEF Boots, Early, Before, Front, Back
    <2> QED
      BY <1>1, <1>2, <1>3, <1>4, <1>6, <2>1
  <1>7. CASE pc[h] \in {"off", "hang", "stuck"}
    BY <1>7 DEF Needs
  <1>8. ASSUME pc[h] \in {"save", "pic", "relocate"} PROVE v[base[h] + o] = Code(o)
    <2>1. Boots(h) /\ base[h] = b.load /\ o \in 0 .. 3
      BY <1>1, <1>2, <1>5, <1>8 DEF Boots, Before
    <2>2. StageInv(b, pc[h], v, n)
      BY <2>1, StateIs DEF BootInv, v
    <2>3. Original(b, v)
      BY <1>8, <2>2 DEF StageInv, Fresh
    <2> QED
      BY <1>4, <2>1, <2>3 DEF Original
  <1>9. ASSUME pc[h] = "copy" PROVE v[base[h] + o] = Code(o)
    <2>1. Boots(h) /\ base[h] = b.load /\ o \in 0 .. 3
      BY <1>1, <1>2, <1>5, <1>9 DEF Boots, Front
    <2>2. StageInv(b, "copy", v, n) /\ PendInv(b, "copy", mem, buf[h])
      BY <1>9, <2>1, StateIs DEF BootInv, v
    <2>3. Clear(b) /\ Within(buf[h], FrontArea(b))
      BY <2>2 DEF StageInv, PendInv
    <2>4. PICK a \in 0 .. MemEnd - 1 : a = b.load + o
      BY <1>1, <1>2, WordsIn
    <2>5. \A k \in DOMAIN buf[h] : buf[h][k][1] # a
      BY <1>1, <2>1, <2>3, <2>4, FrontApart DEF Within, Polled
    <2>6. v[a] = mem[a]
      BY <1>1, <2>5, SeenOutside DEF v
    <2> QED
      BY <1>4, <2>1, <2>4, <2>6
  <1>10. ASSUME pc[h] \in {"status", "fence"} \cup Back \cup {"wait", "warm", "init"} PROVE v[base[h] + o] = Code(o)
    <2>1. base[h] = Run(b)
      BY <1>1, <1>10 DEF Early, Before, Back
    <2>2. Image(0)[o] = Code(o)
      BY <1>10 DEF Needs, Back
    <2>3. o \in Words \ {LoadStart, LinkStart, Ptr}
      BY <1>2, <2>2, CodeWords
    <2>4. Final(b, o) = Code(o)
      BY <2>3 DEF Words, Final
    <2>5. CASE pc[h] \in {"status", "fence"} \cup Back
      <3>1. Boots(h)
        BY <1>5, <2>5 DEF Boots, Front, Back
      <3>2. StageInv(b, pc[h], v, n)
        BY <3>1, StateIs DEF BootInv, v
      <3>3. ImageAt(b, v)
        BY <2>5, <3>2 DEF StageInv, Back, Ahead, Steady
      <3> QED
        BY <2>1, <2>3, <2>4, <3>3 DEF ImageAt
    <2>6. CASE pc[h] = "wait"
      <3>1. ~Boots(h) /\ Moved(b, mem)
        BY <2>6 DEF Boots, Before, Front, Back, FwInv, HartInv
      <3>2. CodeAt(b, mem) /\ v = mem
        BY <1>1, <1>3, <3>1 DEF MemInv
      <3> QED
        BY <2>1, <2>3, <2>4, <3>2 DEF CodeAt
    <2>7. CASE pc[h] \in {"warm", "init"}
      <3>1. ImageAt(b, mem) /\ v = mem
        BY <1>3, <2>7, LateIs DEF Late, Complete
      <3> QED
        BY <2>1, <2>3, <2>4, <3>1 DEF ImageAt
    <2> QED
      BY <1>10, <2>5, <2>6, <2>7
  <1>11. \/ pc[h] \in Early \/ pc[h] \in {"off", "hang", "stuck"} \/ pc[h] \in {"save", "pic", "relocate"}
         \/ pc[h] = "copy" \/ pc[h] \in {"status", "fence"} \cup Back \cup {"wait", "warm", "init"}
    BY <1>1 DEF Labels, Early, Back
  <1> QED
    BY <1>3, <1>6, <1>7, <1>8, <1>9, <1>10, <1>11

LEMMA RunsIntact ==
  ASSUME FwInv
  PROVE  RunsIntactCode
  <1>1. ASSUME NEW h \in Harts, pc[h] = "waitcopy" PROVE Word(h, LinkStart) = b.link
    <2>1. ~Boots(h)
      BY <1>1 DEF Boots, Before, Front, Back
    <2>2. base[h] = b.load /\ buf[h] = << >> /\ mem[b.load + LinkStart] = Num(b.link)
      BY <1>1, <2>1, StateIs DEF Early, MemInv, Fixed
    <2>3. Word(h, LinkStart) = mem[b.load + LinkStart][2]
      BY <2>2, WordIs, OffsetsIn
    <2> QED
      BY <2>2, <2>3, ValueOf
  <1>2. ASSUME NEW h \in Harts, pc[h] = "init" PROVE Word(h, Ptr) = base[h] + Target
    <2>1. base[h] = Run(b) /\ buf[h] = << >> /\ ImageAt(b, mem) /\ b \in Builds
      BY <1>2, LateIs, StateIs DEF Late, Complete
    <2>2. mem[Run(b) + Ptr] = Num(Run(b) + Target)
      BY <2>1, FinalIs DEF ImageAt
    <2>3. Word(h, Ptr) = mem[base[h] + Ptr][2]
      BY <2>1, WordIs, OffsetsIn
    <2>4. mem[base[h] + Ptr] = Num(Run(b) + Target)
      BY <2>1, <2>2
    <2> QED
      BY <2>1, <2>3, <2>4, ValueOf
  <1> QED
    BY <1>1, <1>2, RunsCode DEF RunsIntactCode

(* A hart of the platform in sbi_init.                                     *)
LEMMA InSbiInit ==
  ASSUME FwInv, NEW h \in Harts, pc[h] = "init", Known(h)
  PROVE  /\ b \in Builds /\ HartIndex(h) \in 0 .. b.count - 1 /\ scratch[h] = Space(b, HartIndex(h))
         /\ mem[scratch[h]] = Header(Run(b), Arg(b)) /\ base[h] = Run(b) /\ TreeAt(b, mem)
  <1>1. b \in Builds /\ base[h] = Run(b) /\ Complete(b, mem)
    BY LateIs, StateIs DEF Late
  <1>2. HartIndex(h) \in 0 .. b.count - 1 /\ scratch[h] = Space(b, HartIndex(h))
    BY <1>1, IndexIs DEF FwInv, TableInv, Known
  <1>3. mem[Space(b, HartIndex(h))] = Header(Run(b), Arg(b))
    BY <1>1, <1>2 DEF Complete, HeadersAt
  <1> QED
    BY <1>1, <1>2, <1>3 DEF Complete

LEMMA ScratchIs ==
  ASSUME FwInv
  PROVE  ScratchReady
  <1>1. ASSUME NEW h \in Harts, pc[h] = "init", Known(h)
        PROVE  /\ base[h] = IF b.pic THEN b.load ELSE b.link
               /\ mem[scratch[h]][1] = "scratch" /\ mem[scratch[h]][2][1] = base[h]
               /\ Stack(h) \subseteq base[h] + FwLen .. base[h] + RuntimeEnd(b) - 1
               /\ \A g \in Harts \ {h} : pc[g] = "init" => Stack(g) \cap Stack(h) = {}
               /\ table # None => table[h] = scratch[h]
    <2>1. /\ b \in Builds /\ HartIndex(h) \in 0 .. b.count - 1 /\ scratch[h] = Space(b, HartIndex(h))
          /\ mem[scratch[h]] = Header(Run(b), Arg(b)) /\ base[h] = Run(b)
      BY <1>1, InSbiInit
    <2>2. mem[scratch[h]][1] = "scratch" /\ mem[scratch[h]][2][1] = base[h]
      BY <2>1, ValueOf
    <2>3. PICK ss \in Nat, sc \in Nat \ {0} : ss = StackSize /\ sc = ScratchSize /\ sc <= ss
      BY Lengths
    <2>4. PICK i \in Int, sp \in Int, lo \in Int, hi \in Int :
            /\ i = HartIndex(h) /\ sp = Space(b, i) /\ sp = scratch[h]
            /\ lo = base[h] + FwLen /\ hi = base[h] + RuntimeEnd(b) - 1
            /\ lo <= sp - (ss - sc) /\ sp + sc - 1 <= hi
      <3>1. PICK end \in Nat, r \in Nat, f \in Nat : end = RuntimeEnd(b) /\ r = base[h] /\ f = FwLen
        BY <2>1, Layout, BuildIs, Lengths
      <3>2. PICK i \in Int : i = HartIndex(h) /\ i \in 0 .. b.count - 1
        BY <2>1
      <3>3. PICK sp \in Int :
              sp = Space(b, i) /\ Run(b) + FwLen <= sp - (StackSize - ScratchSize) /\ sp + ScratchSize <= Run(b) + RuntimeEnd(b)
        BY <2>1, <3>2, SpaceIs
      <3>4. r + f <= sp - (ss - sc) /\ sp + sc <= r + end /\ r + f \in Int /\ r + end \in Int
        BY <2>1, <2>3, <3>1, <3>3
      <3>5. sp = scratch[h]
        BY <2>1, <3>2, <3>3
      <3>6. PICK lo \in Int, hi \in Int : lo = r + f /\ hi = r + end - 1
        BY <3>1
      <3>7. lo <= sp - (ss - sc) /\ sp + sc - 1 <= hi
        BY <2>3, <3>1, <3>3, <3>4, <3>6
      <3>8. lo = base[h] + FwLen /\ hi = base[h] + RuntimeEnd(b) - 1
        BY ONLY <3>1, <3>6
      <3> QED
        BY <3>2, <3>3, <3>5, <3>6, <3>7, <3>8
    <2>5. Stack(h) \subseteq base[h] + FwLen .. base[h] + RuntimeEnd(b) - 1
      <3>1. Stack(h) = (sp - (ss - sc)) .. (sp + sc - 1)
        BY <2>3, <2>4 DEF Stack
      <3>2. (sp - (ss - sc)) .. (sp + sc - 1) \subseteq lo .. hi
        BY <2>3, <2>4
      <3>3. base[h] + FwLen = lo /\ base[h] + RuntimeEnd(b) - 1 = hi
        BY <2>4
      <3> QED
        BY ONLY <3>1, <3>2, <3>3
    <2>6. ASSUME NEW g \in Harts \ {h}, pc[g] = "init" PROVE Stack(g) \cap Stack(h) = {}
      <3>1. HartIndex(g) \in Int /\ scratch[g] = Space(b, HartIndex(g)) /\ HartIndex(g) # i
        BY <2>1, <2>4, <2>6, IndexIs DEF FwInv, TableInv
      <3>2. PICK st \in Int : st = scratch[g] /\ (sp + ss <= st \/ st + ss <= sp)
        BY <2>1, <2>3, <2>4, <3>1, SpaceIs, SpaceApart
      <3>3. /\ Stack(g) = (st - (ss - sc)) .. (st + sc - 1)
            /\ Stack(h) = (sp - (ss - sc)) .. (sp + sc - 1)
        BY <2>3, <2>4, <3>2 DEF Stack
      <3>4. ASSUME NEW x \in (st - (ss - sc)) .. (st + sc - 1) PROVE x \notin (sp - (ss - sc)) .. (sp + sc - 1)
        BY <2>3, <2>4, <3>2
      <3> QED
        BY <3>3, <3>4
    <2>7. table # None => table[h] = scratch[h]
      BY <1>1, <2>1, TableIs
    <2> QED
      BY <2>1, <2>2, <2>3, <2>5, <2>6, <2>7 DEF Run
  <1> QED
    BY <1>1 DEF ScratchReady

LEMMA FdtIs ==
  ASSUME FwInv
  PROVE  FdtIntact
  <1>1. ASSUME NEW h \in Harts, pc[h] = "init", Known(h), b.src # 0,
               NEW dst, dst = mem[scratch[h]][2][2], dst # 0, ~(b.src < dst /\ dst < b.src + FdtLen),
               NEW k \in 0 .. FdtLen - 1
        PROVE  mem[dst + k] = Fdt(k)
    <2>1. mem[scratch[h]] = Header(Run(b), Arg(b)) /\ TreeAt(b, mem)
      BY <1>1, InSbiInit
    <2>2. dst = Arg(b)
      BY <1>1, <2>1, ValueOf
    <2>3. TreeMoves(b)
      BY <1>1, <2>2 DEF TreeMoves
    <2> QED
      BY <2>1, <2>2, <2>3 DEF TreeAt
  <1> QED
    BY <1>1 DEF FdtIntact

LEMMA TypeIs ==
  ASSUME FwInv
  PROVE  TypeOK
  BY DEF FwInv, TypeInv, AllocInv, TypeOK

(* The state of the entry is what its type says: registers hold addresses  *)
(* of one of the two copies, and counters stay in memory.                  *)
THEOREM FwTypeOK ==
  ASSUME InOrder
  PROVE  Spec => []TypeOK
  <1>1. FwInv => TypeOK
    BY TypeIs
  <1> QED
    BY <1>1, FwInvHolds, PTL

(* No hart runs a word of code that is not there yet, or not there any     *)
(* more, while _relocate moves the firmware and _bss_zero, _scratch_init   *)
(* and the copy of the device tree write behind it, whenever harts come    *)
(* out of reset; and waiting harts read the link address they need.        *)
THEOREM RunsIntactCodeHolds ==
  ASSUME InOrder
  PROVE  Spec => []RunsIntactCode
  <1>1. FwInv => RunsIntactCode
    BY RunsIntact
  <1> QED
    BY <1>1, FwInvHolds, PTL

(* A hart of the platform that _start_warm lets into sbi_init has a        *)
(* scratch space that _scratch_init filled, that no other hart's space or  *)
(* stack shares, inside of the firmware's range, and that                  *)
(* hartid_to_scratch_table will name.                                      *)
THEOREM ScratchReadyHolds ==
  ASSUME InOrder
  PROVE  Spec => []ScratchReady
  <1>1. FwInv => ScratchReady
    BY ScratchIs
  <1> QED
    BY <1>1, FwInvHolds, PTL

(* Where fw_next_arg1 points, the whole device tree is there when a hart   *)
(* enters sbi_init, unless _fdt_reloc_again copied it upwards onto itself. *)
THEOREM FdtIntactHolds ==
  ASSUME InOrder
  PROVE  Spec => []FdtIntact
  <1>1. FwInv => FdtIntact
    BY FdtIs
  <1> QED
    BY <1>1, FwInvHolds, PTL

(* The areas of sbi_scratch_alloc_offset lie in the scratch space behind   *)
(* its header, are aligned, share no byte and are zero in the space of     *)
(* every hart.                                                             *)
THEOREM AllocsSoundHolds ==
  ASSUME InOrder
  PROVE  Spec => []AllocsSound
  <1>1. FwInv => AllocsSound
    BY DEF FwInv, AllocInv
  <1> QED
    BY <1>1, FwInvHolds, PTL
===============================================================================
