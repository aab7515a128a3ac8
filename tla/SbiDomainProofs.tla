---------------------------- MODULE SbiDomainProofs ----------------------------
(* Proofs about domains: the order of their regions, what merging does to  *)
(* the access of addresses, the protection of devices, the harts that boot *)
(* domains, and their PMP.                                                 *)
EXTENDS SbiDomain, SequenceTheorems, NumberLemmas

(* Numbers and regions.                                                    *)
LEMMA Widths ==
  Xlen \in Nat \ {0} /\ MinOrder \in Nat \ {0} /\ Space \in Nat \ {0} /\ Addrs \subseteq Nat
  <1>1. Xlen \in Nat \ {0} /\ MinOrder \in Nat \ {0}
    BY DomainAssumption
  <1>2. PICK s \in Nat \ {0} : s = Space
    BY <1>1, PowPositive DEF Space
  <1> QED
    BY <1>1, <1>2 DEF Addrs

LEMMA Blocks ==
  ASSUME NEW addr \in Addrs, NEW order \in Nat
  PROVE  Block(addr, order) \in Addrs
  <1>1. PICK p \in Nat \ {0} : p = 2^order
    BY PowPositive
  <1>2. addr \in Nat
    BY Widths
  <1>3. PICK q \in Nat, r \in 0 .. p - 1 : q = addr \div p /\ r = addr % p /\ q * p + r = addr
    BY <1>1, <1>2, DivMod
  <1>4. PICK b \in Nat : b = q * p
    OBVIOUS
  <1>5. b <= addr
    BY <1>3, <1>4
  <1>6. Block(addr, order) = b
    BY <1>1, <1>3, <1>4 DEF Block
  <1>7. b \in Addrs
    BY <1>4, <1>5, Widths DEF Addrs
  <1> QED
    BY <1>6, <1>7

LEMMA Inits ==
  ASSUME NEW addr \in Addrs, NEW size, NEW flags \in SUBSET Flags
  PROVE  /\ MemregionInit(addr, size, flags) \in Region
         /\ MemregionInit(addr, size, flags).order = Xlen => MemregionInit(addr, size, flags).base = 0
  <1> DEFINE S == {n \in 0 .. Xlen - 1 : size <= 2^n} \cup {Xlen}
  <1>1. S \in SUBSET Nat /\ S # {} /\ S \subseteq 0 .. Xlen
    BY Widths
  <1>2. Log2RoundUp(size) \in 0 .. Xlen
    BY <1>1, MinIn DEF Log2RoundUp
  <1> HIDE DEF S
  <1>3. PICK l \in 0 .. Xlen : l = Log2RoundUp(size)
    BY <1>2
  <1> DEFINE T == {o \in l .. Xlen - 1 : Holds(addr, size, o)} \cup {Xlen}
  <1>4. T \in SUBSET Nat /\ T # {} /\ T \subseteq 0 .. Xlen
    BY Widths
  <1>5. PICK order \in 0 .. Xlen : order = Min(T)
    BY <1>4, MinIn
  <1>6. MemregionInit(addr, size, flags) =
          [base |-> IF order < Xlen THEN Block(addr, order) ELSE 0, order |-> order, flags |-> flags]
    BY <1>3, <1>5 DEF MemregionInit
  <1>7. Block(addr, order) \in Addrs /\ 0 \in Addrs
    BY Blocks, Widths DEF Addrs
  <1> QED
    BY <1>6, <1>7, Widths DEF Region

LEMMA Tiles ==
  ASSUME NEW pos \in Nat, NEW left \in Nat
  PROVE  TileSize(pos, left) \in Nat
  <1> DEFINE S == {2^n : n \in {m \in 0 .. Xlen - 1 : pos % 2^m = 0}}
  <1>1. S \in SUBSET (0 .. Space)
    BY Widths, PowPositive, PowMonotone DEF Space
  <1>2. S # {}
    <2>1. 2^0 = 1
      OBVIOUS
    <2>2. pos % 2^0 = 0
      BY <2>1
    <2>3. 0 \in {m \in 0 .. Xlen - 1 : pos % 2^m = 0}
      BY <2>2, Widths
    <2> QED
      BY <2>3
  <1>3. Low(pos) \in Nat
    <2>1. Max(S) \in S
      BY <1>1, <1>2, Widths, MaxIn
    <2> QED
      BY <1>1, <2>1 DEF Low
  <1>4. TileMax \in Nat
    BY DomainAssumption, PowPositive
  <1> QED
    BY <1>3, <1>4 DEF TileSize
-----------------------------------------------------------------------------
LEMMA RegionNat ==
  ASSUME NEW c \in Region
  PROVE  c.order \in Nat /\ c.base \in Nat
  <1>1. c.order \in Nat
    BY Widths DEF Region
  <1>2. c.base \in Nat
    BY Widths DEF Region
  <1> QED
    BY <1>1, <1>2

(* The order of regions: a may come before b in a list.                    *)
Ordered(a, b) == ~Before(b, a) /\ (a.order < Xlen => a # b)
OrderedList(rs) == \A k, l \in DOMAIN rs : k < l => Ordered(rs[k], rs[l])

LEMMA BitIs ==
  ASSUME NEW n \in 0 .. Xlen - 1
  PROVE  Bit(n) = 2^n
  <1>1. n % Xlen = n
    BY Widths
  <1> QED
    BY <1>1 DEF Bit

LEMMA ValidFits ==
  ASSUME NEW a \in Region, Valid(a), a.order < Xlen
  PROVE  \E p \in Nat : p = 2^a.order /\ p = Bit(a.order) /\ p > 1 /\ a.base + p <= Space
  <1>1. a.order \in Nat /\ a.order > 0 /\ a.order \in 0 .. Xlen - 1 /\ a.order <= Xlen
    BY Widths DEF Region, Valid
  <1>2. PICK p \in Nat : p = 2^a.order /\ p > 1
    BY <1>1, PowPositive
  <1>3. Bit(a.order) = p
    BY <1>1, <1>2, BitIs
  <1>4. a.base % 2^a.order = 0
    BY <1>2, <1>3 DEF Valid
  <1>5. a.base \in 0 .. 2^Xlen - 1
    BY DEF Region, Addrs, Space
  <1>6. a.base + 2^a.order <= 2^Xlen
    BY <1>1, <1>4, <1>5, Widths, BlockFits
  <1> QED
    BY <1>2, <1>3, <1>6 DEF Space

LEMMA SelfConflict ==
  ASSUME NEW a \in Region, Valid(a), a.order < Xlen
  PROVE  Conflict(a, a)
  <1>1. PICK p \in Nat : p = Bit(a.order) /\ p > 1 /\ a.base + p <= Space
    BY ValidFits
  <1>2. a.base \in Nat
    BY Widths DEF Region
  <1>3. a.base + p - 1 \in 0 .. Space - 1
    BY <1>1, <1>2, Widths
  <1>4. Wrap(a.base + Bit(a.order) - 1) = a.base + p - 1
    BY <1>1, <1>3, Widths DEF Wrap
  <1>5. Subset(a, a)
    BY <1>1, <1>2, <1>4 DEF Subset
  <1> QED
    BY <1>5 DEF Conflict

LEMMA Compared ==
  ASSUME NEW a \in Region, NEW b \in Region
  PROVE  /\ Before(b, a) => Ordered(b, a)
         /\ ~Before(b, a) /\ ~Conflict(b, a) /\ Valid(a) => Ordered(a, b)
         /\ \A c \in Region : Before(b, a) /\ Ordered(a, c) => Ordered(b, c)
  <1>1. \A c \in Region : c.order \in Nat /\ c.base \in Nat
    BY RegionNat
  <1>2. Before(b, a) => Ordered(b, a)
    BY <1>1 DEF Before, Ordered
  <1>3. ~Before(b, a) /\ ~Conflict(b, a) /\ Valid(a) => Ordered(a, b)
    BY SelfConflict DEF Ordered
  <1>4. ASSUME NEW c \in Region, Before(b, a), Ordered(a, c) PROVE Ordered(b, c)
    BY <1>1, <1>4 DEF Before, Ordered
  <1> QED
    BY <1>2, <1>3, <1>4

(* Buddies of a sorted list merge into a region of a legal order.          *)
MergeOf(m, a, b) ==
  /\ Valid(a) /\ Valid(b) /\ Ordered(a, b) /\ Buddies(a, b)
  /\ m.order = a.order + 1 /\ m.order <= Xlen /\ m.base = a.base /\ m.flags = a.flags

LEMMA Merged ==
  ASSUME NEW a \in Region, NEW b \in Region, Valid(a), Valid(b), Ordered(a, b), Buddies(a, b),
         a.order = Xlen => a.base = 0, b.order = Xlen => b.base = 0
  PROVE  a.order + 1 \in 0 .. Xlen /\ (a.order + 1 = Xlen => a.base = 0)
  <1>1. /\ a.order = b.order /\ Wrap(a.base + Bit(a.order)) = b.base
        /\ a.order \in 0 .. Xlen /\ a.base \in Nat /\ b.base \in Nat
    BY Widths DEF Buddies, Region
  <1>2. a.order # Xlen
    <2> SUFFICES ASSUME a.order = Xlen PROVE FALSE
      OBVIOUS
    <2>1. a.base = 0 /\ b.base = 0
      BY <1>1
    <2>2. Xlen % Xlen = 0
      BY Widths
    <2>3. 2^0 = 1
      OBVIOUS
    <2>4. Bit(a.order) = 1
      BY <2>2, <2>3 DEF Bit
    <2>5. Space > 1
      BY Widths, PowPositive DEF Space
    <2>6. Wrap(0 + 1) = 1
      BY <2>5, Widths DEF Wrap
    <2> QED
      BY <1>1, <2>1, <2>4, <2>6
  <1>3. ASSUME a.order + 1 = Xlen PROVE a.base = 0
    <2>1. PICK p \in Nat : p = 2^a.order /\ p = Bit(a.order) /\ p > 1 /\ a.base + p <= Space
      BY <1>1, <1>2, <1>3, ValidFits
    <2>2. b.base + p <= Space
      BY <1>1, <1>2, <1>3, <2>1, ValidFits
    <2>3. Space = 2 * p
      BY <1>1, <1>3, <2>1, PowDouble DEF Space
    <2>4. a.base <= b.base
      BY <1>1 DEF Ordered, Before
    <2>5. CASE a.base + p < Space
      <3>1. Wrap(a.base + p) = a.base + p
        BY <1>1, <2>1, <2>5, Widths DEF Wrap
      <3> QED
        BY <1>1, <2>1, <2>2, <2>3, <3>1
    <2>6. CASE a.base + p = Space
      <3>1. Space % Space = 0
        BY Widths
      <3>2. b.base = 0
        BY <1>1, <2>1, <2>6, <3>1 DEF Wrap
      <3> QED
        BY <1>1, <2>4, <3>2
    <2> QED
      BY <1>1, <2>1, <2>5, <2>6, Widths
  <1> QED
    BY <1>1, <1>2, <1>3, Widths
-----------------------------------------------------------------------------
(* The next stage of d is executable in it.                                *)
Exec(d) == CheckAddr(regs[d], next[d], "S", {"X"}, FALSE)

Stages == {"register", "sort", "assign", "idle", "tile", "sanitize", "merge", "populate", "inherit",
           "start", "done", "hang"}

(* Where the cold boot is, and which domain it is about.                   *)
ControlInv ==
  /\ pc \in Stages
  /\ \A k \in DOMAIN table : table[k] = k - 1
  /\ pc \in {"register", "assign", "inherit"} => cur = Len(table)
  /\ pc = "sort" => cur = Len(table) \/ cur = Root
  /\ pc = "merge" => cur = Root
  /\ pc = "inherit" => 1 <= i
  /\ pc \in {"sort", "assign"} /\ cur = Len(table) => Len(table) < MaxIndex
  /\ pc \in {"register", "sort", "assign", "inherit"} /\ cur # Root => nodes # << >>
  /\ table = << >> => pc \in {"register", "sort", "assign", "hang"} /\ cur = Root

(* What is left of the device fits in the address space.                   *)
InputInv ==
  /\ nodes \in Seq(Node)
  /\ tiles \in Nat \X Nat
  /\ tiles[2] > 0 => tiles[1] + tiles[2] <= Space

(* The sort: regions in front of i are in order with all that follow, i    *)
(* with those in front of j.                                               *)
SortInv ==
  LET rs == regs[cur]
  IN  pc = "sort" =>
        /\ 1 <= i /\ i < j /\ (i < Len(rs) => j <= Len(rs))
        /\ \A k \in DOMAIN rs : Valid(rs[k])
        /\ \A k, l \in DOMAIN rs : k < l /\ (k < i \/ (k = i /\ l < j)) => Ordered(rs[k], rs[l])

(* The merge: what is behind i is as the sort left it.                     *)
MergeInv ==
  LET rs == regs[Root]
  IN  pc = "merge" =>
        /\ 1 <= i
        /\ \A k \in DOMAIN rs : i <= k => Valid(rs[k])
        /\ \A k, l \in DOMAIN rs : i <= k /\ k < l => Ordered(rs[k], rs[l])
        /\ ~merged => OrderedList(rs) /\ Exec(Root)

(* A region of the whole address space begins at 0.                        *)
WholeInv == \A k \in DOMAIN regs[Root] : regs[Root][k].order = Xlen => regs[Root][k].base = 0

(* The lists of domains that were registered.                              *)
ListInv ==
  /\ \A d \in Doms : d < Len(table) /\ Settled(d) => OrderedList(regs[d]) /\ Exec(d)
  /\ pc = "assign" => OrderedList(regs[cur]) /\ Exec(cur)

(* Harts and domains; the cold boot hart is the boot hart of its domain.   *)
HartInv ==
  /\ table = << >> => mask = Harts /\ boot[Root] = Cold /\ \A d \in Doms : assigned[d] = {}
  /\ table # << >> =>
       /\ \A h \in Harts, d \in Doms : h \in assigned[d] <=> domainOf[h] = d
       /\ \A h \in Harts : domainOf[h] \in 0 .. Len(table) - 1
       /\ boot[domainOf[Cold]] = Cold

(* Boot harts get their next stage in the last loop, the cold boot hart    *)
(* does when the loop comes to its domain.                                 *)
StartInv ==
  /\ \A h \in Harts : started[h] # None => pc \in {"start", "done", "hang"} /\ started[h] = domainOf[h]
  /\ finalized => pc = "done"
  /\ pc = "start" => 1 <= i /\ (domainOf[Cold] + 1 < i => started[Cold] # None)
  /\ pc = "done" => started[Cold] # None

DomainInv ==
  /\ TypeOK /\ ControlInv /\ InputInv /\ SortInv /\ MergeInv /\ WholeInv /\ ListInv /\ HartInv /\ StartInv
-----------------------------------------------------------------------------
(* Lists of regions.                                                       *)
LEMMA Removed ==
  ASSUME NEW S, NEW s \in Seq(S), NEW n \in 1 .. Len(s)
  PROVE  /\ RemoveAt(s, n) \in Seq(S)
         /\ Len(RemoveAt(s, n)) = Len(s) - 1
         /\ \A k \in 1 .. Len(s) - 1 : RemoveAt(s, n)[k] = IF k < n THEN s[k] ELSE s[k + 1]
  <1> DEFINE a == SubSeq(s, 1, n - 1)
             b == SubSeq(s, n + 1, Len(s))
  <1>1. a \in Seq(S) /\ Len(a) = n - 1 /\ \A k \in 1 .. n - 1 : a[k] = s[k]
    OBVIOUS
  <1>2. b \in Seq(S) /\ Len(b) = Len(s) - n /\ \A k \in 1 .. Len(s) - n : b[k] = s[n + k]
    OBVIOUS
  <1>3. RemoveAt(s, n) = a \o b
    BY DEF RemoveAt
  <1> HIDE DEF a, b
  <1>4. /\ a \o b \in Seq(S) /\ Len(a \o b) = Len(a) + Len(b)
        /\ \A k \in 1 .. Len(a) + Len(b) : (a \o b)[k] = IF k <= Len(a) THEN a[k] ELSE b[k - Len(a)]
    BY <1>1, <1>2, ConcatProperties
  <1>5. Len(a) + Len(b) = Len(s) - 1
    BY <1>1, <1>2
  <1>6. ASSUME NEW k \in 1 .. Len(s) - 1 PROVE (a \o b)[k] = IF k < n THEN s[k] ELSE s[k + 1]
    <2>1. CASE k < n
      BY <1>1, <1>4, <1>5, <2>1
    <2>2. CASE ~(k < n)
      <3>1. (a \o b)[k] = b[k - (n - 1)]
        BY <1>1, <1>4, <1>5, <2>2
      <3>2. k - (n - 1) \in 1 .. Len(s) - n /\ n + (k - (n - 1)) = k + 1
        BY <2>2
      <3> QED
        BY <1>2, <2>2, <3>1, <3>2
    <2> QED
      BY <2>1, <2>2
  <1> QED
    BY <1>3, <1>4, <1>5, <1>6

(* The list that MergeStep makes of rs.                                    *)
LEMMA MergedList ==
  ASSUME NEW rs \in Seq(Region), NEW n \in 1 .. Len(rs) - 1, rs[n].order + 1 \in 0 .. Xlen
  PROVE  \E ms \in Seq(Region) :
           /\ ms = RemoveAt([rs EXCEPT ![n].order = @ + 1], n + 1)
           /\ Len(ms) = Len(rs) - 1
           /\ \A k \in 1 .. n - 1 : ms[k] = rs[k]
           /\ ms[n].order = rs[n].order + 1 /\ ms[n].base = rs[n].base /\ ms[n].flags = rs[n].flags
           /\ \A k \in n + 1 .. Len(rs) - 1 : ms[k] = rs[k + 1]
  <1> DEFINE r == [rs[n] EXCEPT !.order = @ + 1]
             es == [rs EXCEPT ![n].order = @ + 1]
  <1>1. rs[n] \in Region
    OBVIOUS
  <1>2. r \in Region /\ r.order = rs[n].order + 1 /\ r.base = rs[n].base /\ r.flags = rs[n].flags
    BY <1>1 DEF Region
  <1>3. es = [rs EXCEPT ![n] = r]
    OBVIOUS
  <1> HIDE DEF r
  <1>4. es \in Seq(Region) /\ Len(es) = Len(rs) /\ es[n] = r /\ \A k \in DOMAIN rs : k # n => es[k] = rs[k]
    BY <1>2, <1>3
  <1> HIDE DEF es
  <1>5. n + 1 \in 1 .. Len(es)
    BY <1>4
  <1>6. /\ RemoveAt(es, n + 1) \in Seq(Region)
        /\ Len(RemoveAt(es, n + 1)) = Len(es) - 1
        /\ \A k \in 1 .. Len(es) - 1 : RemoveAt(es, n + 1)[k] = IF k < n + 1 THEN es[k] ELSE es[k + 1]
    BY <1>4, <1>5, Removed
  <1>7. PICK ms \in Seq(Region) : ms = RemoveAt(es, n + 1)
    BY <1>6
  <1>8. ASSUME NEW k \in 1 .. n - 1 PROVE ms[k] = rs[k]
    <2>1. k \in 1 .. Len(es) - 1 /\ k < n + 1 /\ k \in DOMAIN rs /\ k # n
      BY <1>4
    <2> QED
      BY <1>4, <1>6, <1>7, <2>1
  <1>9. ASSUME NEW k \in n + 1 .. Len(rs) - 1 PROVE ms[k] = rs[k + 1]
    <2>1. k \in 1 .. Len(es) - 1 /\ ~(k < n + 1) /\ k + 1 \in DOMAIN rs /\ k + 1 # n
      BY <1>4
    <2> QED
      BY <1>4, <1>6, <1>7, <2>1
  <1>10. ms[n] = r
    BY <1>4, <1>6, <1>7
  <1>11. Len(ms) = Len(rs) - 1
    BY <1>4, <1>6, <1>7
  <1> QED
    BY <1>2, <1>7, <1>8, <1>9, <1>10, <1>11 DEF es

(* The list that SortStep makes of rs.                                     *)
LEMMA SwappedList ==
  ASSUME NEW rs \in Seq(Region), NEW m \in DOMAIN rs, NEW n \in DOMAIN rs, m # n
  PROVE  \E ms \in Seq(Region) :
           /\ ms = [rs EXCEPT ![m] = rs[n], ![n] = rs[m]]
           /\ Len(ms) = Len(rs) /\ ms[m] = rs[n] /\ ms[n] = rs[m]
           /\ \A k \in DOMAIN rs : k # m /\ k # n => ms[k] = rs[k]
  <1>1. PICK a \in Region, b \in Region : a = rs[n] /\ b = rs[m]
    OBVIOUS
  <1> DEFINE ms == [rs EXCEPT ![m] = a, ![n] = b]
  <1>2. ms \in Seq(Region) /\ Len(ms) = Len(rs)
    OBVIOUS
  <1>3. ms[m] = a /\ ms[n] = b /\ \A k \in DOMAIN rs : k # m /\ k # n => ms[k] = rs[k]
    OBVIOUS
  <1> QED
    BY <1>1, <1>2, <1>3
-----------------------------------------------------------------------------
(* What the steps do that change a list of regions.                        *)
LEMMA Constants ==
  /\ Root \in Doms /\ Doms \subseteq Nat /\ MaxIndex \in Nat /\ RootRegionMax \in Nat /\ RootRegionMax >= 2
  /\ FdtRegionMax \in Nat /\ Cold \in Harts /\ Harts \subseteq Int /\ NextAddr \in Addrs /\ 0 \in Addrs
  /\ None \notin Int
  BY DomainAssumption, Widths DEF Root, Doms, Addrs

LEMMA SortStepIs ==
  ASSUME DomainInv, SortStep
  PROVE  /\ i \in DOMAIN regs[cur] /\ j \in DOMAIN regs[cur] /\ i < j /\ i < Len(regs[cur])
         /\ ~Conflict(regs[cur][j], regs[cur][i])
         /\ \E ms \in Seq(Region) :
              /\ regs' = [regs EXCEPT ![cur] = ms]
              /\ Len(ms) = Len(regs[cur])
              /\ \A k \in DOMAIN regs[cur] : k # i /\ k # j => ms[k] = regs[cur][k]
              /\ \/ ms[i] = regs[cur][i] /\ ms[j] = regs[cur][j] /\ ~Before(regs[cur][j], regs[cur][i])
                 \/ ms[i] = regs[cur][j] /\ ms[j] = regs[cur][i] /\ Before(regs[cur][j], regs[cur][i])
  <1>1. PICK rs \in Seq(Region) : rs = regs[cur]
    BY DEF DomainInv, TypeOK
  <1>2. i \in DOMAIN rs /\ j \in DOMAIN rs /\ i < j /\ i < Len(rs)
    BY <1>1 DEF SortStep, DomainInv, TypeOK, SortInv
  <1>3. PICK ms \in Seq(Region) :
           /\ ms = [rs EXCEPT ![i] = rs[j], ![j] = rs[i]]
           /\ Len(ms) = Len(rs) /\ ms[i] = rs[j] /\ ms[j] = rs[i]
           /\ \A k \in DOMAIN rs : k # i /\ k # j => ms[k] = rs[k]
    <2>1. i # j
      BY <1>2
    <2> QED
      BY <1>2, <2>1, SwappedList
  <1>4. CASE Before(rs[j], rs[i])
    <2>1. regs' = [regs EXCEPT ![cur] = ms]
      BY <1>1, <1>3, <1>4 DEF SortStep
    <2> QED
      BY <1>1, <1>2, <1>3, <1>4, <2>1 DEF SortStep
  <1>5. CASE ~Before(rs[j], rs[i])
    <2>1. regs' = regs
      BY <1>1, <1>5 DEF SortStep
    <2>2. regs' = [regs EXCEPT ![cur] = rs]
      BY <1>1, <2>1 DEF DomainInv, TypeOK
    <2> QED
      BY <1>1, <1>2, <1>5, <2>2 DEF SortStep
  <1> QED
    BY <1>4, <1>5

LEMMA MergeStepIs ==
  ASSUME DomainInv, MergeStep
  PROVE  \/ UNCHANGED <<regs, merged>>
         \/ /\ merged' /\ i \in 1 .. Len(regs[Root]) - 1
            /\ \E ms \in Seq(Region) :
                 /\ regs' = [regs EXCEPT ![Root] = ms]
                 /\ Len(ms) = Len(regs[Root]) - 1
                 /\ \A k \in 1 .. i - 1 : ms[k] = regs[Root][k]
                 /\ ms[i].order = Xlen => ms[i].base = 0
                 /\ MergeOf(ms[i], regs[Root][i], regs[Root][i + 1])
                 /\ \A k \in i + 1 .. Len(regs[Root]) - 1 : ms[k] = regs[Root][k + 1]
  <1>1. PICK rs \in Seq(Region) : rs = regs[Root]
    BY Constants DEF DomainInv, TypeOK
  <1>2. i \in 1 .. Len(rs) - 1
    BY <1>1 DEF MergeStep, DomainInv, TypeOK, MergeInv
  <1>3. CASE ~Buddies(rs[i], rs[i + 1])
    BY <1>1, <1>3 DEF MergeStep
  <1>4. CASE Buddies(rs[i], rs[i + 1])
    <2>1. PICK a \in Region, b \in Region : a = rs[i] /\ b = rs[i + 1]
      BY <1>2
    <2>2. i \in DOMAIN rs /\ i + 1 \in DOMAIN rs /\ i <= i + 1 /\ i <= i /\ i < i + 1
      BY <1>2
    <2>3. Valid(a) /\ Valid(b) /\ Ordered(a, b)
      BY <1>1, <2>1, <2>2 DEF MergeStep, DomainInv, MergeInv
    <2>4. (a.order = Xlen => a.base = 0) /\ (b.order = Xlen => b.base = 0)
      BY <1>1, <2>1, <2>2 DEF DomainInv, WholeInv
    <2>5. a.order + 1 \in 0 .. Xlen /\ (a.order + 1 = Xlen => a.base = 0)
      BY <1>4, <2>1, <2>3, <2>4, Merged
    <2>6. rs[i].order + 1 \in 0 .. Xlen
      BY <2>1, <2>5
    <2>7. PICK ms \in Seq(Region) :
           /\ ms = RemoveAt([rs EXCEPT ![i].order = @ + 1], i + 1)
           /\ Len(ms) = Len(rs) - 1
           /\ \A k \in 1 .. i - 1 : ms[k] = rs[k]
           /\ ms[i].order = rs[i].order + 1 /\ ms[i].base = rs[i].base /\ ms[i].flags = rs[i].flags
           /\ \A k \in i + 1 .. Len(rs) - 1 : ms[k] = rs[k + 1]
      BY <1>2, <2>6, MergedList
    <2>8. merged' /\ regs' = [regs EXCEPT ![Root] = ms]
      BY <1>1, <1>4, <2>7 DEF MergeStep
    <2>9. ms[i].order = Xlen => ms[i].base = 0
      BY <2>1, <2>5, <2>7
    <2>10. MergeOf(ms[i], rs[i], rs[i + 1])
      BY <1>4, <2>1, <2>3, <2>5, <2>7 DEF MergeOf
    <2> QED
      BY <1>1, <1>2, <2>7, <2>8, <2>9, <2>10
  <1> QED
    BY <1>3, <1>4

LEMMA AddIs ==
  ASSUME DomainInv, AddMemregion
  PROVE  /\ Tile \in Region /\ (Tile.order = Xlen => Tile.base = 0)
         /\ regs' = [regs EXCEPT ![Root] = Append(regs[Root], Tile)]
         /\ Len(regs[Root]) < RootRegionMax
         /\ \E ms \in Seq(Region) :
              /\ ms = Append(regs[Root], Tile) /\ Len(ms) = Len(regs[Root]) + 1
              /\ ms[Len(ms)] = Tile /\ \A k \in DOMAIN regs[Root] : ms[k] = regs[Root][k]
         /\ InputInv'
  <1>1. PICK rs \in Seq(Region) : rs = regs[Root]
    BY Constants DEF DomainInv, TypeOK
  <1>2. PICK pos \in Nat, left \in Nat : pos = tiles[1] /\ left = tiles[2]
    BY DEF DomainInv, InputInv
  <1>3. left > 0 /\ pos + left <= Space
    BY <1>2 DEF AddMemregion, DomainInv, InputInv
  <1>4. pos \in Addrs
    BY <1>3, Widths DEF Addrs
  <1>5. PICK size \in Nat : size = TileSize(pos, left)
    BY Tiles
  <1>6. {"I"} \in SUBSET Flags
    BY DEF Flags
  <1>7. Tile \in Region /\ (Tile.order = Xlen => Tile.base = 0)
    BY <1>2, <1>4, <1>6, Inits DEF Tile
  <1>8. Len(rs) < RootRegionMax
    BY <1>1, Constants DEF AddMemregion, Refused
  <1>9. regs' = [regs EXCEPT ![Root] = Append(regs[Root], Tile)]
    BY DEF AddMemregion
  <1>10. PICK t \in Region : t = Tile
    BY <1>7
  <1>11. /\ Append(rs, t) \in Seq(Region) /\ Len(Append(rs, t)) = Len(rs) + 1
         /\ Append(rs, t)[Len(rs) + 1] = t /\ \A k \in DOMAIN rs : Append(rs, t)[k] = rs[k]
    OBVIOUS
  <1>12. InputInv'
    <2>1. tiles' = <<pos + size, IF size < left THEN left - size ELSE 0>> /\ nodes' = nodes
      BY <1>2, <1>5 DEF AddMemregion
    <2>2. tiles' \in Nat \X Nat /\ (tiles'[2] > 0 => tiles'[1] + tiles'[2] <= Space)
      BY <1>3, <2>1, Widths
    <2> QED
      BY <2>1, <2>2 DEF InputInv, DomainInv
  <1> QED
    BY <1>1, <1>7, <1>8, <1>9, <1>10, <1>11, <1>12

LEMMA FdtStepIs ==
  ASSUME DomainInv, ParseDomain \/ Inherit
  PROVE  \/ UNCHANGED regs
         \/ \E ms \in Seq(Region) :
              Len(ms) <= FdtRegionMax /\ Len(table) \in Doms \ {Root} /\ regs' = [regs EXCEPT ![Len(table)] = ms]
  <1>1. ParseDomain => nodes # << >> /\ table # << >>
    BY DEF ParseDomain, DomainInv, ControlInv
  <1>2. Inherit => table # << >> /\ cur = Len(table)
    BY DEF Inherit, DomainInv, ControlInv
  <1>3. Len(table) \in Doms \ {Root}
    BY <1>1, <1>2, Constants DEF DomainInv, TypeOK, Root, Doms
  <1>4. CASE ParseDomain
    <2>1. Head(nodes) \in Node
      BY <1>1, <1>4 DEF DomainInv, InputInv
    <2>2. Head(nodes).regions \in Seq(Region)
      BY <2>1 DEF Node
    <2>3. CASE Len(table) > FdtDomainMax \/ Len(Head(nodes).regions) > FdtRegionMax
      BY <1>4, <2>3 DEF ParseDomain
    <2>4. CASE ~(Len(table) > FdtDomainMax \/ Len(Head(nodes).regions) > FdtRegionMax)
      <3>1. regs' = [regs EXCEPT ![Len(table)] = Head(nodes).regions]
        BY <1>4, <2>4 DEF ParseDomain
      <3>2. Len(Head(nodes).regions) <= FdtRegionMax
        BY <2>2, <2>4, Constants
      <3> QED
        BY <1>3, <2>2, <3>1, <3>2
    <2> QED
      BY <2>3, <2>4
  <1>5. CASE Inherit
    <2>1. PICK rs \in Seq(Region), ds \in Seq(Region) : rs = regs[Root] /\ ds = regs[cur]
      BY Constants DEF DomainInv, TypeOK
    <2>2. i \in DOMAIN rs
      BY <1>5, <2>1 DEF Inherit, DomainInv, TypeOK, ControlInv
    <2>3. PICK r \in Region : r = rs[i]
      BY <2>2
    <2>4. CASE Secret(r) /\ Len(ds) < FdtRegionMax
      <3>1. regs' = [regs EXCEPT ![Len(table)] = Append(ds, r)]
        BY <1>2, <1>5, <2>1, <2>3, <2>4 DEF Inherit
      <3>2. Append(ds, r) \in Seq(Region) /\ Len(Append(ds, r)) <= FdtRegionMax
        BY <2>4, Constants
      <3> QED
        BY <1>3, <3>1, <3>2
    <2>5. CASE ~(Secret(r) /\ Len(ds) < FdtRegionMax)
      BY <1>5, <2>1, <2>3, <2>5 DEF Inherit
    <2> QED
      BY <2>4, <2>5
  <1> QED
    BY <1>4, <1>5
-----------------------------------------------------------------------------
(* Which steps change what.                                                *)
Frames ==
  /\ SortStep \/ AddMemregion \/ MergeStep \/ ParseDomain \/ Inherit \/ UNCHANGED regs
  /\ Assign \/ UNCHANGED <<table, assigned, domainOf, nodes>>
  /\ Assign \/ Inherited \/ UNCHANGED boot
  /\ Inherited \/ UNCHANGED <<next, mask>>
  /\ AddMemregion \/ UNCHANGED added
  /\ AddMemregion \/ (\E range \in Ranges : Device(range)) \/ UNCHANGED tiles
  /\ (\E range \in Ranges : Device(range)) \/ UNCHANGED devices
  /\ StartDomain \/ UNCHANGED started
  /\ StartDone \/ UNCHANGED finalized

LEMMA StepFrames ==
  ASSUME [Next]_vars
  PROVE  Frames
  <1> USE DEF Frames, domVars, loopVars, devVars
  <1>1. CASE Register
    BY <1>1 DEF Register
  <1>2. CASE SortStep
    BY <1>2 DEF SortStep, Advance
  <1>3. CASE SortConflict
    BY <1>3 DEF SortConflict, Hang
  <1>4. CASE SortDone
    BY <1>4 DEF SortDone
  <1>5. CASE Assign
    BY <1>5 DEF Assign
  <1>6. CASE AddRefused
    BY <1>6 DEF AddRefused
  <1>7. CASE AddMemregion
    BY <1>7 DEF AddMemregion
  <1>8. CASE Sanitize
    BY <1>8 DEF Sanitize
  <1>9. CASE DeviceDone
    BY <1>9 DEF DeviceDone
  <1>10. CASE MergeStep
    BY <1>10 DEF MergeStep
  <1>11. CASE MergeDone
    BY <1>11 DEF MergeDone
  <1>12. CASE Finalize
    BY <1>12 DEF Finalize
  <1>13. CASE ParseDomain
    BY <1>13 DEF ParseDomain
  <1>14. CASE Inherit
    BY <1>14 DEF Inherit
  <1>15. CASE Inherited
    BY <1>15 DEF Inherited
  <1>16. CASE Populated
    BY <1>16 DEF Populated
  <1>17. CASE StartDomain
    BY <1>17 DEF StartDomain
  <1>18. CASE StartFails
    BY <1>18 DEF StartFails
  <1>19. CASE StartDone
    BY <1>19 DEF StartDone
  <1>20. ASSUME NEW range \in Ranges, Device(range) PROVE Frames
    <2>1. UNCHANGED <<domVars, loopVars, regs, finalized, nodes, started, pmp, added>>
      BY <1>20, Zenon DEF Device
    <2> QED
      BY <1>20, <2>1
  <1>21. ASSUME NEW h \in Harts, PmpConfigure(h) PROVE Frames
    BY <1>21 DEF PmpConfigure
  <1>22. CASE UNCHANGED vars
    BY <1>22 DEF vars
  <1> QED
    BY <1>1, <1>2, <1>3, <1>4, <1>5, <1>6, <1>7, <1>8, <1>9, <1>10, <1>11, <1>12, <1>13, <1>14, <1>15, <1>16, <1>17, <1>18, <1>19, <1>20, <1>21, <1>22 DEF Next, Step
-----------------------------------------------------------------------------
(* The parts of the invariant, one by one.                                 *)
LEMMA InitInv ==
  ASSUME Init
  PROVE  DomainInv
  <1>1. FwRegion \in Region /\ (FwRegion.order = Xlen => FwRegion.base = 0)
    <2>1. Fw[1] \in Addrs /\ {} \in SUBSET Flags
      BY DomainAssumption
    <2> QED
      BY <2>1, Inits DEF FwRegion
  <1>2. AllRegion \in Region /\ (AllRegion.order = Xlen => AllRegion.base = 0)
    <2>1. {"R", "W", "X"} \in SUBSET Flags
      BY DEF Flags
    <2> QED
      BY <2>1, Inits, Constants DEF AllRegion
  <1>3. TypeOK
    <2>1. <<FwRegion, AllRegion>> \in Seq(Region) /\ << >> \in Seq(Region)
      BY <1>1, <1>2
    <2>2. regs \in [Doms -> Seq(Region)]
      BY <2>1 DEF Init
    <2>3. Len(regs[Root]) <= RootRegionMax /\ \A d \in Doms \ {Root} : Len(regs[d]) <= FdtRegionMax
      BY Constants DEF Init
    <2>4. boot \in [Doms -> Int \cup {None}]
      BY Constants DEF Init
    <2>5. next \in [Doms -> Addrs]
      BY Constants DEF Init
    <2>6. added \in SUBSET Region
      BY <1>1, <1>2 DEF Init
    <2>7. /\ Len(table) <= MaxIndex /\ table \in Seq(Doms) /\ cur \in Doms
          /\ i \in Nat /\ j \in Nat /\ mask \in SUBSET Harts
      BY Constants DEF Init
    <2>9. merged \in BOOLEAN /\ finalized \in BOOLEAN
      BY DEF Init
    <2>8. /\ assigned \in [Doms -> SUBSET Harts] /\ domainOf \in [Harts -> Doms \cup {None}]
          /\ started \in [Harts -> Doms \cup {None}]
      BY DEF Init
    <2> QED
      BY <2>2, <2>3, <2>4, <2>5, <2>6, <2>7, <2>8, <2>9, Zenon DEF TypeOK
  <1>4. ControlInv
    BY DEF Init, ControlInv, Stages, Root
  <1>5. InputInv
    BY DomainAssumption DEF Init, InputInv
  <1>6. WholeInv
    <2>1. regs[Root] = <<FwRegion, AllRegion>>
      BY Constants DEF Init
    <2> QED
      BY <1>1, <1>2, <2>1 DEF WholeInv
  <1>7. SortInv /\ MergeInv /\ ListInv
    BY DEF Init, SortInv, MergeInv, ListInv, Doms
  <1>8. HartInv
    BY Constants DEF Init, HartInv
  <1>9. StartInv
    BY DEF Init, StartInv
  <1> QED
    BY <1>3, <1>4, <1>5, <1>6, <1>7, <1>8, <1>9 DEF DomainInv

LEMMA RegsType ==
  ASSUME DomainInv, [Next]_vars
  PROVE  /\ regs' \in [Doms -> Seq(Region)]
         /\ Len(regs'[Root]) <= RootRegionMax
         /\ \A d \in Doms \ {Root} : Len(regs'[d]) <= FdtRegionMax
  <1>1. /\ regs \in [Doms -> Seq(Region)] /\ cur \in Doms
        /\ Len(regs[Root]) <= RootRegionMax
        /\ \A d \in Doms \ {Root} : Len(regs[d]) <= FdtRegionMax
    BY DEF DomainInv, TypeOK
  <1>2. CASE UNCHANGED regs
    BY <1>1, <1>2
  <1>3. CASE SortStep
    BY <1>1, <1>3, SortStepIs, Constants
  <1>4. CASE AddMemregion
    <2>1. PICK ms \in Seq(Region) : ms = Append(regs[Root], Tile) /\ Len(ms) = Len(regs[Root]) + 1
      BY <1>4, AddIs
    <2>2. regs' = [regs EXCEPT ![Root] = ms] /\ Len(regs[Root]) < RootRegionMax
      BY <1>4, <2>1, AddIs
    <2>3. Len(regs[Root]) \in Nat
      BY <1>1, Constants
    <2>4. Len(ms) <= RootRegionMax
      BY <2>1, <2>2, <2>3, Constants
    <2> QED
      BY <1>1, <2>2, <2>4, Constants
  <1>5. CASE MergeStep
    <2>1. CASE ~UNCHANGED regs
      <3>1. PICK ms \in Seq(Region) : regs' = [regs EXCEPT ![Root] = ms] /\ Len(ms) = Len(regs[Root]) - 1
        BY <1>5, <2>1, MergeStepIs
      <3>2. Len(ms) <= RootRegionMax
        BY <1>1, <3>1, Constants
      <3> QED
        BY <1>1, <3>1, <3>2, Constants
    <2> QED
      BY <1>2, <2>1
  <1>6. CASE ParseDomain \/ Inherit
    BY <1>1, <1>6, FdtStepIs, Constants
  <1> QED
    BY <1>2, <1>3, <1>4, <1>5, <1>6, StepFrames DEF Frames

LEMMA AssignIs ==
  ASSUME DomainInv, Assign
  PROVE  \E taken \in SUBSET Harts :
           /\ taken = mask \cap Possible(cur)
           /\ cur = Len(table) /\ Len(table) < MaxIndex
           /\ domainOf' = [h \in Harts |-> IF h \in taken THEN cur ELSE domainOf[h]]
           /\ assigned' = [d \in Doms |-> IF d = cur THEN taken
                                          ELSE {h \in assigned[d] : ~(h \in taken /\ domainOf[h] = d)}]
           /\ boot' = IF Cold \in taken THEN [boot EXCEPT ![cur] = Cold] ELSE boot
           /\ table' = Append(table, cur)
           /\ nodes' = IF cur = Root THEN nodes ELSE Tail(nodes)
  <1>1. mask \cap Possible(cur) \in SUBSET Harts
    BY DEF DomainInv, TypeOK
  <1>2. cur = Len(table) /\ Len(table) < MaxIndex
    BY DEF Assign, DomainInv, ControlInv
  <1> QED
    BY <1>1, <1>2 DEF Assign

LEMMA InheritedIs ==
  ASSUME DomainInv, Inherited
  PROVE  /\ cur = Len(table) /\ cur # Root /\ table # << >>
         /\ \/ pc' = "hang" /\ UNCHANGED <<boot, next, mask>>
            \/ /\ pc' = "register"
               /\ \E b \in Int \cup {None}, a \in Addrs, m \in SUBSET Harts :
                    boot' = [boot EXCEPT ![cur] = b] /\ next' = [next EXCEPT ![cur] = a] /\ mask' = m
  <1>1. table # << >> /\ cur = Len(table)
    BY DEF Inherited, DomainInv, ControlInv
  <1>2. cur # Root
    BY <1>1 DEF DomainInv, TypeOK, Root
  <1>3. nodes # << >>
    BY <1>2 DEF Inherited, DomainInv, ControlInv
  <1>4. PICK n \in Node : n = Head(nodes)
    BY <1>3 DEF DomainInv, InputInv
  <1>5. n.boot \in Int \cup {None} /\ n.next \in Addrs \cup {None} /\ n.assign \in (SUBSET Harts) \cup {None}
    BY DEF Node
  <1>6. CASE n.assign = None
    BY <1>1, <1>2, <1>4, <1>6 DEF Inherited, Hang
  <1>7. CASE n.assign # None
    <2>1. /\ pc' = "register" /\ mask' = n.assign
          /\ boot' = [boot EXCEPT ![cur] = IF n.boot = None /\ Cold \in n.assign THEN Cold ELSE n.boot]
          /\ next' = [next EXCEPT ![cur] =
               IF n.next # None THEN n.next ELSE IF Cold \in n.assign THEN NextAddr ELSE 0]
      BY <1>4, <1>7 DEF Inherited
    <2>2. (IF n.boot = None /\ Cold \in n.assign THEN Cold ELSE n.boot) \in Int \cup {None}
      BY <1>5, Constants
    <2>3. (IF n.next # None THEN n.next ELSE IF Cold \in n.assign THEN NextAddr ELSE 0) \in Addrs
      BY <1>5, Constants
    <2>4. n.assign \in SUBSET Harts
      BY <1>5, <1>7
    <2> QED
      BY <1>1, <1>2, <2>1, <2>2, <2>3, <2>4
  <1> QED
    BY <1>6, <1>7

LEMMA LoopType ==
  ASSUME DomainInv, [Next]_vars
  PROVE  cur' \in Doms /\ i' \in Nat /\ j' \in Nat /\ merged' \in BOOLEAN
  <1>1. cur \in Doms /\ i \in Nat /\ j \in Nat /\ merged \in BOOLEAN /\ Len(table) \in Doms
    BY Constants DEF DomainInv, TypeOK, Doms
  <1> USE Constants DEF loopVars
  <1>2. CASE Register
    BY <1>1, <1>2 DEF Register, SortFrom, Hang
  <1>3. CASE SortStep
    <2>1. UNCHANGED <<cur, merged>> /\ Advance
      BY <1>3 DEF SortStep
    <2>2. i' \in Nat /\ j' \in Nat
      BY <1>1, <2>1 DEF Advance
    <2> QED
      BY <1>1, <2>1, <2>2
  <1>4. CASE SortConflict
    BY <1>1, <1>4 DEF SortConflict, Hang
  <1>5. CASE SortDone
    BY <1>1, <1>5 DEF SortDone
  <1>6. CASE Assign
    BY <1>1, <1>6 DEF Assign
  <1>7. CASE AddRefused
    BY <1>1, <1>7 DEF AddRefused, Hang
  <1>8. CASE AddMemregion
    BY <1>1, <1>8 DEF AddMemregion
  <1>9. CASE Sanitize
    BY <1>1, <1>9 DEF Sanitize, SortFrom, Hang
  <1>10. CASE DeviceDone
    BY <1>1, <1>10 DEF DeviceDone
  <1>11. CASE MergeStep
    <2>1. merged' = merged \/ merged' = TRUE
      BY <1>11, Zenon DEF MergeStep
    <2>2. UNCHANGED <<cur, j>> /\ i' = i + 1
      BY <1>11 DEF MergeStep
    <2>3. merged' \in BOOLEAN
      BY <1>1, <2>1, Zenon
    <2>4. i' \in Nat
      BY <1>1, <2>2
    <2> QED
      BY <1>1, <2>2, <2>3, <2>4, Zenon
  <1>12. CASE MergeDone
    BY <1>1, <1>12 DEF MergeDone
  <1>13. CASE Finalize
    BY <1>1, <1>13 DEF Finalize
  <1>14. CASE ParseDomain
    BY <1>1, <1>14 DEF ParseDomain, Hang
  <1>15. CASE Inherit
    BY <1>1, <1>15 DEF Inherit, Hang
  <1>16. CASE Inherited
    BY <1>1, <1>16 DEF Inherited, Hang
  <1>17. CASE Populated
    BY <1>1, <1>17 DEF Populated
  <1>18. CASE StartDomain
    BY <1>1, <1>18 DEF StartDomain
  <1>19. CASE StartFails
    BY <1>1, <1>19 DEF StartFails, Hang
  <1>20. CASE StartDone
    BY <1>1, <1>20 DEF StartDone
  <1>21. ASSUME NEW range \in Ranges, Device(range) PROVE cur' \in Doms /\ i' \in Nat /\ j' \in Nat /\ merged' \in BOOLEAN
    BY <1>1, <1>21 DEF Device
  <1>22. ASSUME NEW h \in Harts, PmpConfigure(h) PROVE cur' \in Doms /\ i' \in Nat /\ j' \in Nat /\ merged' \in BOOLEAN
    BY <1>1, <1>22 DEF PmpConfigure
  <1>23. CASE UNCHANGED vars
    BY <1>1, <1>23 DEF vars
  <1> QED
    BY <1>2, <1>3, <1>4, <1>5, <1>6, <1>7, <1>8, <1>9, <1>10, <1>11, <1>12, <1>13, <1>14, <1>15, <1>16, <1>17, <1>18, <1>19, <1>20, <1>21, <1>22, <1>23 DEF Next, Step

LEMMA ControlKeeps ==
  ASSUME DomainInv, [Next]_vars
  PROVE  ControlInv'
  <1>1. ControlInv /\ table \in Seq(Doms) /\ i \in Nat /\ nodes \in Seq(Node)
    BY DEF DomainInv, TypeOK, InputInv
  <1> USE DEF ControlInv, Stages, Root, domVars, loopVars, devVars
  <1>2. CASE Register
    BY <1>1, <1>2 DEF Register, SortFrom, Hang
  <1>3. CASE SortStep
    BY <1>1, <1>3 DEF SortStep, Advance
  <1>4. CASE SortConflict
    BY <1>1, <1>4 DEF SortConflict, Hang
  <1>5. CASE SortDone
    BY <1>1, <1>5 DEF SortDone
  <1>6. CASE Assign
    <2>1. cur = Len(table) /\ table' = Append(table, cur)
      BY <1>6, AssignIs
    <2>2. table' \in Seq(Doms) /\ Len(table') = Len(table) + 1 /\ table' # << >>
      BY <1>1, <2>1, Constants DEF DomainInv, TypeOK
    <2>3. \A k \in DOMAIN table' : table'[k] = k - 1
      BY <1>1, <2>1
    <2>4. pc' \in {"idle", "populate"}
      BY <1>6 DEF Assign
    <2> QED
      BY <2>2, <2>3, <2>4
  <1>7. CASE AddRefused
    BY <1>1, <1>7 DEF AddRefused, Hang
  <1>8. CASE AddMemregion
    BY <1>1, <1>8 DEF AddMemregion
  <1>9. CASE Sanitize
    BY <1>1, <1>9 DEF Sanitize, SortFrom, Hang
  <1>10. CASE DeviceDone
    BY <1>1, <1>10 DEF DeviceDone
  <1>11. CASE MergeStep
    BY <1>1, <1>11 DEF MergeStep
  <1>12. CASE MergeDone
    BY <1>1, <1>12 DEF MergeDone
  <1>13. CASE Finalize
    BY <1>1, <1>13 DEF Finalize
  <1>14. CASE ParseDomain
    BY <1>1, <1>14 DEF ParseDomain, Hang
  <1>15. CASE Inherit
    BY <1>1, <1>15 DEF Inherit, Hang
  <1>16. CASE Inherited
    BY <1>1, <1>16 DEF Inherited, Hang
  <1>17. CASE Populated
    BY <1>1, <1>17 DEF Populated
  <1>18. CASE StartDomain
    BY <1>1, <1>18 DEF StartDomain
  <1>19. CASE StartFails
    BY <1>1, <1>19 DEF StartFails, Hang
  <1>20. CASE StartDone
    BY <1>1, <1>20 DEF StartDone
  <1>21. ASSUME NEW range \in Ranges, Device(range) PROVE ControlInv'
    BY <1>1, <1>21 DEF Device
  <1>22. ASSUME NEW h \in Harts, PmpConfigure(h) PROVE ControlInv'
    BY <1>1, <1>22 DEF PmpConfigure
  <1>23. CASE UNCHANGED vars
    BY <1>1, <1>23 DEF vars
  <1> QED
    BY <1>2, <1>3, <1>4, <1>5, <1>6, <1>7, <1>8, <1>9, <1>10, <1>11, <1>12, <1>13, <1>14, <1>15, <1>16, <1>17, <1>18, <1>19, <1>20, <1>21, <1>22, <1>23 DEF Next, Step

LEMMA TypeKeeps ==
  ASSUME DomainInv, [Next]_vars
  PROVE  TypeOK'
  <1>1. Frames
    BY StepFrames
  <1>2. TypeOK
    BY DEF DomainInv
  <1>3. Len(table') <= MaxIndex /\ table' \in Seq(Doms)
    <2>1. CASE Assign
      <3>1. cur = Len(table) /\ Len(table) < MaxIndex /\ table' = Append(table, cur)
        BY <2>1, AssignIs
      <3> QED
        BY <1>2, <3>1, Constants DEF TypeOK
    <2> QED
      BY <1>1, <1>2, <2>1 DEF Frames, TypeOK
  <1>4. assigned' \in [Doms -> SUBSET Harts] /\ domainOf' \in [Harts -> Doms \cup {None}]
    <2>1. CASE Assign
      <3>1. PICK taken \in SUBSET Harts :
              /\ domainOf' = [h \in Harts |-> IF h \in taken THEN cur ELSE domainOf[h]]
              /\ assigned' = [d \in Doms |-> IF d = cur THEN taken
                                             ELSE {h \in assigned[d] : ~(h \in taken /\ domainOf[h] = d)}]
        BY <2>1, AssignIs
      <3>2. domainOf' \in [Harts -> Doms \cup {None}]
        BY <1>2, <3>1 DEF TypeOK
      <3>3. assigned' \in [Doms -> SUBSET Harts]
        BY <1>2, <3>1 DEF TypeOK
      <3> QED
        BY <3>2, <3>3
    <2> QED
      BY <1>1, <1>2, <2>1 DEF Frames, TypeOK
  <1>5. boot' \in [Doms -> Int \cup {None}]
    <2>1. CASE Assign
      <3>1. boot' = boot \/ boot' = [boot EXCEPT ![cur] = Cold]
        BY <2>1, AssignIs
      <3> QED
        BY <1>2, <3>1, Constants DEF TypeOK
    <2>2. CASE Inherited
      <3>1. boot' = boot \/ \E b \in Int \cup {None} : boot' = [boot EXCEPT ![cur] = b]
        BY <2>2, InheritedIs
      <3> QED
        BY <1>2, <3>1 DEF TypeOK
    <2> QED
      BY <1>1, <1>2, <2>1, <2>2 DEF Frames, TypeOK
  <1>6. next' \in [Doms -> Addrs] /\ mask' \in SUBSET Harts
    <2>1. CASE Inherited
      <3>1. \/ UNCHANGED <<next, mask>>
            \/ \E a \in Addrs, m \in SUBSET Harts : next' = [next EXCEPT ![cur] = a] /\ mask' = m
        BY <2>1, InheritedIs
      <3> QED
        BY <1>2, <3>1 DEF TypeOK
    <2> QED
      BY <1>1, <1>2, <2>1 DEF Frames, TypeOK
  <1>7. finalized' \in BOOLEAN
    BY <1>1, <1>2 DEF Frames, TypeOK, StartDone
  <1>8. started' \in [Harts -> Doms \cup {None}]
    <2>1. CASE StartDomain
      <3>1. table[i] \in Doms
        BY <1>2, <2>1 DEF StartDomain, TypeOK, DomainInv, StartInv
      <3> QED
        BY <1>2, <2>1, <3>1 DEF StartDomain, TypeOK
    <2> QED
      BY <1>1, <1>2, <2>1 DEF Frames, TypeOK
  <1>9. added' \in SUBSET Region
    <2>1. CASE AddMemregion
      <3>1. Tile \in Region
        BY <2>1, AddIs
      <3> QED
        BY <1>2, <2>1, <3>1 DEF AddMemregion, TypeOK
    <2> QED
      BY <1>1, <1>2, <2>1 DEF Frames, TypeOK
  <1> QED
    BY <1>3, <1>4, <1>5, <1>6, <1>7, <1>8, <1>9, RegsType, LoopType, Zenon DEF TypeOK

LEMMA InputKeeps ==
  ASSUME DomainInv, [Next]_vars
  PROVE  InputInv'
  <1>1. InputInv
    BY DEF DomainInv
  <1>2. nodes' \in Seq(Node)
    <2>1. CASE Assign
      <3>1. nodes' = IF cur = Root THEN nodes ELSE Tail(nodes)
        BY <2>1 DEF Assign
      <3>2. cur # Root => nodes # << >>
        BY <2>1 DEF Assign, DomainInv, ControlInv
      <3> QED
        BY <1>1, <3>1, <3>2 DEF InputInv
    <2> QED
      BY <1>1, <2>1, StepFrames DEF Frames, InputInv
  <1>3. CASE AddMemregion
    BY <1>3, AddIs
  <1>4. ASSUME NEW range \in Ranges, Device(range) PROVE InputInv'
    <2>1. tiles' = range
      BY <1>4 DEF Device
    <2>2. PICK a \in Addrs, s \in Addrs : range = <<a, s>>
      BY DomainAssumption
    <2>3. range[1] + range[2] <= Space
      BY DomainAssumption
    <2>4. a \in Nat /\ s \in Nat
      BY Widths
    <2> QED
      BY <1>2, <2>1, <2>2, <2>3, <2>4 DEF InputInv
  <1>5. CASE UNCHANGED tiles
    BY <1>1, <1>2, <1>5 DEF InputInv
  <1> QED
    BY <1>3, <1>4, <1>5, StepFrames DEF Frames

LEMMA WholeKeeps ==
  ASSUME DomainInv, [Next]_vars
  PROVE  WholeInv'
  <1>1. WholeInv /\ regs \in [Doms -> Seq(Region)] /\ cur \in Doms
    BY DEF DomainInv, TypeOK
  <1>2. CASE UNCHANGED regs
    BY <1>1, <1>2 DEF WholeInv
  <1>3. CASE SortStep
    <2>1. i \in DOMAIN regs[cur] /\ j \in DOMAIN regs[cur]
      BY <1>3, SortStepIs
    <2>2. PICK ms \in Seq(Region) :
              /\ regs' = [regs EXCEPT ![cur] = ms]
              /\ Len(ms) = Len(regs[cur])
              /\ \A k \in DOMAIN regs[cur] : k # i /\ k # j => ms[k] = regs[cur][k]
              /\ \/ ms[i] = regs[cur][i] /\ ms[j] = regs[cur][j]
                 \/ ms[i] = regs[cur][j] /\ ms[j] = regs[cur][i]
      BY <1>3, SortStepIs
    <2>3. \A k \in DOMAIN ms : \E l \in DOMAIN regs[cur] : ms[k] = regs[cur][l]
      BY <1>1, <2>1, <2>2
    <2>4. CASE cur = Root
      BY <1>1, <2>2, <2>3, <2>4 DEF WholeInv
    <2>5. CASE cur # Root
      BY <1>1, <2>2, <2>5 DEF WholeInv
    <2> QED
      BY <2>4, <2>5
  <1>4. CASE AddMemregion
    <2>1. PICK ms \in Seq(Region) :
              /\ ms = Append(regs[Root], Tile) /\ Len(ms) = Len(regs[Root]) + 1
              /\ ms[Len(ms)] = Tile /\ \A k \in DOMAIN regs[Root] : ms[k] = regs[Root][k]
      BY <1>4, AddIs
    <2>2. regs'[Root] = ms /\ (Tile.order = Xlen => Tile.base = 0)
      BY <1>1, <1>4, <2>1, AddIs, Constants
    <2>3. \A k \in DOMAIN ms : k = Len(ms) \/ k \in DOMAIN regs[Root]
      BY <1>1, <2>1, Constants
    <2> QED
      BY <1>1, <2>1, <2>2, <2>3 DEF WholeInv
  <1>5. CASE MergeStep /\ ~UNCHANGED regs
    <2>1. PICK ms \in Seq(Region) :
                 /\ regs' = [regs EXCEPT ![Root] = ms]
                 /\ Len(ms) = Len(regs[Root]) - 1
                 /\ \A k \in 1 .. i - 1 : ms[k] = regs[Root][k]
                 /\ ms[i].order = Xlen => ms[i].base = 0
                 /\ \A k \in i + 1 .. Len(regs[Root]) - 1 : ms[k] = regs[Root][k + 1]
      BY <1>5, MergeStepIs
    <2>2. regs'[Root] = ms
      BY <1>1, <2>1, Constants
    <2>3. PICK rs \in Seq(Region) : rs = regs[Root]
      BY <1>1, Constants
    <2>4. i \in Nat
      BY DEF DomainInv, TypeOK
    <2>5. ASSUME NEW k \in DOMAIN ms PROVE k = i \/ \E l \in DOMAIN rs : ms[k] = rs[l]
      <3>1. CASE k < i
        BY <2>1, <2>3, <2>4, <3>1
      <3>2. CASE k > i
        <4>1. k + 1 \in DOMAIN rs /\ k \in i + 1 .. Len(rs) - 1
          BY <2>1, <2>3, <2>4, <3>2
        <4> QED
          BY <2>1, <2>3, <4>1
      <3> QED
        BY <2>4, <3>1, <3>2
    <2> QED
      BY <1>1, <2>1, <2>2, <2>3, <2>5 DEF WholeInv
  <1>6. CASE ParseDomain \/ Inherit
    <2>1. regs'[Root] = regs[Root]
      BY <1>1, <1>6, FdtStepIs, Constants
    <2> QED
      BY <1>1, <2>1 DEF WholeInv
  <1> QED
    BY <1>2, <1>3, <1>4, <1>5, <1>6, StepFrames DEF Frames

(* Which steps lead where.                                                 *)
Flow ==
  /\ pc' = "register" => Inherited \/ UNCHANGED vars
  /\ pc' = "inherit" => ParseDomain \/ Inherit \/ UNCHANGED vars
  /\ pc' = "sort" => Register \/ SortStep \/ Sanitize \/ UNCHANGED vars
  /\ pc' = "merge" => SortDone \/ MergeStep \/ UNCHANGED vars
  /\ pc' = "assign" => SortDone \/ UNCHANGED vars
  /\ pc' = "start" => Populated \/ StartDomain \/ UNCHANGED vars
  /\ pc' = "done" => StartDone \/ (\E h \in Harts : PmpConfigure(h)) \/ UNCHANGED vars

LEMMA StepFlow ==
  ASSUME [Next]_vars
  PROVE  Flow
  <1> USE DEF Flow, loopVars
  <1>1. CASE Register
    BY <1>1 DEF Register, SortFrom, Hang
  <1>2. CASE SortStep
    BY <1>2 DEF SortStep, Advance
  <1>3. CASE SortConflict
    BY <1>3 DEF SortConflict, Hang
  <1>4. CASE SortDone
    BY <1>4 DEF SortDone
  <1>5. CASE Assign
    BY <1>5 DEF Assign
  <1>6. CASE AddRefused
    BY <1>6 DEF AddRefused, Hang
  <1>7. CASE AddMemregion
    BY <1>7 DEF AddMemregion
  <1>8. CASE Sanitize
    BY <1>8 DEF Sanitize, SortFrom, Hang
  <1>9. CASE DeviceDone
    BY <1>9 DEF DeviceDone
  <1>10. CASE MergeStep
    BY <1>10 DEF MergeStep
  <1>11. CASE MergeDone
    BY <1>11 DEF MergeDone
  <1>12. CASE Finalize
    BY <1>12 DEF Finalize
  <1>13. CASE ParseDomain
    BY <1>13 DEF ParseDomain, Hang
  <1>14. CASE Inherit
    BY <1>14 DEF Inherit, Hang
  <1>15. CASE Inherited
    BY <1>15 DEF Inherited, Hang
  <1>16. CASE Populated
    BY <1>16 DEF Populated
  <1>17. CASE StartDomain
    BY <1>17 DEF StartDomain
  <1>18. CASE StartFails
    BY <1>18 DEF StartFails, Hang
  <1>19. CASE StartDone
    BY <1>19 DEF StartDone
  <1>20. ASSUME NEW range \in Ranges, Device(range) PROVE Flow
    BY <1>20 DEF Device
  <1>21. ASSUME NEW h \in Harts, PmpConfigure(h) PROVE Flow
    BY <1>21, Zenon DEF PmpConfigure
  <1>22. CASE UNCHANGED vars
    BY <1>22 DEF vars
  <1> QED
    BY <1>1, <1>2, <1>3, <1>4, <1>5, <1>6, <1>7, <1>8, <1>9, <1>10, <1>11, <1>12, <1>13, <1>14, <1>15, <1>16, <1>17, <1>18, <1>19, <1>20, <1>21, <1>22 DEF Next, Step

LEMMA SameList ==
  ASSUME NEW d \in Doms, regs'[d] = regs[d], next'[d] = next[d]
  PROVE  (OrderedList(regs[d])' <=> OrderedList(regs[d])) /\ (Exec(d)' <=> Exec(d))
  BY DEF OrderedList, Exec

LEMMA SortKeeps ==
  ASSUME DomainInv, [Next]_vars
  PROVE  SortInv'
  <1> SUFFICES ASSUME pc' = "sort" PROVE SortInv'
    BY DEF SortInv
  <1>1. regs \in [Doms -> Seq(Region)] /\ cur \in Doms /\ SortInv
    BY DEF DomainInv, TypeOK
  <1>2. ASSUME regs' = regs, i' = 1, j' = 2, cur' = cur \/ cur' = Root, Sane(cur') PROVE SortInv'
    <2>1. cur' \in Doms
      BY <1>1, <1>2, Constants
    <2>2. PICK rs \in Seq(Region) : rs = regs[cur'] /\ rs = regs'[cur']
      BY <1>1, <1>2, <2>1
    <2>3. \A k \in DOMAIN rs : Valid(rs[k])
      BY <1>2, <2>2 DEF Sane
    <2> QED
      BY <1>2, <2>2, <2>3 DEF SortInv
  <1>3. CASE Register
    BY <1>2, <1>3 DEF Register, SortFrom, Hang
  <1>4. CASE Sanitize
    BY <1>2, <1>4 DEF Sanitize, SortFrom, Hang
  <1>5. CASE SortStep
    <2>1. PICK rs \in Seq(Region) : rs = regs[cur]
      BY <1>1
    <2>2. i \in DOMAIN rs /\ j \in DOMAIN rs /\ i < j /\ i < Len(rs) /\ ~Conflict(rs[j], rs[i])
      BY <1>5, <2>1, SortStepIs
    <2>3. PICK ms \in Seq(Region) :
              /\ regs' = [regs EXCEPT ![cur] = ms]
              /\ Len(ms) = Len(rs)
              /\ \A k \in DOMAIN rs : k # i /\ k # j => ms[k] = rs[k]
              /\ \/ ms[i] = rs[i] /\ ms[j] = rs[j] /\ ~Before(rs[j], rs[i])
                 \/ ms[i] = rs[j] /\ ms[j] = rs[i] /\ Before(rs[j], rs[i])
      BY <1>5, <2>1, SortStepIs
    <2>4. /\ i \in Nat /\ j \in Nat /\ 1 <= i /\ j <= Len(rs)
          /\ \A k \in DOMAIN rs : Valid(rs[k])
          /\ \A k, l \in DOMAIN rs : k < l /\ (k < i \/ (k = i /\ l < j)) => Ordered(rs[k], rs[l])
      BY <1>1, <1>5, <2>1, <2>2 DEF SortInv, SortStep
    <2>5. cur' = cur /\ ms = regs'[cur']
      BY <1>1, <1>5, <2>3 DEF SortStep
    <2>6. DOMAIN ms = DOMAIN rs /\ DOMAIN rs = 1 .. Len(rs)
      BY <2>3
    <2>7. \A k \in DOMAIN ms : Valid(ms[k])
      BY <2>2, <2>3, <2>4, <2>6
    <2>8. PICK a \in Region, b \in Region : a = rs[i] /\ b = rs[j]
      BY <2>2
    <2>9. ASSUME NEW k \in DOMAIN rs, NEW l \in DOMAIN rs, k < l, k < i PROVE Ordered(ms[k], ms[l])
      <3>1. ms[k] = rs[k]
        BY <2>2, <2>3, <2>6, <2>9
      <3>2. \E p \in DOMAIN rs : k < p /\ ms[l] = rs[p]
        BY <2>2, <2>3, <2>6, <2>9
      <3> QED
        BY <2>4, <2>9, <3>1, <3>2
    <2>10. ASSUME NEW l \in DOMAIN rs, i < l, l <= j PROVE Ordered(ms[i], ms[l])
      <3>1. CASE l = j
        BY <2>2, <2>3, <2>4, <2>8, <3>1, Compared
      <3>2. CASE l < j
        <4>1. Ordered(rs[i], rs[l]) /\ ms[l] = rs[l] /\ rs[l] \in Region
          BY <2>2, <2>3, <2>4, <2>6, <2>10, <3>2
        <4> QED
          BY <2>3, <2>8, <4>1, Compared
      <3> QED
        BY <2>6, <2>10, <3>1, <3>2, <2>4
    <2>11. CASE j < Len(rs)
      <3>1. i' = i /\ j' = j + 1
        BY <1>5, <2>1, <2>11 DEF SortStep, Advance
      <3>2. ASSUME NEW k \in DOMAIN ms, NEW l \in DOMAIN ms, k < l, k < i \/ (k = i /\ l < j + 1)
            PROVE  Ordered(ms[k], ms[l])
        BY <2>4, <2>6, <2>9, <2>10, <3>2
      <3>3. 1 <= i' /\ i' < j' /\ (i' < Len(ms) => j' <= Len(ms))
        BY <2>2, <2>3, <2>4, <2>11, <3>1
      <3> QED
        BY <2>5, <2>7, <3>1, <3>2, <3>3 DEF SortInv
    <2>12. CASE ~(j < Len(rs))
      <3>1. i' = i + 1 /\ j' = i + 2
        BY <1>5, <2>1, <2>12 DEF SortStep, Advance
      <3>2. ASSUME NEW k \in DOMAIN ms, NEW l \in DOMAIN ms, k < l, k < i + 1 \/ (k = i + 1 /\ l < i + 2)
            PROVE  Ordered(ms[k], ms[l])
        <4>1. k < i \/ (k = i /\ i < l /\ l <= j)
          BY <2>4, <2>6, <2>12, <3>2
        <4> QED
          BY <2>6, <2>9, <2>10, <3>2, <4>1
      <3>3. 1 <= i' /\ i' < j' /\ (i' < Len(ms) => j' <= Len(ms))
        BY <2>2, <2>3, <2>4, <3>1
      <3> QED
        BY <2>5, <2>7, <3>1, <3>2, <3>3 DEF SortInv
    <2> QED
      BY <2>11, <2>12
  <1>6. CASE UNCHANGED vars
    BY <1>1, <1>6 DEF vars, SortInv
  <1> QED
    BY <1>3, <1>4, <1>5, <1>6, StepFlow DEF Flow

(* The sort is done: the list is in order, and the next stage was checked. *)
LEMMA SortDoneIs ==
  ASSUME DomainInv, SortDone
  PROVE  /\ UNCHANGED <<regs, table, next, cur>> /\ i' = 1 /\ ~merged'
         /\ \A k \in DOMAIN regs[cur] : Valid(regs[cur][k])
         /\ OrderedList(regs[cur])
         /\ pc' # "hang" => Exec(cur) /\ pc' = IF table # << >> /\ cur = Root THEN "merge" ELSE "assign"
  <1>1. PICK rs \in Seq(Region) : rs = regs[cur]
    BY DEF DomainInv, TypeOK
  <1>2. /\ i \in Nat /\ i >= Len(rs) /\ \A k \in DOMAIN rs : Valid(rs[k])
        /\ \A k, l \in DOMAIN rs : k < l /\ (k < i \/ (k = i /\ l < j)) => Ordered(rs[k], rs[l])
    BY <1>1 DEF SortDone, DomainInv, TypeOK, SortInv
  <1>3. \A k, l \in DOMAIN rs : k < l => k < i
    BY <1>2
  <1>4. OrderedList(rs)
    BY <1>2, <1>3 DEF OrderedList
  <1>5. pc' # "hang" => Exec(cur) /\ pc' = IF table # << >> /\ cur = Root THEN "merge" ELSE "assign"
    BY DEF SortDone, Exec
  <1> QED
    BY <1>1, <1>2, <1>4, <1>5 DEF SortDone, domVars

LEMMA MergeKeeps ==
  ASSUME DomainInv, [Next]_vars
  PROVE  MergeInv'
  <1> SUFFICES ASSUME pc' = "merge" PROVE MergeInv'
    BY DEF MergeInv
  <1>1. MergeInv /\ regs \in [Doms -> Seq(Region)] /\ i \in Nat /\ Root \in Doms
    BY Constants DEF DomainInv, TypeOK
  <1>2. CASE SortDone
    <2>1. cur = Root /\ UNCHANGED <<regs, next>> /\ i' = 1
      BY <1>2, SortDoneIs
    <2>2. OrderedList(regs[Root]) /\ Exec(Root) /\ \A k \in DOMAIN regs[Root] : Valid(regs[Root][k])
      BY <1>2, <2>1, SortDoneIs
    <2>3. OrderedList(regs[Root])' /\ Exec(Root)'
      BY <1>1, <2>1, <2>2, SameList
    <2> QED
      BY <2>1, <2>2, <2>3 DEF MergeInv, OrderedList
  <1>3. CASE MergeStep
    <2>1. i' = i + 1 /\ next' = next /\ pc = "merge" /\ i < Len(regs[Root])
      BY <1>3 DEF MergeStep, domVars
    <2>2. CASE UNCHANGED <<regs, merged>>
      <3>1. OrderedList(regs[Root])' <=> OrderedList(regs[Root])
        BY <1>1, <2>1, <2>2, SameList
      <3>2. Exec(Root)' <=> Exec(Root)
        BY <1>1, <2>1, <2>2, SameList
      <3>3. \A k \in DOMAIN regs[Root] : i + 1 <= k => i <= k
        BY <1>1
      <3> QED
        BY <1>1, <2>1, <2>2, <3>1, <3>2, <3>3 DEF MergeInv
    <2>3. CASE ~UNCHANGED <<regs, merged>>
      <3>1. PICK rs \in Seq(Region) : rs = regs[Root]
        BY <1>1
      <3>2. merged'
        BY <1>3, <2>3, MergeStepIs
      <3>3. PICK ms \in Seq(Region) :
                 /\ regs' = [regs EXCEPT ![Root] = ms]
                 /\ Len(ms) = Len(rs) - 1
                 /\ \A k \in i + 1 .. Len(rs) - 1 : ms[k] = rs[k + 1]
        BY <1>3, <2>3, <3>1, MergeStepIs
      <3>4. regs'[Root] = ms
        BY <1>1, <3>3
      <3>5. ASSUME NEW k \in DOMAIN ms, i + 1 <= k PROVE ms[k] = rs[k + 1] /\ k + 1 \in DOMAIN rs /\ i <= k + 1
        BY <1>1, <3>3, <3>5
      <3>6. ASSUME NEW k \in DOMAIN ms, i + 1 <= k PROVE Valid(ms[k])
        BY <1>1, <2>1, <3>1, <3>5, <3>6 DEF MergeInv
      <3>7. ASSUME NEW k \in DOMAIN ms, NEW l \in DOMAIN ms, i + 1 <= k, k < l PROVE Ordered(ms[k], ms[l])
        <4>1. k + 1 < l + 1 /\ i + 1 <= l
          BY <1>1, <3>7
        <4> QED
          BY <1>1, <2>1, <3>1, <3>5, <3>7, <4>1 DEF MergeInv
      <3> QED
        BY <1>1, <2>1, <3>2, <3>4, <3>6, <3>7 DEF MergeInv
    <2> QED
      BY <2>2, <2>3
  <1>4. CASE UNCHANGED vars
    BY <1>1, <1>4 DEF vars, MergeInv, OrderedList, Exec
  <1> QED
    BY <1>2, <1>3, <1>4, StepFlow DEF Flow

(* The list of a registered domain does not change, but the root domain's. *)
LEMMA RegisteredStay ==
  ASSUME DomainInv, [Next]_vars, NEW d \in Doms, d < Len(table), d # Root
  PROVE  regs'[d] = regs[d] /\ next'[d] = next[d]
  <1>1. /\ regs \in [Doms -> Seq(Region)] /\ next \in [Doms -> Addrs] /\ d \in Nat /\ Len(table) \in Nat
        /\ d # Len(table) /\ Frames
    BY Constants, StepFrames DEF DomainInv, TypeOK
  <1>2. SortStep => cur = Len(table) \/ cur = Root
    BY DEF SortStep, DomainInv, ControlInv
  <1>3. SortStep => regs'[d] = regs[d]
    BY <1>1, <1>2, SortStepIs
  <1>4. AddMemregion => regs'[d] = regs[d]
    BY <1>1, AddIs
  <1>5. MergeStep => regs'[d] = regs[d]
    BY <1>1, MergeStepIs
  <1>6. ParseDomain \/ Inherit => regs'[d] = regs[d]
    BY <1>1, FdtStepIs
  <1>7. Inherited => next'[d] = next[d]
    BY <1>1, InheritedIs
  <1> QED
    BY <1>1, <1>3, <1>4, <1>5, <1>6, <1>7 DEF Frames

(* That of the root domain does not change either while it is settled, and *)
(* it is settled again when a pass finds nothing to merge.                 *)
LEMMA RootSettles ==
  ASSUME DomainInv, [Next]_vars, table # << >>, Settled(Root)'
  PROVE  /\ regs'[Root] = regs[Root] /\ next'[Root] = next[Root]
         /\ Settled(Root) \/ (MergeDone /\ ~merged)
  <1> DEFINE G == /\ regs'[Root] = regs[Root] /\ next'[Root] = next[Root]
                  /\ Settled(Root) \/ (MergeDone /\ ~merged)
  <1>1. /\ regs \in [Doms -> Seq(Region)] /\ next \in [Doms -> Addrs] /\ Root \in Doms /\ cur \in Doms
        /\ ControlInv
    BY Constants DEF DomainInv, TypeOK
  <1>2. /\ pc' \notin {"sanitize", "merge", "hang"} /\ ~(pc' = "sort" /\ cur' = Root)
        /\ pc \notin {"sanitize", "merge", "hang"} /\ ~(pc = "sort" /\ cur = Root) => Settled(Root)
    BY DEF Settled
  <1> USE DEF domVars, loopVars, Hang
  <1>3. CASE Register
    BY <1>1, <1>2, <1>3 DEF Register, SortFrom, Hang
  <1>4. CASE SortStep
    BY <1>1, <1>2, <1>4, SortStepIs DEF SortStep
  <1>5. CASE SortConflict
    BY <1>1, <1>2, <1>5 DEF SortConflict, Hang
  <1>6. CASE SortDone
    BY <1>1, <1>2, <1>6, SortDoneIs DEF SortDone
  <1>7. CASE Assign
    BY <1>1, <1>2, <1>7 DEF Assign
  <1>8. CASE AddRefused
    BY <1>1, <1>2, <1>8 DEF AddRefused, Hang
  <1>9. CASE AddMemregion
    BY <1>1, <1>2, <1>9 DEF AddMemregion
  <1>10. CASE Sanitize
    BY <1>1, <1>2, <1>10 DEF Sanitize, SortFrom, Hang
  <1>11. CASE DeviceDone
    BY <1>1, <1>2, <1>11 DEF DeviceDone
  <1>12. CASE MergeStep
    BY <1>1, <1>2, <1>12 DEF MergeStep
  <1>13. CASE MergeDone
    BY <1>1, <1>2, <1>13 DEF MergeDone
  <1>14. CASE Finalize
    BY <1>1, <1>2, <1>14 DEF Finalize
  <1>15. CASE ParseDomain
    BY <1>1, <1>2, <1>15, FdtStepIs DEF ParseDomain
  <1>16. CASE Inherit
    BY <1>1, <1>2, <1>16, FdtStepIs DEF Inherit
  <1>17. CASE Inherited
    BY <1>1, <1>2, <1>17, InheritedIs DEF Inherited
  <1>18. CASE Populated
    BY <1>1, <1>2, <1>18 DEF Populated
  <1>19. CASE StartDomain
    BY <1>1, <1>2, <1>19 DEF StartDomain
  <1>20. CASE StartFails
    BY <1>1, <1>2, <1>20 DEF StartFails, Hang
  <1>21. CASE StartDone
    BY <1>1, <1>2, <1>21 DEF StartDone
  <1>22. ASSUME NEW range \in Ranges, Device(range) PROVE G
    BY <1>1, <1>2, <1>22 DEF Device
  <1>23. ASSUME NEW h \in Harts, PmpConfigure(h) PROVE G
    BY <1>1, <1>2, <1>23 DEF PmpConfigure
  <1>24. CASE UNCHANGED vars
    BY <1>1, <1>2, <1>24 DEF vars
  <1> QED
    BY <1>3, <1>4, <1>5, <1>6, <1>7, <1>8, <1>9, <1>10, <1>11, <1>12, <1>13, <1>14, <1>15, <1>16, <1>17, <1>18, <1>19, <1>20, <1>21, <1>22, <1>23, <1>24 DEF Next, Step

LEMMA ListKeeps ==
  ASSUME DomainInv, [Next]_vars
  PROVE  ListInv'
  <1>1. ListInv /\ Len(table) \in Nat /\ Doms \subseteq Nat /\ Root \in Doms /\ Root = 0
    BY Constants DEF DomainInv, TypeOK, Root
  <1>2. ASSUME NEW d \in Doms, d < Len(table), Settled(d)' PROVE OrderedList(regs[d])' /\ Exec(d)'
    <2>1. CASE d # Root
      <3>1. regs'[d] = regs[d] /\ next'[d] = next[d] /\ Settled(d)
        BY <1>2, <2>1, RegisteredStay DEF Settled
      <3> QED
        BY <1>1, <1>2, <3>1, SameList DEF ListInv
    <2>2. CASE d = Root
      <3>1. table # << >>
        BY <1>1, <1>2
      <3>2. regs'[Root] = regs[Root] /\ next'[Root] = next[Root] /\ (Settled(Root) \/ (MergeDone /\ ~merged))
        BY <1>2, <2>2, <3>1, RootSettles
      <3>3. OrderedList(regs[Root]) /\ Exec(Root)
        BY <1>1, <1>2, <2>2, <3>2 DEF ListInv, DomainInv, MergeInv, MergeDone
      <3> QED
        BY <1>1, <2>2, <3>2, <3>3, SameList
    <2> QED
      BY <2>1, <2>2
  <1>3. ASSUME pc' = "assign" PROVE OrderedList(regs[cur])' /\ Exec(cur)'
    <2>1. CASE SortDone
      <3>1. UNCHANGED <<regs, next, cur>> /\ OrderedList(regs[cur]) /\ Exec(cur)
        BY <1>3, <2>1, SortDoneIs
      <3> QED
        BY <3>1 DEF OrderedList, Exec
    <2>2. CASE UNCHANGED vars
      BY <1>1, <1>3, <2>2 DEF vars, ListInv, OrderedList, Exec
    <2> QED
      BY <1>3, <2>1, <2>2, StepFlow DEF Flow
  <1>4. ASSUME NEW d \in Doms, d < Len(table'), ~(d < Len(table)), Settled(d)'
        PROVE  OrderedList(regs[d])' /\ Exec(d)'
    <2>1. Assign
      BY <1>4, StepFrames DEF Frames
    <2>2. table' = Append(table, cur) /\ cur = Len(table) /\ cur \in Doms
      BY <2>1, AssignIs DEF DomainInv, TypeOK
    <2>3. d = cur
      BY <1>1, <1>4, <2>2 DEF DomainInv, TypeOK
    <2>4. OrderedList(regs[d]) /\ Exec(d) /\ UNCHANGED <<regs, next>>
      BY <1>1, <2>1, <2>3 DEF ListInv, Assign
    <2> QED
      BY <2>4, SameList
  <1> QED
    BY <1>2, <1>3, <1>4 DEF ListInv

(* The end of the cold boot.                                               *)
LEMMA Stays ==
  ASSUME [Next]_vars
  PROVE  /\ pc \in {"start", "done", "hang"} => pc' \in {"start", "done", "hang"}
         /\ pc = "done" => pc' = "done"
  <1> DEFINE G == /\ pc \in {"start", "done", "hang"} => pc' \in {"start", "done", "hang"}
                  /\ pc = "done" => pc' = "done"
  <1>1. CASE Register
    BY <1>1 DEF Register, SortFrom, Hang
  <1>2. CASE SortStep
    BY <1>2 DEF SortStep, Advance
  <1>3. CASE SortConflict
    BY <1>3 DEF SortConflict, Hang
  <1>4. CASE SortDone
    BY <1>4 DEF SortDone
  <1>5. CASE Assign
    BY <1>5 DEF Assign
  <1>6. CASE AddRefused
    BY <1>6 DEF AddRefused, Hang
  <1>7. CASE AddMemregion
    BY <1>7 DEF AddMemregion
  <1>8. CASE Sanitize
    BY <1>8 DEF Sanitize, SortFrom, Hang
  <1>9. CASE DeviceDone
    BY <1>9 DEF DeviceDone
  <1>10. CASE MergeStep
    BY <1>10 DEF MergeStep
  <1>11. CASE MergeDone
    BY <1>11 DEF MergeDone
  <1>12. CASE Finalize
    BY <1>12 DEF Finalize
  <1>13. CASE ParseDomain
    BY <1>13 DEF ParseDomain, Hang
  <1>14. CASE Inherit
    BY <1>14 DEF Inherit, Hang
  <1>15. CASE Inherited
    BY <1>15 DEF Inherited, Hang
  <1>16. CASE Populated
    BY <1>16 DEF Populated
  <1>17. CASE StartDomain
    BY <1>17 DEF StartDomain
  <1>18. CASE StartFails
    BY <1>18 DEF StartFails, Hang
  <1>19. CASE StartDone
    BY <1>19 DEF StartDone
  <1>20. ASSUME NEW range \in Ranges, Device(range) PROVE G
    BY <1>20 DEF Device
  <1>21. ASSUME NEW h \in Harts, PmpConfigure(h) PROVE G
    BY <1>21, Zenon DEF PmpConfigure
  <1>22. CASE UNCHANGED vars
    BY <1>22 DEF vars
  <1> QED
    BY <1>1, <1>2, <1>3, <1>4, <1>5, <1>6, <1>7, <1>8, <1>9, <1>10, <1>11, <1>12, <1>13, <1>14, <1>15, <1>16, <1>17, <1>18, <1>19, <1>20, <1>21, <1>22 DEF Next, Step

LEMMA HartKeeps ==
  ASSUME DomainInv, [Next]_vars
  PROVE  HartInv'
  <1>1. HartInv /\ TypeOK /\ Frames
    BY StepFrames DEF DomainInv
  <1>2. CASE Assign
    <2>1. PICK taken \in SUBSET Harts :
           /\ taken = mask \cap Possible(cur)
           /\ cur = Len(table) /\ Len(table) < MaxIndex
           /\ domainOf' = [h \in Harts |-> IF h \in taken THEN cur ELSE domainOf[h]]
           /\ assigned' = [d \in Doms |-> IF d = cur THEN taken
                                          ELSE {h \in assigned[d] : ~(h \in taken /\ domainOf[h] = d)}]
           /\ boot' = IF Cold \in taken THEN [boot EXCEPT ![cur] = Cold] ELSE boot
           /\ table' = Append(table, cur)
      BY <1>2, AssignIs
    <2>2. PICK n \in Nat : n = Len(table) /\ n = cur /\ Len(table') = n + 1 /\ table' # << >> /\ n \in Doms
      <3>1. table \in Seq(Doms) /\ cur \in Doms
        BY <1>1 DEF TypeOK
      <3>2. Len(Append(table, cur)) = Len(table) + 1 /\ Append(table, cur) # << >>
        BY <3>1
      <3> QED
        BY <2>1, <3>1, <3>2, Constants
    <2>3. ASSUME NEW h \in Harts PROVE h \notin taken => domainOf[h] \in 0 .. n - 1
      <3>1. CASE table = << >>
        <4>1. taken = Harts
          BY <1>1, <2>1, <2>2, <3>1 DEF HartInv, Possible, Root
        <4> QED
          BY <4>1
      <3>2. CASE table # << >>
        BY <1>1, <2>2, <3>2 DEF HartInv
      <3> QED
        BY <3>1, <3>2
    <2>4. \A h \in Harts : domainOf'[h] \in 0 .. Len(table') - 1
      BY <2>1, <2>2, <2>3
    <2>5. ASSUME NEW h \in Harts, NEW d \in Doms PROVE h \in assigned'[d] <=> domainOf'[h] = d
      <3>1. domainOf'[h] = IF h \in taken THEN n ELSE domainOf[h]
        BY <2>1, <2>2
      <3>2. CASE d = n
        <4>1. assigned'[d] = taken
          BY <2>1, <2>2, <3>2
        <4>2. h \notin taken => domainOf[h] # n
          BY <2>3
        <4> QED
          BY <3>1, <3>2, <4>1, <4>2
      <3>3. CASE d # n
        <4>1. h \in assigned'[d] <=> h \in assigned[d] /\ ~(h \in taken /\ domainOf[h] = d)
          BY <2>1, <2>2, <3>3
        <4>2. CASE table = << >>
          <5>1. assigned[d] = {} /\ taken = Harts
            BY <1>1, <2>1, <2>2, <4>2 DEF HartInv, Possible, Root
          <5> QED
            BY <3>1, <3>3, <4>1, <5>1
        <4>3. CASE table # << >>
          <5>1. h \in assigned[d] <=> domainOf[h] = d
            BY <1>1, <4>3 DEF HartInv
          <5> QED
            BY <3>1, <3>3, <4>1, <5>1
        <4> QED
          BY <4>2, <4>3
      <3> QED
        BY <3>2, <3>3
    <2>6. boot'[domainOf'[Cold]] = Cold
      <3>1. CASE Cold \in taken
        BY <1>1, <2>1, <2>2, <3>1, Constants DEF TypeOK
      <3>2. CASE Cold \notin taken
        <4>1. table # << >>
          BY <1>1, <2>1, <2>2, <3>2, Constants DEF HartInv, Possible, Root
        <4>2. boot' = boot /\ domainOf'[Cold] = domainOf[Cold]
          BY <2>1, <3>2, Constants
        <4> QED
          BY <1>1, <4>1, <4>2 DEF HartInv
      <3> QED
        BY <3>1, <3>2
    <2> QED
      BY <2>2, <2>4, <2>5, <2>6 DEF HartInv
  <1>3. CASE Inherited
    <2>1. UNCHANGED <<table, assigned, domainOf>> /\ cur = Len(table) /\ table # << >>
      BY <1>3, InheritedIs DEF Inherited
    <2>2. boot' = boot \/ \E b \in Int \cup {None} : boot' = [boot EXCEPT ![cur] = b]
      BY <1>3, InheritedIs
    <2>3. domainOf[Cold] \in 0 .. Len(table) - 1 /\ domainOf[Cold] # cur
      BY <1>1, <2>1, Constants DEF HartInv, TypeOK
    <2>4. domainOf[Cold] \in Doms
      BY <1>1, <2>3, Constants DEF TypeOK
    <2>5. boot'[domainOf[Cold]] = boot[domainOf[Cold]]
      BY <1>1, <2>2, <2>3, <2>4 DEF TypeOK
    <2> QED
      BY <1>1, <2>1, <2>5 DEF HartInv
  <1>4. CASE UNCHANGED <<table, assigned, domainOf, boot, mask>>
    BY <1>1, <1>4 DEF HartInv
  <1> QED
    BY <1>1, <1>2, <1>3, <1>4 DEF Frames

LEMMA StartKeeps ==
  ASSUME DomainInv, [Next]_vars
  PROVE  StartInv'
  <1>1. StartInv /\ TypeOK /\ Frames /\ HartInv /\ ControlInv
    BY StepFrames DEF DomainInv
  <1>2. ASSUME NEW h \in Harts, started'[h] # None
        PROVE  pc' \in {"start", "done", "hang"} /\ started'[h] = domainOf'[h]
    <2>1. CASE StartDomain
      <3>1. UNCHANGED <<domainOf, pc>> /\ pc = "start"
        BY <2>1 DEF StartDomain, domVars
      <3>2. started' = started \/ (Boots(table[i]) /\ started' = [started EXCEPT ![boot[table[i]]] = table[i]])
        BY <2>1 DEF StartDomain
      <3>3. started'[h] = started[h] \/ started'[h] = domainOf[h]
        BY <1>1, <3>2 DEF Boots, TypeOK
      <3> QED
        BY <1>1, <1>2, <3>1, <3>3 DEF StartInv
    <2>2. CASE ~StartDomain
      <3>1. started' = started
        BY <1>1, <2>2 DEF Frames
      <3>2. pc \in {"start", "done", "hang"} /\ started[h] = domainOf[h]
        BY <1>1, <1>2, <3>1 DEF StartInv
      <3>3. ~Assign
        BY <3>2 DEF Assign
      <3>4. domainOf' = domainOf
        BY <1>1, <3>3 DEF Frames
      <3>5. pc' \in {"start", "done", "hang"}
        BY <3>2, Stays
      <3> QED
        BY <3>1, <3>2, <3>4, <3>5
    <2> QED
      BY <2>1, <2>2
  <1>3. finalized' => pc' = "done"
    <2>1. CASE StartDone
      BY <2>1 DEF StartDone
    <2>2. CASE ~StartDone
      <3>1. finalized' = finalized
        BY <1>1, <2>2 DEF Frames
      <3>2. pc = "done" => pc' = "done"
        BY Stays
      <3> QED
        BY <1>1, <3>1, <3>2, Zenon DEF StartInv
    <2> QED
      BY <2>1, <2>2
  <1>4. ASSUME pc' = "start" PROVE 1 <= i' /\ (domainOf'[Cold] + 1 < i' => started'[Cold] # None)
    <2>1. CASE Populated
      <3>1. i' = 1 /\ domainOf' = domainOf /\ pc = "populate"
        BY <2>1 DEF Populated, domVars
      <3>2. table # << >>
        BY <1>1, <3>1 DEF ControlInv
      <3>3. domainOf[Cold] \in Nat
        BY <1>1, <3>2, Constants DEF HartInv, TypeOK
      <3> QED
        BY <3>1, <3>3
    <2>2. CASE StartDomain
      <3>1. i' = i + 1 /\ UNCHANGED <<domainOf, pc>> /\ pc = "start" /\ i <= Len(table)
        BY <2>2 DEF StartDomain, domVars
      <3>2. table # << >> /\ 1 <= i /\ (domainOf[Cold] + 1 < i => started[Cold] # None)
        BY <1>1, <3>1 DEF ControlInv, StartInv
      <3>3. PICK d \in Nat : d = domainOf[Cold] /\ d < Len(table) /\ d \in Doms
        BY <1>1, <3>2, Constants DEF HartInv, TypeOK, Doms
      <3>4. i \in DOMAIN table /\ table[i] = i - 1
        BY <1>1, <3>1, <3>2 DEF TypeOK, ControlInv
      <3>5. started' = IF Boots(table[i]) THEN [started EXCEPT ![boot[table[i]]] = table[i]] ELSE started
        BY <2>2 DEF StartDomain
      <3>6. table[i] \in Doms /\ table[i] # None
        BY <1>1, <3>4, Constants DEF TypeOK
      <3>7. CASE d + 1 < i
        BY <1>1, <3>2, <3>3, <3>5, <3>6, <3>7, Constants, <3>1 DEF TypeOK
      <3>8. CASE d + 1 = i
        <4>1. table[i] = d
          BY <3>3, <3>4, <3>8
        <4>2. Boots(d) /\ boot[d] = Cold
          BY <1>1, <3>2, <3>3, Constants DEF Boots, HartInv
        <4> QED
          BY <1>1, <3>1, <3>2, <3>5, <3>6, <4>1, <4>2, Constants DEF TypeOK
      <3>9. CASE d + 1 > i
        BY <1>1, <3>1, <3>2, <3>3, <3>9 DEF TypeOK
      <3> QED
        BY <1>1, <3>3, <3>7, <3>8, <3>9 DEF TypeOK
    <2>3. CASE UNCHANGED vars
      BY <1>1, <1>4, <2>3 DEF vars, StartInv
    <2> QED
      BY <1>4, <2>1, <2>2, <2>3, StepFlow DEF Flow
  <1>5. ASSUME pc' = "done" PROVE started'[Cold] # None
    <2>1. CASE StartDone
      <3>1. started' = started /\ pc = "start" /\ i > Len(table)
        BY <2>1 DEF StartDone
      <3>2. domainOf[Cold] \in 0 .. Len(table) - 1
        BY <1>1, <3>1, Constants DEF HartInv, ControlInv
      <3>3. domainOf[Cold] + 1 < i
        BY <1>1, <3>1, <3>2 DEF TypeOK
      <3> QED
        BY <1>1, <3>1, <3>3 DEF StartInv
    <2>2. ASSUME NEW h \in Harts, PmpConfigure(h) PROVE started'[Cold] # None
      BY <1>1, <2>2 DEF PmpConfigure, StartInv
    <2>3. CASE UNCHANGED vars
      BY <1>1, <1>5, <2>3 DEF vars, StartInv
    <2> QED
      BY <1>5, <2>1, <2>2, <2>3, StepFlow DEF Flow
  <1> QED
    BY <1>2, <1>3, <1>4, <1>5 DEF StartInv
-----------------------------------------------------------------------------
(* The invariant holds, whatever devices and device trees there are: the   *)
(* lists of regions that sbi_domain_register and                           *)
(* sbi_domain_root_add_memregion leave behind are sorted, and no array     *)
(* overflows.                                                              *)
THEOREM DomainInvHolds == Spec => []DomainInv
  <1>1. Init => DomainInv
    BY InitInv
  <1>2. DomainInv /\ [Next]_vars => DomainInv'
    BY TypeKeeps, ControlKeeps, InputKeeps, SortKeeps, MergeKeeps, WholeKeeps, ListKeeps, HartKeeps, StartKeeps
       DEF DomainInv
  <1> QED
    BY <1>1, <1>2, PTL DEF Spec

(* The types, and the bounds of root_memregs, fdt_regions and              *)
(* domidx_to_domain_table.                                                 *)
THEOREM DomainTypeOK == Spec => []TypeOK
  <1>1. DomainInv => TypeOK
    BY DEF DomainInv
  <1> QED
    BY <1>1, DomainInvHolds, PTL

(* A sorted list decides by a smallest region that has the address.        *)
LEMMA Smallest ==
  ASSUME DomainInv
  PROVE  ChecksSmallest
  <1> SUFFICES ASSUME NEW d \in Registered, Settled(d)
               PROVE  /\ \A addr \in Addrs :
                           LET hits == Hits(regs[d], addr, "S")
                           IN  hits # {} => \A k \in hits : regs[d][Min(hits)].order <= regs[d][k].order
                      /\ \A k, l \in DOMAIN regs[d] :
                           k # l /\ regs[d][k].order < Xlen => regs[d][k] # regs[d][l]
    BY DEF ChecksSmallest
  <1>1. d \in Doms /\ d < Len(table)
    BY Constants DEF Registered, DomainInv, TypeOK, ControlInv
  <1>2. PICK rs \in Seq(Region) : rs = regs[d]
    BY <1>1 DEF DomainInv, TypeOK
  <1>3. \A k, l \in DOMAIN rs : k < l => Ordered(rs[k], rs[l])
    BY <1>1, <1>2 DEF DomainInv, ListInv, OrderedList
  <1>4. ASSUME NEW addr \in Addrs, NEW hits, hits = Hits(rs, addr, "S"), NEW k \in hits
        PROVE  rs[Min(hits)].order <= rs[k].order
    <2>1. hits \in SUBSET DOMAIN rs
      BY <1>4 DEF Hits
    <2>2. hits \in SUBSET Nat /\ hits # {}
      BY <2>1
    <2>3. PICK m \in hits : m = Min(hits) /\ m <= k
      BY <2>2, MinIn
    <2>4. PICK a \in Region, b \in Region : a = rs[m] /\ b = rs[k]
      BY <2>1
    <2>5. m = k \/ Ordered(a, b)
      BY <1>3, <2>1, <2>2, <2>3, <2>4
    <2>6. a.order <= b.order
      BY <2>4, <2>5, RegionNat DEF Ordered, Before
    <2> QED
      BY <2>3, <2>4, <2>6
  <1>5. ASSUME NEW k \in DOMAIN rs, NEW l \in DOMAIN rs, k # l, rs[k].order < Xlen PROVE rs[k] # rs[l]
    <2>1. CASE k < l
      BY <1>3, <1>5, <2>1 DEF Ordered
    <2>2. CASE l < k
      BY <1>3, <1>5, <2>2 DEF Ordered
    <2> QED
      BY <1>5, <2>1, <2>2
  <1> QED
    BY <1>2, <1>4, <1>5

(* sbi_domain_check_addr decides by a smallest region that has the         *)
(* address, and no region of a registered domain is there twice.           *)
THEOREM ChecksSmallestHolds == Spec => []ChecksSmallest
  <1>1. DomainInv => ChecksSmallest
    BY Smallest
  <1> QED
    BY <1>1, DomainInvHolds, PTL

(* Each hart is in exactly one domain, a boot hart is given the next stage *)
(* of its own domain, where it may execute it, and the cold boot hart is   *)
(* always given one.                                                       *)
THEOREM BootsOwnDomainHolds == Spec => []BootsOwnDomain
  <1>1. ASSUME DomainInv PROVE BootsOwnDomain
    <2>1. table # << >> => \A h \in Harts, d \in Doms : h \in assigned[d] <=> domainOf[h] = d
      BY <1>1 DEF DomainInv, HartInv
    <2>2. \A h \in Harts : started[h] # None => started[h] = domainOf[h]
      BY <1>1 DEF DomainInv, StartInv
    <2>3. finalized => pc = "done" /\ started[Cold] # None
      BY <1>1 DEF DomainInv, StartInv
    <2>4. ASSUME pc = "done", NEW h \in Harts, started[h] # None
          PROVE  CheckAddr(regs[started[h]], next[started[h]], "S", {"X"}, FALSE)
      <3>1. table # << >>
        BY <1>1, <2>4 DEF DomainInv, ControlInv
      <3>2. PICK d \in 0 .. Len(table) - 1 : d = started[h]
        BY <1>1, <2>2, <2>4, <3>1 DEF DomainInv, HartInv
      <3>3. d \in Doms /\ d < Len(table) /\ Settled(d)
        BY <1>1, <2>4, <3>2 DEF DomainInv, TypeOK, Doms, Settled
      <3> QED
        BY <1>1, <3>2, <3>3 DEF DomainInv, ListInv, Exec
    <2> QED
      BY <2>1, <2>2, <2>3, <2>4 DEF BootsOwnDomain
  <1> QED
    BY <1>1, DomainInvHolds, PTL
-----------------------------------------------------------------------------
(* What merging does to the access of addresses.                           *)
LEMMA FwAndAll ==
  /\ FwRegion \in Region /\ FwRegion.flags = {} /\ FwRegion.base \in Addrs /\ Has(FwRegion, FwRegion.base)
  /\ AllRegion \in Region /\ AllRegion.flags = {"R", "W", "X"} /\ AllRegion.order = Xlen
  /\ AllRegion.base = 0
  <1>1. Fw[1] \in Addrs /\ {} \in SUBSET Flags /\ {"R", "W", "X"} \in SUBSET Flags
    BY DomainAssumption DEF Flags
  <1>2. FwRegion \in Region /\ FwRegion.flags = {}
    BY <1>1, Inits DEF FwRegion, MemregionInit
  <1>3. FwRegion.base \in Addrs /\ Has(FwRegion, FwRegion.base)
    <2>1. PICK base \in Nat, p \in Nat \ {0} : base = FwRegion.base /\ p = 2^FwRegion.order
      BY <1>2, RegionNat, PowPositive
    <2>2. base <= base + p - 1
      OBVIOUS
    <2> QED
      BY <1>2, <2>1, <2>2 DEF Has, Region
  <1>4. /\ AllRegion \in Region /\ AllRegion.flags = {"R", "W", "X"}
        /\ AllRegion.order = Xlen => AllRegion.base = 0
    BY <1>1, Inits, Constants DEF AllRegion, MemregionInit
  <1>5. AllRegion.order = Xlen
    <2>1. PICK m \in Nat \ {0} : Xlen = m + 1
      BY DomainAssumption
    <2>2. PICK p \in Nat : p = 2^m /\ p > 1
      BY <2>1, PowPositive
    <2>3. Space = 2 * p
      BY <2>1, <2>2, PowDouble DEF Space
    <2>4. ASSUME NEW n \in 0 .. Xlen - 1 PROVE ~(Space - 1 <= 2^n)
      <3>1. PICK q \in Nat : q = 2^n /\ q <= p
        BY <2>1, <2>2, PowMonotone, PowPositive
      <3> QED
        BY <2>2, <2>3, <3>1
    <2>5. {n \in 0 .. Xlen - 1 : Space - 1 <= 2^n} = {}
      BY <2>4
    <2>6. {n \in 0 .. Xlen - 1 : Space - 1 <= 2^n} \cup {Xlen} = {Xlen}
      BY <2>5
    <2>7. Min({Xlen}) = Xlen
      BY Widths, MinIn
    <2>8. Log2RoundUp(Space - 1) = Xlen
      BY <2>6, <2>7 DEF Log2RoundUp
    <2>9. {o \in Xlen .. Xlen - 1 : Holds(0, Space - 1, o)} \cup {Xlen} = {Xlen}
      BY Widths
    <2> QED
      BY <2>7, <2>8, <2>9 DEF AllRegion, MemregionInit
  <1> QED
    BY <1>2, <1>3, <1>4, <1>5

LEMMA MergeHas ==
  ASSUME NEW m \in Region, NEW a \in Region, NEW b \in Region, MergeOf(m, a, b)
  PROVE  /\ a # b /\ a.flags = b.flags
         /\ m.order = Xlen => m.base = 0
         /\ \A x \in Addrs : Has(m, x) <=> Has(a, x) \/ Has(b, x)
  <1>1. /\ a.order = b.order /\ Wrap(a.base + Bit(a.order)) = b.base /\ a.flags = b.flags
        /\ a.order \in Nat /\ a.order < Xlen /\ a.base \in Nat /\ b.base \in Nat
        /\ m.order = a.order + 1 /\ m.base = a.base
    BY Widths, RegionNat DEF MergeOf, Buddies
  <1>2. PICK p \in Nat : p = 2^a.order /\ p = Bit(a.order) /\ p > 1 /\ a.base + p <= Space
    BY <1>1, ValidFits DEF MergeOf
  <1>3. b.base + p <= Space
    BY <1>1, <1>2, ValidFits DEF MergeOf
  <1>4. a.base <= b.base
    BY <1>1 DEF MergeOf, Ordered, Before
  <1>5. b.base = a.base + p
    <2>1. CASE a.base + p < Space
      <3>1. Wrap(a.base + p) = a.base + p
        BY <1>1, <1>2, <2>1, Widths DEF Wrap
      <3> QED
        BY <1>1, <1>2, <3>1
    <2>2. CASE a.base + p = Space
      <3>1. Space % Space = 0
        BY Widths
      <3>2. b.base = 0
        BY <1>1, <1>2, <2>2, <3>1 DEF Wrap
      <3>3. p = Space
        BY <1>1, <1>4, <2>2, <3>2
      <3>4. Space = 2^Xlen /\ 2^(a.order + 1) = 2 * p /\ 2^(a.order + 1) <= 2^Xlen
        BY <1>1, <1>2, PowDouble, PowMonotone, Widths DEF Space
      <3> QED
        BY <1>2, <3>3, <3>4
    <2> QED
      BY <1>1, <1>2, <2>1, <2>2, Widths
  <1>6. 2^m.order = 2 * p
    BY <1>1, <1>2, PowDouble
  <1>7. ASSUME m.order = Xlen PROVE m.base = 0
    <2>1. Space = 2 * p
      BY <1>6, <1>7 DEF Space
    <2> QED
      BY <1>1, <1>2, <1>3, <1>5, <2>1
  <1>8. ASSUME NEW x \in Addrs PROVE Has(m, x) <=> Has(a, x) \/ Has(b, x)
    <2>1. x \in Nat /\ x <= Space - 1
      BY Widths DEF Addrs
    <2>2. Has(a, x) <=> a.base <= x /\ x <= a.base + p - 1
      BY <1>1, <1>2 DEF Has
    <2>3. Has(b, x) <=> a.base + p <= x /\ x <= a.base + p + p - 1
      BY <1>1, <1>2, <1>5 DEF Has
    <2>4. CASE m.order < Xlen
      <3>1. Has(m, x) <=> a.base <= x /\ x <= a.base + 2 * p - 1
        BY <1>1, <1>6, <2>4 DEF Has
      <3> QED
        BY <1>1, <1>2, <2>1, <2>2, <2>3, <3>1
    <2>5. CASE m.order = Xlen
      <3>1. a.base = 0 /\ m.base = 0 /\ Space = 2 * p
        BY <1>1, <1>6, <1>7, <2>5 DEF Space
      <3>2. Has(m, x)
        BY <2>1, <2>5, <3>1, Widths DEF Has
      <3> QED
        BY <1>2, <2>1, <2>2, <2>3, <3>1, <3>2
    <2> QED
      BY <1>1, <2>4, <2>5, Widths DEF MergeOf
  <1> QED
    BY <1>1, <1>2, <1>5, <1>7, <1>8

(* No device has an address of the firmware's region; a region that ended  *)
(* up with the whole address space is no obstacle.                         *)
Others == {r \in added : r.order < Xlen} \ {FwRegion}
Overlap(r, s) == \E x \in Addrs : Has(r, x) /\ Has(s, x)
Apart == \A r \in Others : ~Overlap(r, FwRegion)

(* The root domain has the firmware's region, every region of the whole    *)
(* space it was given, and besides them regions of devices, which have the *)
(* addresses of all that were added.                                       *)
Plain(r) == r \in added /\ (r = FwRegion \/ r.order = Xlen)
Tiled(r) == r.flags = {"I"} /\ r.order < Xlen /\ ~Overlap(r, FwRegion)
Covers(rs) ==
  /\ \A p \in added : Plain(p) => \E k \in DOMAIN rs : rs[k] = p
  /\ \A k \in DOMAIN rs : Plain(rs[k]) \/ Tiled(rs[k])
  /\ \A x \in Addrs : (\E r \in Others : Has(r, x)) <=> (\E k \in DOMAIN rs : Tiled(rs[k]) /\ Has(rs[k], x))

AccessInv ==
  /\ FwRegion \in added /\ AllRegion \in added
  /\ \A r \in added \ {FwRegion, AllRegion} : r.flags = {"I"}
  /\ Apart => Covers(regs[Root])
  /\ pc = "register" /\ table = << >> => regs[Root] = <<FwRegion, AllRegion>>

(* A list with the same regions covers the same addresses.                 *)
LEMMA CoversSame ==
  ASSUME NEW rs \in Seq(Region), NEW ms \in Seq(Region), Covers(rs),
         \A k \in DOMAIN ms : \E l \in DOMAIN rs : ms[k] = rs[l],
         \A l \in DOMAIN rs : \E k \in DOMAIN ms : ms[k] = rs[l]
  PROVE  Covers(ms)
  <1>1. \A p \in added : Plain(p) => \E k \in DOMAIN ms : ms[k] = p
    BY DEF Covers
  <1>2. \A k \in DOMAIN ms : Plain(ms[k]) \/ Tiled(ms[k])
    BY DEF Covers
  <1>3. ASSUME NEW x \in Addrs
        PROVE  (\E k \in DOMAIN rs : Tiled(rs[k]) /\ Has(rs[k], x)) <=>
               (\E k \in DOMAIN ms : Tiled(ms[k]) /\ Has(ms[k], x))
    OBVIOUS
  <1> QED
    BY <1>1, <1>2, <1>3 DEF Covers

(* An added region covers what it has, ...                                 *)
LEMMA CoversAdded ==
  ASSUME NEW rs \in Seq(Region), Covers(rs), NEW t \in Region, t.flags = {"I"},
         t.order < Xlen => ~Overlap(t, FwRegion),
         NEW ms \in Seq(Region), Len(ms) = Len(rs) + 1, ms[Len(ms)] = t, \A k \in DOMAIN rs : ms[k] = rs[k],
         added' = added \cup {t}
  PROVE  Covers(ms)'
  <1>1. t # FwRegion /\ t.order \in Nat /\ t.order <= Xlen /\ Xlen \in Nat
    <2>1. t.order \in Nat /\ t.order <= Xlen /\ Xlen \in Nat
      BY Widths DEF Region
    <2>2. FwRegion.flags = {}
      BY FwAndAll
    <2> QED
      BY <2>1, <2>2
  <1>2. DOMAIN ms = 1 .. Len(rs) + 1 /\ DOMAIN rs = 1 .. Len(rs) /\ Len(rs) \in Nat /\ ms[Len(rs) + 1] = t
    OBVIOUS
  <1>3. \A k \in DOMAIN ms : k \in DOMAIN rs \/ k = Len(rs) + 1
    BY <1>2
  <1>4. t.order = Xlen \/ Tiled(t)
    BY <1>1 DEF Tiled
  <1>5. \A p \in added : Plain(p)' <=> Plain(p)
    BY DEF Plain
  <1>6. \A p \in added' : Plain(p)' => \E k \in DOMAIN ms : ms[k] = p
    BY <1>2, <1>5 DEF Covers
  <1>7. ASSUME NEW k \in DOMAIN ms PROVE Plain(ms[k])' \/ Tiled(ms[k])
    <2>1. CASE k \in DOMAIN rs
      BY <1>2, <1>5, <2>1 DEF Covers, Plain
    <2>2. CASE k = Len(rs) + 1
      BY <1>2, <1>4, <2>2 DEF Plain
    <2> QED
      BY <1>3, <2>1, <2>2
  <1>8. Others' = Others \cup (IF t.order < Xlen THEN {t} ELSE {})
    BY <1>1 DEF Others
  <1>9. ASSUME NEW x \in Addrs
        PROVE  (\E r \in Others' : Has(r, x)) <=> (\E k \in DOMAIN ms : Tiled(ms[k]) /\ Has(ms[k], x))
    <2>1. (\E k \in DOMAIN ms : Tiled(ms[k]) /\ Has(ms[k], x)) <=>
          (\E k \in DOMAIN rs : Tiled(rs[k]) /\ Has(rs[k], x)) \/ (Tiled(t) /\ Has(t, x))
      BY <1>2, <1>3
    <2>2. (\E r \in Others : Has(r, x)) <=> (\E k \in DOMAIN rs : Tiled(rs[k]) /\ Has(rs[k], x))
      BY DEF Covers
    <2>3. Tiled(t) <=> t.order < Xlen
      BY <1>1, <1>4 DEF Tiled
    <2>4. (\E r \in Others' : Has(r, x)) <=> (\E r \in Others : Has(r, x)) \/ (t.order < Xlen /\ Has(t, x))
      BY <1>8
    <2> QED
      BY <2>1, <2>2, <2>3, <2>4
  <1> QED
    BY <1>6, <1>7, <1>9 DEF Covers

(* ... and buddies are devices' both, and merge into a region that is.     *)
LEMMA CoversMerged ==
  ASSUME NEW rs \in Seq(Region), Covers(rs), NEW n \in 1 .. Len(rs) - 1,
         NEW ms \in Seq(Region), Len(ms) = Len(rs) - 1, MergeOf(ms[n], rs[n], rs[n + 1]),
         \A k \in 1 .. n - 1 : ms[k] = rs[k], \A k \in n + 1 .. Len(rs) - 1 : ms[k] = rs[k + 1]
  PROVE  Covers(ms)
  <1>1. DOMAIN ms = 1 .. Len(rs) - 1 /\ DOMAIN rs = 1 .. Len(rs) /\ Len(rs) \in Nat
    OBVIOUS
  <1>2. PICK m \in Region, a \in Region, b \in Region : m = ms[n] /\ a = rs[n] /\ b = rs[n + 1]
    BY <1>1
  <1>3. MergeOf(m, a, b)
    BY <1>2
  <1>4. /\ a # b /\ a.flags = b.flags /\ (m.order = Xlen => m.base = 0)
        /\ \A x \in Addrs : Has(m, x) <=> Has(a, x) \/ Has(b, x)
    BY <1>3, MergeHas
  <1>5. (Plain(a) \/ Tiled(a)) /\ (Plain(b) \/ Tiled(b))
    BY <1>1, <1>2 DEF Covers
  <1>6. FwRegion.flags # {"I"} /\ a.order # Xlen /\ b.order # Xlen
    BY <1>3, FwAndAll, RegionNat, Widths DEF MergeOf, Buddies
  <1>7. Tiled(a) /\ Tiled(b) /\ ~Plain(a) /\ ~Plain(b)
    BY <1>4, <1>5, <1>6 DEF Plain, Tiled
  <1>8. m.flags = {"I"} /\ ~Overlap(m, FwRegion)
    BY <1>3, <1>4, <1>7 DEF Tiled, Overlap, MergeOf
  <1>9. m.order # Xlen
    <2> SUFFICES ASSUME m.order = Xlen PROVE FALSE
      OBVIOUS
    <2>1. m.base = 0 /\ FwRegion.base \in Addrs /\ Has(FwRegion, FwRegion.base)
      BY <1>4, FwAndAll
    <2>2. PICK base \in Nat : base = FwRegion.base
      BY <2>1, Widths
    <2>3. Xlen \in Nat
      BY Widths
    <2>4. Has(m, base)
      BY <2>1, <2>3 DEF Has
    <2> QED
      BY <1>8, <2>1, <2>2, <2>4 DEF Overlap
  <1>10. Tiled(m)
    BY <1>3, <1>8, <1>9, Widths, RegionNat DEF Tiled, MergeOf
  <1>11. ASSUME NEW k \in DOMAIN ms PROVE k = n \/ \E l \in DOMAIN rs : l # n /\ l # n + 1 /\ ms[k] = rs[l]
    <2>1. CASE k < n
      BY <1>1, <2>1
    <2>2. CASE k > n
      <3>1. k + 1 \in DOMAIN rs /\ k + 1 # n /\ k + 1 # n + 1 /\ k \in n + 1 .. Len(rs) - 1
        BY <1>1, <2>2
      <3>2. ms[k] = rs[k + 1]
        BY <3>1
      <3> QED
        BY <3>1, <3>2
    <2> QED
      BY <1>1, <2>1, <2>2
  <1>12. ASSUME NEW l \in DOMAIN rs, l # n, l # n + 1 PROVE \E k \in DOMAIN ms : k # n /\ ms[k] = rs[l]
    <2>1. CASE l < n
      BY <1>1, <2>1
    <2>2. CASE l > n + 1
      <3>1. PICK k \in Nat : l = k + 1
        <4>1. l - 1 \in Nat /\ l = (l - 1) + 1
          BY <1>1, <2>2
        <4> QED
          BY <4>1
      <3>2. k \in DOMAIN ms /\ k # n /\ k \in n + 1 .. Len(rs) - 1
        BY <1>1, <2>2, <3>1
      <3> QED
        BY <3>1, <3>2
    <2> QED
      BY <1>1, <1>12, <2>1, <2>2
  <1>13. \A p \in added : Plain(p) => \E k \in DOMAIN ms : ms[k] = p
    <2> SUFFICES ASSUME NEW p \in added, Plain(p) PROVE \E k \in DOMAIN ms : ms[k] = p
      OBVIOUS
    <2>1. PICK l \in DOMAIN rs : rs[l] = p
      BY DEF Covers
    <2>2. l # n /\ l # n + 1
      BY <1>2, <1>7, <2>1
    <2> QED
      BY <1>12, <2>1, <2>2
  <1>14. \A k \in DOMAIN ms : Plain(ms[k]) \/ Tiled(ms[k])
    BY <1>2, <1>10, <1>11 DEF Covers
  <1>15. ASSUME NEW x \in Addrs
         PROVE  (\E k \in DOMAIN rs : Tiled(rs[k]) /\ Has(rs[k], x)) <=>
                (\E k \in DOMAIN ms : Tiled(ms[k]) /\ Has(ms[k], x))
    <2>1. ASSUME NEW k \in DOMAIN ms, Tiled(ms[k]), Has(ms[k], x)
          PROVE  \E l \in DOMAIN rs : Tiled(rs[l]) /\ Has(rs[l], x)
      <3>1. CASE k = n
        <4>1. n \in DOMAIN rs /\ n + 1 \in DOMAIN rs
          BY <1>1
        <4>2. Has(rs[n], x) \/ Has(rs[n + 1], x)
          BY <1>2, <1>4, <2>1, <3>1
        <4>3. Tiled(rs[n]) /\ Tiled(rs[n + 1])
          BY <1>2, <1>7
        <4> QED
          BY <4>1, <4>2, <4>3
      <3>2. CASE k # n
        BY <1>11, <2>1, <3>2
      <3> QED
        BY <3>1, <3>2
    <2>2. ASSUME NEW l \in DOMAIN rs, Tiled(rs[l]), Has(rs[l], x)
          PROVE  \E k \in DOMAIN ms : Tiled(ms[k]) /\ Has(ms[k], x)
      <3>1. CASE l = n \/ l = n + 1
        <4>1. n \in DOMAIN ms
          BY <1>1
        <4> QED
          BY <1>2, <1>4, <1>10, <2>2, <3>1, <4>1
      <3>2. CASE l # n /\ l # n + 1
        BY <1>12, <2>2, <3>2
      <3> QED
        BY <3>1, <3>2
    <2> QED
      BY <2>1, <2>2
  <1> QED
    BY <1>13, <1>14, <1>15 DEF Covers

LEMMA AccessInit ==
  ASSUME Init
  PROVE  AccessInv
  <1>1. regs[Root] = <<FwRegion, AllRegion>> /\ added = {FwRegion, AllRegion}
    BY Constants DEF Init
  <1>2. Others = {}
    BY <1>1, FwAndAll, Widths DEF Others
  <1>3. FwRegion.flags # {"I"} /\ AllRegion.flags # {"I"}
    BY FwAndAll
  <1>4. Covers(<<FwRegion, AllRegion>>)
    BY <1>1, <1>2, <1>3, FwAndAll DEF Covers, Plain, Tiled
  <1> QED
    BY <1>1, <1>4 DEF AccessInv

LEMMA AccessKeeps ==
  ASSUME DomainInv, AccessInv, [Next]_vars
  PROVE  AccessInv'
  <1>1. /\ Frames /\ Root \in Doms /\ cur \in Doms
        /\ regs \in [Doms -> Seq(Region)] /\ regs' \in [Doms -> Seq(Region)]
    BY Constants, StepFrames, RegsType DEF DomainInv, TypeOK
  <1>2. PICK rs \in Seq(Region), ms \in Seq(Region) : rs = regs[Root] /\ ms = regs'[Root]
    BY <1>1
  <1>3. ASSUME pc' = "register", table' = << >> PROVE regs'[Root] = <<FwRegion, AllRegion>>
    <2>1. ~Assign
      BY <1>3 DEF Assign
    <2>2. table = << >>
      BY <1>1, <1>3, <2>1 DEF Frames
    <2>3. pc \in {"register", "sort", "assign", "hang"}
      BY <2>2 DEF DomainInv, ControlInv
    <2>4. UNCHANGED vars
      BY <1>3, <2>3, StepFlow DEF Flow, Inherited
    <2> QED
      BY <1>3, <2>4 DEF vars, AccessInv
  <1>4. CASE AddMemregion
    <2>1. PICK t \in Region : t = Tile
      BY <1>4, AddIs
    <2>2. added' = added \cup {t} /\ t.flags = {"I"}
      BY <1>4, <2>1 DEF AddMemregion, Tile, MemregionInit
    <2>3. t # FwRegion /\ t # AllRegion
      BY <2>2, FwAndAll
    <2>4. Others' = Others \cup (IF t.order < Xlen THEN {t} ELSE {})
      BY <2>2, <2>3 DEF Others
    <2>5. Len(ms) = Len(rs) + 1 /\ ms[Len(ms)] = t /\ \A k \in DOMAIN rs : ms[k] = rs[k]
      BY <1>1, <1>2, <1>4, <2>1, AddIs
    <2>6. ASSUME Apart' PROVE Covers(ms)'
      <3>1. Apart /\ (t.order < Xlen => ~Overlap(t, FwRegion))
        BY <2>4, <2>6 DEF Apart, Overlap
      <3>2. Covers(rs)
        BY <1>2, <3>1 DEF AccessInv
      <3> QED
        BY <2>2, <2>5, <3>1, <3>2, CoversAdded
    <2>7. Covers(ms)' => Covers(regs[Root])'
      BY <1>2 DEF Covers
    <2> QED
      BY <1>3, <2>2, <2>6, <2>7 DEF AccessInv
  <1>5. CASE ~AddMemregion
    <2>1. added' = added
      BY <1>1, <1>5 DEF Frames
    <2>2. Others' = Others
      BY <2>1 DEF Others
    <2>3. ASSUME Covers(rs) PROVE Covers(ms)
      <3>1. CASE ms = rs
        BY <2>3, <3>1
      <3>2. CASE SortStep /\ cur = Root
        <4>1. i \in DOMAIN rs /\ j \in DOMAIN rs
          BY <1>2, <3>2, SortStepIs
        <4>2. /\ Len(ms) = Len(rs)
              /\ \A k \in DOMAIN rs : k # i /\ k # j => ms[k] = rs[k]
              /\ \/ ms[i] = rs[i] /\ ms[j] = rs[j]
                 \/ ms[i] = rs[j] /\ ms[j] = rs[i]
          BY <1>1, <1>2, <3>2, SortStepIs
        <4>3. DOMAIN ms = DOMAIN rs
          BY <4>2
        <4>4. \A k \in DOMAIN ms : \E l \in DOMAIN rs : ms[k] = rs[l]
          BY <4>1, <4>2, <4>3
        <4>5. \A l \in DOMAIN rs : \E k \in DOMAIN ms : ms[k] = rs[l]
          BY <4>1, <4>2, <4>3
        <4> QED
          BY <2>3, <4>4, <4>5, CoversSame
      <3>3. CASE MergeStep /\ ~UNCHANGED <<regs, merged>>
        <4>1. /\ i \in 1 .. Len(rs) - 1 /\ Len(ms) = Len(rs) - 1 /\ MergeOf(ms[i], rs[i], rs[i + 1])
              /\ \A k \in 1 .. i - 1 : ms[k] = rs[k]
              /\ \A k \in i + 1 .. Len(rs) - 1 : ms[k] = rs[k + 1]
          BY <1>1, <1>2, <3>3, MergeStepIs
        <4> QED
          BY <2>3, <4>1, CoversMerged
      <3>4. SortStep /\ cur # Root => ms = rs
        BY <1>1, <1>2, SortStepIs
      <3>5. ParseDomain \/ Inherit => ms = rs
        BY <1>1, <1>2, FdtStepIs
      <3>6. UNCHANGED regs => ms = rs
        BY <1>2
      <3> QED
        BY <1>1, <1>5, <3>1, <3>2, <3>3, <3>4, <3>5, <3>6 DEF Frames
    <2>4. Apart' => Apart
      BY <2>2 DEF Apart, Overlap
    <2>5. Covers(ms) => Covers(regs[Root])'
      BY <1>2, <2>1, <2>2 DEF Covers, Tiled, Overlap, Plain
    <2>6. Apart' => Covers(regs[Root])'
      BY <1>2, <2>3, <2>4, <2>5 DEF AccessInv
    <2> QED
      BY <1>3, <2>1, <2>6 DEF AccessInv
  <1> QED
    BY <1>4, <1>5

(* The first region of the root domain's list that has x comes first in    *)
(* the order.                                                              *)
LEMMA FirstHit ==
  ASSUME NEW rs \in Seq(Region), NEW x \in Addrs, Covers(rs), AllRegion \in added,
         OrderedList(rs) \/ rs = <<FwRegion, AllRegion>>
  PROVE  \E m \in DOMAIN rs :
           /\ m = Min(Hits(rs, x, "S")) /\ Has(rs[m], x)
           /\ \A k \in DOMAIN rs : Has(rs[k], x) => rs[m].order <= rs[k].order
  <1> DEFINE hits == Hits(rs, x, "S")
  <1>1. hits \in SUBSET Nat /\ \A k \in hits : k \in DOMAIN rs /\ Has(rs[k], x)
    BY DEF Hits
  <1>2. \A k \in DOMAIN rs : Has(rs[k], x) => k \in hits
    BY DEF Hits
  <1>3. hits # {}
    <2>1. PICK k \in DOMAIN rs : rs[k] = AllRegion
      BY FwAndAll DEF Covers, Plain
    <2> QED
      BY <1>2, <2>1, FwAndAll, Widths DEF Has
  <1> HIDE DEF hits
  <1>4. PICK m \in hits : m = Min(hits) /\ \A k \in hits : m <= k
    BY <1>1, <1>3, MinIn
  <1>5. ASSUME NEW k \in DOMAIN rs, Has(rs[k], x) PROVE rs[m].order <= rs[k].order
    <2>1. PICK a \in Region, b \in Region : a = rs[m] /\ b = rs[k]
      BY <1>1, <1>4
    <2>2. m <= k /\ m \in DOMAIN rs /\ m \in Nat /\ k \in Nat
      BY <1>1, <1>2, <1>4, <1>5
    <2>3. CASE OrderedList(rs)
      <3>1. m = k \/ Ordered(a, b)
        BY <2>1, <2>2, <2>3 DEF OrderedList
      <3> QED
        BY <2>1, <3>1, RegionNat DEF Ordered, Before
    <2>4. CASE rs = <<FwRegion, AllRegion>>
      <3>1. m = k \/ b = AllRegion
        BY <2>1, <2>2, <2>4
      <3>2. a.order <= Xlen
        BY Widths DEF Region
      <3> QED
        BY <2>1, <3>1, <3>2, FwAndAll, RegionNat
    <2> QED
      BY <2>3, <2>4
  <1> QED
    BY <1>1, <1>4, <1>5 DEF hits

(* Merging changes no access: as long as no device has an address of the   *)
(* firmware's region, the root domain decides about an address like the    *)
(* smallest of the regions it was given, for every set of devices.         *)
THEOREM MergeKeepsAccessHolds == Spec => [](Apart => MergeKeepsAccess)
  <1>1. ASSUME DomainInv, AccessInv, Apart, Settled(Root), NEW x \in Addrs
        PROVE  LET given == {r \in added : Has(r, x)}
               IN  \E r \in given :
                     /\ \A g \in given : r.order <= g.order
                     /\ r.flags = regs[Root][Min(Hits(regs[Root], x, "S"))].flags
    <2>1. PICK rs \in Seq(Region) : rs = regs[Root]
      BY <1>1, Constants DEF DomainInv, TypeOK
    <2>2. Covers(rs)
      BY <1>1, <2>1 DEF AccessInv
    <2>3. OrderedList(rs) \/ rs = <<FwRegion, AllRegion>>
      <3>1. CASE table # << >>
        <4>1. Root < Len(table) /\ Root \in Doms
          BY <1>1, <3>1, Constants DEF DomainInv, TypeOK, Root
        <4> QED
          BY <1>1, <2>1, <4>1 DEF DomainInv, ListInv
      <3>2. CASE table = << >>
        <4>1. pc \in {"register", "assign"} /\ cur = Root
          BY <1>1, <3>2 DEF DomainInv, ControlInv, Settled
        <4> QED
          BY <1>1, <2>1, <3>2, <4>1 DEF DomainInv, ListInv, AccessInv
      <3> QED
        BY <3>1, <3>2
    <2>4. PICK m \in DOMAIN rs :
           /\ m = Min(Hits(rs, x, "S")) /\ Has(rs[m], x)
           /\ \A k \in DOMAIN rs : Has(rs[k], x) => rs[m].order <= rs[k].order
      BY <1>1, <2>2, <2>3, FirstHit DEF AccessInv
    <2>5. PICK f \in Region : f = rs[m]
      OBVIOUS
    <2> DEFINE given == {r \in added : Has(r, x)}
    <2>6. AllRegion \in given /\ added \in SUBSET Region
      BY <1>1, FwAndAll, Widths DEF AccessInv, DomainInv, TypeOK, Has
    <2>7. \A g \in given : g.order \in Nat /\ g.order <= Xlen /\ Xlen \in Nat
      BY <2>6, Widths, RegionNat DEF Region
    <2>8. \A g \in given : Plain(g) \/ g \in Others
      BY <2>7 DEF Others, Plain
    <2>9. CASE Tiled(f)
      <3>1. PICK r \in Others : Has(r, x)
        BY <2>2, <2>4, <2>5, <2>9 DEF Covers
      <3>2. ~Has(FwRegion, x) /\ r \in given
        BY <1>1, <3>1 DEF Apart, Overlap, Others
      <3>3. r.order < Xlen
        BY <3>1 DEF Others
      <3> DEFINE S == {g.order : g \in given}
      <3>4. S \in SUBSET Nat /\ S # {}
        BY <2>6, <2>7
      <3>5. PICK o \in S : \A y \in S : o <= y
        BY <3>4, LeastOf
      <3>6. PICK g \in given : g.order = o
        OBVIOUS
      <3>7. \A y \in given : g.order <= y.order
        BY <3>5, <3>6
      <3>8. g.order < Xlen
        BY <2>7, <3>2, <3>3, <3>7
      <3>9. g \in Others
        BY <3>2, <3>8 DEF Others
      <3>10. g.flags = f.flags
        BY <1>1, <2>9, <3>8, <3>9, FwAndAll, Widths DEF AccessInv, Tiled, Others
      <3> QED
        BY <2>1, <2>4, <2>5, <3>7, <3>10
    <2>10. CASE ~Tiled(f)
      <3>1. Plain(f)
        BY <2>2, <2>5, <2>10 DEF Covers
      <3>2. ASSUME NEW r \in Others PROVE ~Has(r, x)
        <4> SUFFICES ASSUME Has(r, x) PROVE FALSE
          OBVIOUS
        <4>1. PICK k \in DOMAIN rs : Tiled(rs[k]) /\ Has(rs[k], x)
          BY <2>2, <3>2 DEF Covers
        <4>2. rs[m].order <= rs[k].order /\ rs[k].order < Xlen /\ rs[k] \in Region
          BY <2>4, <4>1 DEF Tiled
        <4>3. f.order # Xlen
          BY <2>5, <4>2, RegionNat, Widths
        <4>4. f = FwRegion
          BY <3>1, <4>3 DEF Plain
        <4> QED
          BY <2>4, <2>5, <4>1, <4>4 DEF Tiled, Overlap
      <3>3. f \in given
        BY <2>4, <2>5, <3>1 DEF Plain
      <3>4. ASSUME NEW g \in given PROVE f.order <= g.order
        <4>1. Plain(g)
          BY <2>8, <3>2
        <4>2. \E k \in DOMAIN rs : rs[k] = g
          BY <2>2, <4>1 DEF Covers
        <4> QED
          BY <2>4, <2>5, <4>2
      <3> QED
        BY <2>1, <2>4, <2>5, <3>3, <3>4
    <2> QED
      BY <2>9, <2>10
  <1>2. DomainInv /\ AccessInv => (Apart => MergeKeepsAccess)
    BY <1>1 DEF MergeKeepsAccess
  <1>3. Init => AccessInv
    BY AccessInit
  <1>4. DomainInv /\ AccessInv /\ [Next]_vars => AccessInv'
    BY AccessKeeps
  <1>5. Spec => []AccessInv
    BY <1>3, <1>4, DomainInvHolds, PTL DEF Spec
  <1> QED
    BY <1>2, <1>5, DomainInvHolds, PTL

(* A region of the first order whose aligned block holds the range.        *)
LEMMA InitHolds ==
  ASSUME NEW addr \in Addrs, NEW size \in Nat \ {0}, NEW flags \in SUBSET Flags, addr + size <= Space,
         NEW o \in 0 .. Xlen - 1, size <= 2^o, addr % 2^o = 0, addr + 2^o < Space
  PROVE  /\ MemregionInit(addr, size, flags).order < Xlen
         /\ \A x \in addr .. addr + size - 1 : Has(MemregionInit(addr, size, flags), x)
  <1>1. addr \in Nat /\ Space \in Nat \ {0} /\ Xlen \in Nat \ {0} /\ o \in Nat
    BY Widths
  <1>2. PICK p \in Nat \ {0} : p = 2^o
    BY <1>1, PowPositive
  <1>3. Block(addr, o) = addr
    <2>1. PICK q \in Nat, r \in 0 .. p - 1 : q = addr \div p /\ r = addr % p /\ q * p + r = addr
      BY <1>1, DivMod
    <2>2. r = 0 /\ q * p = addr
      BY <1>2, <2>1
    <2> QED
      BY <1>2, <2>1, <2>2 DEF Block
  <1>4. Wrap(addr + p) = addr + p /\ Wrap(addr + size - 1) = addr + size - 1
    BY <1>1, <1>2 DEF Wrap
  <1>5. Holds(addr, size, o)
    BY <1>1, <1>2, <1>3, <1>4 DEF Holds
  <1> DEFINE S == {n \in 0 .. Xlen - 1 : size <= 2^n} \cup {Xlen}
  <1>6. S \in SUBSET Nat /\ o \in S
    BY <1>1
  <1>7. Log2RoundUp(size) = Min(S)
    BY DEF Log2RoundUp
  <1> HIDE DEF S
  <1>8. PICK l \in Nat : l = Log2RoundUp(size) /\ l <= o
    BY <1>6, <1>7, MinIn
  <1> DEFINE T == {m \in l .. Xlen - 1 : Holds(addr, size, m)} \cup {Xlen}
  <1>9. T \in SUBSET Nat /\ o \in T
    BY <1>1, <1>5, <1>8
  <1>10. \A m \in T : m = Xlen \/ Holds(addr, size, m)
    OBVIOUS
  <1>11. MemregionInit(addr, size, flags) =
          [base |-> IF Min(T) < Xlen THEN Block(addr, Min(T)) ELSE 0, order |-> Min(T), flags |-> flags]
    BY <1>8 DEF MemregionInit
  <1> HIDE DEF T
  <1>12. PICK m \in T : m = Min(T) /\ m <= o
    BY <1>9, MinIn
  <1>13. m \in Nat /\ m < Xlen /\ Holds(addr, size, m)
    BY <1>1, <1>9, <1>12, <1>10
  <1>14. PICK bs \in Nat, p2 \in Nat \ {0} : bs = Block(addr, m) /\ p2 = 2^m
    BY <1>13, Blocks, Widths, PowPositive
  <1>15. bs <= addr /\ addr + size - 1 < Wrap(bs + p2)
    BY <1>4, <1>13, <1>14 DEF Holds
  <1>16. Wrap(bs + p2) <= bs + p2 /\ Wrap(bs + p2) \in Nat
    BY <1>1 DEF Wrap
  <1>17. MemregionInit(addr, size, flags) = [base |-> bs, order |-> m, flags |-> flags]
    BY <1>12, <1>13, <1>14, <1>11
  <1>18. ASSUME NEW x \in addr .. addr + size - 1 PROVE bs <= x /\ x <= bs + p2 - 1
    BY <1>1, <1>15, <1>16
  <1> QED
    BY <1>13, <1>14, <1>17, <1>18 DEF Has

(* A tile that does not reach the last one has the addresses it stands for. *)
LEMMA TileHas ==
  ASSUME NEW pos \in Nat, NEW left \in Nat \ {0}, pos + left <= Space, pos + TileMax < Space
  PROVE  \E size \in Nat \ {0}, t \in Region :
           /\ size = TileSize(pos, left) /\ t = MemregionInit(pos, size, {"I"})
           /\ t.order < Xlen /\ \A x \in pos .. pos + size - 1 : Has(t, x)
  <1>1. Space \in Nat \ {0} /\ Xlen \in Nat \ {0} /\ MinOrder \in Nat
    BY Widths
  <1>2. PICK n \in MinOrder .. Xlen - 1 : TileMax = 2^n
    BY DomainAssumption
  <1>3. n \in 0 .. Xlen - 1 /\ n \in Nat
    BY <1>1
  <1>4. PICK p \in Nat \ {0} : p = 2^n /\ p = TileMax
    BY <1>2, <1>3, PowPositive
  <1>5. pos \in Addrs /\ {"I"} \in SUBSET Flags
    BY <1>1, <1>4 DEF Addrs, Flags
  <1>6. CASE pos % TileMax # 0
    <2> DEFINE S == {2^k : k \in {m \in 0 .. Xlen - 1 : pos % 2^m = 0}}
    <2>1. S \in SUBSET (0 .. Space)
      BY Widths, PowPositive, PowMonotone DEF Space
    <2>2. S # {}
      <3>1. 2^0 = 1
        OBVIOUS
      <3>2. pos % 2^0 = 0
        BY <3>1
      <3>3. 0 \in {m \in 0 .. Xlen - 1 : pos % 2^m = 0}
        BY <1>1, <3>2
      <3> QED
        BY <3>3
    <2>3. Low(pos) \in S
      BY <1>1, <2>1, <2>2, MaxIn DEF Low
    <2>4. PICK m \in 0 .. Xlen - 1 : Low(pos) = 2^m /\ pos % 2^m = 0
      BY <2>3
    <2>5. PICK q \in Nat \ {0} : q = 2^m
      BY <2>4, PowPositive
    <2>6. m < n
      <3> SUFFICES ASSUME n <= m PROVE FALSE
        BY <1>3
      <3>1. PICK f \in Nat \ {0} : q = f * p
        BY <1>3, <1>4, <2>4, <2>5, PowDivides
      <3>2. PICK g \in Nat, r \in 0 .. q - 1 : r = pos % q /\ g * q + r = pos
        BY DivMod
      <3>3. r = 0 /\ pos = g * (f * p)
        <4>1. r = 0
          BY <2>4, <2>5, <3>2
        <4>2. g * q = pos
          BY <3>2, <4>1
        <4> QED
          BY <3>1, <4>1, <4>2
      <3>4. PICK k \in Nat : k = g * f
        OBVIOUS
      <3>5. pos = k * p + 0
        <4>1. g * (f * p) = (g * f) * p
          OBVIOUS
        <4>2. pos = k * p
          BY <3>3, <3>4, <4>1
        <4> QED
          BY <4>2
      <3>6. pos % p = 0
        <4>1. 0 \in 0 .. p - 1
          OBVIOUS
        <4>2. (k * p + 0) % p = 0
          BY <4>1, DivUnique
        <4> QED
          BY <3>5, <4>2
      <3> QED
        BY <1>4, <1>6, <3>6
    <2>7. q <= p
      BY <1>3, <1>4, <2>4, <2>5, <2>6, PowMonotone
    <2>8. TileSize(pos, left) = q
      BY <1>6, <2>4, <2>5 DEF TileSize
    <2>9. pos + q <= Space /\ pos + q < Space
      BY <1>1, <1>4, <2>7
    <2>10. /\ MemregionInit(pos, q, {"I"}).order < Xlen
           /\ \A x \in pos .. pos + q - 1 : Has(MemregionInit(pos, q, {"I"}), x)
      BY <1>5, <2>4, <2>5, <2>9, InitHolds
    <2>11. MemregionInit(pos, q, {"I"}) \in Region
      BY <1>5, Inits
    <2> QED
      BY <2>8, <2>10, <2>11
  <1>7. CASE pos % TileMax = 0
    <2>1. PICK size \in Nat \ {0} : size = TileSize(pos, left) /\ size <= p /\ size <= left
      <3>1. TileSize(pos, left) = IF left < p THEN left ELSE p
        BY <1>4, <1>7 DEF TileSize
      <3> QED
        BY <3>1
    <2>2. pos + size <= Space
      BY <1>1, <2>1
    <2>3. /\ MemregionInit(pos, size, {"I"}).order < Xlen
          /\ \A x \in pos .. pos + size - 1 : Has(MemregionInit(pos, size, {"I"}), x)
      BY <1>3, <1>4, <1>5, <1>7, <2>1, <2>2, InitHolds
    <2>4. MemregionInit(pos, size, {"I"}) \in Region
      BY <1>5, Inits
    <2> QED
      BY <2>1, <2>3, <2>4
  <1> QED
    BY <1>6, <1>7

(* Devices come before the domains of the device tree, one at a time.      *)
LateInv ==
  /\ table = << >> => tiles[2] = 0
  /\ Settled(Root) /\ pc # "tile" => tiles[2] = 0
  /\ pc \in {"idle", "tile", "sanitize", "merge"} \/ (pc = "sort" /\ cur = Root) => Len(table) <= 1

(* Every step keeps the devices before the device tree.                    *)
LEMMA LateKeeps ==
  ASSUME DomainInv, LateInv, [Next]_vars
  PROVE  LateInv'
  <1>1. ControlInv /\ table \in Seq(Doms) /\ cur \in Doms /\ Len(table) \in Nat /\ Root = 0
    BY DEF DomainInv, TypeOK, Root
  <1>2. /\ table = << >> => tiles[2] = 0
        /\ pc \notin {"sanitize", "merge", "hang", "tile"} /\ ~(pc = "sort" /\ cur = Root) => tiles[2] = 0
        /\ pc \in {"idle", "tile", "sanitize", "merge"} \/ (pc = "sort" /\ cur = Root) => Len(table) <= 1
        /\ pc = "register" /\ cur = Root => table = << >>
        /\ pc = "idle" => table # << >>
    BY <1>1 DEF LateInv, Settled, ControlInv
  <1> SUFFICES /\ table' = << >> => tiles'[2] = 0
               /\ pc' \notin {"sanitize", "merge", "hang", "tile"} /\ ~(pc' = "sort" /\ cur' = Root) => tiles'[2] = 0
               /\ pc' \in {"idle", "tile", "sanitize", "merge"} \/ (pc' = "sort" /\ cur' = Root) => Len(table') <= 1
    BY DEF LateInv, Settled
  <1> DEFINE G == /\ table' = << >> => tiles'[2] = 0
                  /\ pc' \notin {"sanitize", "merge", "hang", "tile"} /\ ~(pc' = "sort" /\ cur' = Root) => tiles'[2] = 0
                  /\ pc' \in {"idle", "tile", "sanitize", "merge"} \/ (pc' = "sort" /\ cur' = Root) => Len(table') <= 1
  <1> USE DEF domVars, loopVars, devVars, Hang
  <1>4. CASE Assign
    <2>1. table' = Append(table, cur) /\ cur = Len(table) /\ Len(table') = Len(table) + 1 /\ table' # << >>
      BY <1>1, <1>4, AssignIs
    <2>2. UNCHANGED tiles /\ pc' = (IF cur = Root THEN "idle" ELSE "populate") /\ tiles[2] = 0
      <3>1. pc = "assign" /\ UNCHANGED tiles /\ pc' = IF cur = Root THEN "idle" ELSE "populate"
        BY <1>4 DEF Assign
      <3> QED
        BY <1>2, <3>1
    <2> QED
      BY <1>1, <2>1, <2>2
  <1>5. CASE Register
    BY <1>1, <1>2, <1>5 DEF Register, SortFrom, Hang
  <1>6. CASE SortStep
    BY <1>1, <1>2, <1>6 DEF SortStep, Advance
  <1>7. CASE SortConflict
    BY <1>1, <1>2, <1>7 DEF SortConflict, Hang
  <1>8. CASE SortDone
    BY <1>1, <1>2, <1>8 DEF SortDone
  <1>9. CASE AddRefused
    BY <1>1, <1>2, <1>9 DEF AddRefused, Hang
  <1>10. CASE AddMemregion
    BY <1>1, <1>2, <1>10 DEF AddMemregion
  <1>11. CASE Sanitize
    BY <1>1, <1>2, <1>11 DEF Sanitize, SortFrom, Hang
  <1>12. CASE DeviceDone
    BY <1>1, <1>2, <1>12 DEF DeviceDone
  <1>13. CASE MergeStep
    BY <1>1, <1>2, <1>13 DEF MergeStep
  <1>14. CASE MergeDone
    BY <1>1, <1>2, <1>14 DEF MergeDone
  <1>15. CASE Finalize
    BY <1>1, <1>2, <1>15 DEF Finalize
  <1>16. CASE ParseDomain
    BY <1>1, <1>2, <1>16 DEF ParseDomain, Hang
  <1>17. CASE Inherit
    BY <1>1, <1>2, <1>17 DEF Inherit, Hang
  <1>18. CASE Inherited
    BY <1>1, <1>2, <1>18 DEF Inherited, Hang
  <1>19. CASE Populated
    BY <1>1, <1>2, <1>19 DEF Populated
  <1>20. CASE StartDomain
    BY <1>1, <1>2, <1>20 DEF StartDomain
  <1>21. CASE StartFails
    BY <1>1, <1>2, <1>21 DEF StartFails, Hang
  <1>22. CASE StartDone
    BY <1>1, <1>2, <1>22 DEF StartDone
  <1>23. ASSUME NEW range \in Ranges, Device(range) PROVE G
    BY <1>2, <1>23 DEF Device
  <1>24. ASSUME NEW h \in Harts, PmpConfigure(h) PROVE G
    BY <1>2, <1>24 DEF PmpConfigure
  <1>25. CASE UNCHANGED vars
    BY <1>2, <1>25 DEF vars
  <1> QED
    BY <1>4, <1>5, <1>6, <1>7, <1>8, <1>9, <1>10, <1>11, <1>12, <1>13, <1>14, <1>15, <1>16, <1>17, <1>18, <1>19, <1>20, <1>21, <1>22, <1>23, <1>24, <1>25 DEF Next, Step

(* What a driver has asked for so far is in a region of the root domain's  *)
(* or is yet to be cut into tiles.                                         *)
ReachInv ==
  \A range \in Ranges : Guarded(range) =>
    \A x \in range[1] .. range[1] + range[2] - 1 :
      (\E r \in Others : Has(r, x)) \/ (tiles[1] <= x /\ x < tiles[1] + tiles[2])

(* Ranges are within the address space.                                    *)
LEMMA RangeNat ==
  ASSUME NEW range \in Ranges
  PROVE  /\ range[1] \in Nat /\ range[2] \in Nat /\ range[1] + range[2] <= Space
         /\ TileMax \in Nat /\ Space \in Nat
  <1>1. range \in Addrs \X Addrs /\ range[1] + range[2] <= Space
    BY DomainAssumption
  <1>2. range[1] \in Addrs /\ range[2] \in Addrs
    BY <1>1
  <1>3. PICK n \in MinOrder .. Xlen - 1 : TileMax = 2^n
    BY DomainAssumption
  <1>4. TileMax \in Nat
    BY <1>3, Widths, PowPositive
  <1> QED
    BY <1>1, <1>2, <1>4, Widths

(* A tile has what it takes away from the rest of the range.               *)
LEMMA ReachKeeps ==
  ASSUME DomainInv, LateInv, ReachInv, [Next]_vars
  PROVE  ReachInv'
  <1> SUFFICES ASSUME NEW range \in Ranges, Guarded(range)', NEW x \in range[1] .. range[1] + range[2] - 1
               PROVE  (\E r \in Others' : Has(r, x)) \/ (tiles'[1] <= x /\ x < tiles'[1] + tiles'[2])
    BY DEF ReachInv
  <1>1. Frames /\ tiles \in Nat \X Nat /\ x \in Nat /\ range[1] <= x /\ x < range[1] + range[2]
    BY StepFrames, RangeNat DEF DomainInv, InputInv
  <1>2. range \notin devices' /\ range[1] + range[2] <= Space - TileMax
    BY DEF Guarded
  <1>3. ASSUME range \notin devices
        PROVE  (\E r \in Others : Has(r, x)) \/ (tiles[1] <= x /\ x < tiles[1] + tiles[2])
    <2>1. Guarded(range)
      BY <1>2, <1>3 DEF Guarded
    <2> QED
      BY <2>1 DEF ReachInv
  <1>4. ASSUME NEW rg \in Ranges, Device(rg)
        PROVE  (\E r \in Others' : Has(r, x)) \/ (tiles'[1] <= x /\ x < tiles'[1] + tiles'[2])
    <2>1. /\ pc = "idle" /\ devices' = devices \ {rg} /\ tiles' = rg /\ UNCHANGED added
      BY <1>4 DEF Device
    <2>2. CASE rg = range
      BY <1>1, <2>1, <2>2
    <2>3. CASE rg # range
      <3>1. tiles[2] = 0
        BY <2>1 DEF LateInv, Settled
      <3>2. PICK r \in Others : Has(r, x)
        BY <1>1, <1>2, <1>3, <2>1, <2>3, <3>1
      <3>3. r \in Others'
        BY <2>1 DEF Others
      <3> QED
        BY <3>2, <3>3
    <2> QED
      BY <2>2, <2>3
  <1>5. ASSUME AddMemregion, ~\E rg \in Ranges : Device(rg)
        PROVE  (\E r \in Others' : Has(r, x)) \/ (tiles'[1] <= x /\ x < tiles'[1] + tiles'[2])
    <2>1. range \notin devices
      BY <1>1, <1>2, <1>5 DEF Frames
    <2>2. added' = added \cup {Tile}
      BY <1>5 DEF AddMemregion
    <2>3. CASE \E r \in Others : Has(r, x)
      <3>1. PICK r \in Others : Has(r, x)
        BY <2>3
      <3>2. r \in Others'
        BY <2>2 DEF Others
      <3> QED
        BY <3>1, <3>2
    <2>4. CASE tiles[1] <= x /\ x < tiles[1] + tiles[2]
      <3>1. PICK pos \in Nat, left \in Nat \ {0} : pos = tiles[1] /\ left = tiles[2]
        BY <1>1, <1>5 DEF AddMemregion
      <3>2. pos + left <= Space
        BY <3>1 DEF DomainInv, InputInv
      <3>3. pos + TileMax < Space
        BY <1>1, <1>2, <2>4, <3>1, RangeNat
      <3>4. PICK size \in Nat \ {0}, t \in Region :
              /\ size = TileSize(pos, left) /\ t = MemregionInit(pos, size, {"I"})
              /\ t.order < Xlen /\ \A y \in pos .. pos + size - 1 : Has(t, y)
        BY <3>2, <3>3, TileHas
      <3>5. t = Tile /\ t.flags = {"I"}
        BY <3>1, <3>4 DEF Tile, MemregionInit
      <3>6. tiles' = <<pos + size, IF size < left THEN left - size ELSE 0>>
        BY <1>5, <3>1, <3>4 DEF AddMemregion
      <3>7. t \in Others'
        <4>1. FwRegion.flags = {}
          BY FwAndAll
        <4>2. t # FwRegion
          BY <3>5, <4>1
        <4> QED
          BY <2>2, <3>4, <3>5, <4>2 DEF Others
      <3>8. CASE x < pos + size
        <4>1. x \in pos .. pos + size - 1
          BY <1>1, <2>4, <3>1, <3>8
        <4> QED
          BY <3>4, <3>7, <4>1
      <3>9. CASE ~(x < pos + size)
        <4>1. size < left /\ pos + size <= x /\ x < pos + size + (left - size)
          BY <1>1, <2>4, <3>1, <3>9
        <4> QED
          BY <3>6, <4>1
      <3> QED
        BY <3>8, <3>9
    <2> QED
      BY <1>3, <2>1, <2>3, <2>4
  <1>6. ASSUME ~AddMemregion, ~\E rg \in Ranges : Device(rg)
        PROVE  (\E r \in Others' : Has(r, x)) \/ (tiles'[1] <= x /\ x < tiles'[1] + tiles'[2])
    <2>1. UNCHANGED <<added, tiles, devices>>
      BY <1>1, <1>6 DEF Frames
    <2>2. Others' = Others
      BY <2>1 DEF Others
    <2> QED
      BY <1>2, <1>3, <2>1, <2>2
  <1> QED
    BY <1>4, <1>5, <1>6

(* The regions of registered domains are aligned blocks.                   *)
Proper(rs) == \A k \in DOMAIN rs : Valid(rs[k])
ValidInv ==
  /\ \A d \in Doms : d < Len(table) /\ Settled(d) => Proper(regs[d])
  /\ pc \in {"assign", "merge"} => Proper(regs[cur])

(* The sort refuses a region that is not an aligned block, and buddies     *)
(* merge into one.                                                         *)
LEMMA ValidKeeps ==
  ASSUME DomainInv, ValidInv, [Next]_vars
  PROVE  ValidInv'
  <1>1. /\ Len(table) \in Nat /\ Doms \subseteq Nat /\ Root \in Doms /\ Root = 0
        /\ regs \in [Doms -> Seq(Region)] /\ cur \in Doms
    BY Constants DEF DomainInv, TypeOK, Root
  <1>2. ASSUME NEW d \in Doms, d < Len(table), Settled(d)' PROVE Proper(regs[d])'
    <2>1. CASE d # Root
      <3>1. regs'[d] = regs[d] /\ Settled(d)
        BY <1>2, <2>1, RegisteredStay DEF Settled
      <3> QED
        BY <1>2, <3>1 DEF ValidInv, Proper
    <2>2. CASE d = Root
      <3>1. table # << >>
        BY <1>1, <1>2
      <3>2. regs'[Root] = regs[Root] /\ (Settled(Root) \/ MergeDone)
        BY <1>2, <2>2, <3>1, RootSettles
      <3>3. MergeDone => pc = "merge" /\ cur = Root
        BY DEF MergeDone, DomainInv, ControlInv
      <3>4. Proper(regs[Root])
        BY <1>2, <2>2, <3>2, <3>3 DEF ValidInv
      <3> QED
        BY <2>2, <3>2, <3>4 DEF Proper
    <2> QED
      BY <2>1, <2>2
  <1>3. ASSUME NEW d \in Doms, d < Len(table'), ~(d < Len(table)) PROVE Proper(regs[d])'
    <2>1. Assign
      BY <1>3, StepFrames DEF Frames
    <2>2. table' = Append(table, cur) /\ cur = Len(table)
      BY <2>1, AssignIs
    <2>3. d = cur
      BY <1>1, <1>3, <2>2 DEF DomainInv, TypeOK
    <2>4. Proper(regs[d]) /\ UNCHANGED regs
      BY <2>1, <2>3 DEF ValidInv, Assign
    <2> QED
      BY <2>4 DEF Proper
  <1>4. ASSUME pc' \in {"assign", "merge"} PROVE Proper(regs[cur])'
    <2>1. CASE SortDone
      BY <2>1, SortDoneIs DEF Proper
    <2>2. CASE UNCHANGED vars
      BY <1>4, <2>2 DEF vars, ValidInv, Proper
    <2>3. CASE MergeStep
      <3>1. pc = "merge" /\ cur = Root /\ cur' = cur
        BY <2>3 DEF MergeStep, DomainInv, ControlInv
      <3>2. PICK rs \in Seq(Region) : rs = regs[Root] /\ Proper(rs)
        BY <1>1, <3>1 DEF ValidInv
      <3>3. CASE UNCHANGED regs
        BY <3>1, <3>2, <3>3
      <3>4. CASE ~UNCHANGED regs
        <4>1. i \in 1 .. Len(rs) - 1
          BY <2>3, <3>2, <3>4, MergeStepIs
        <4>2. PICK ms \in Seq(Region) :
                /\ regs' = [regs EXCEPT ![Root] = ms] /\ Len(ms) = Len(rs) - 1
                /\ \A k \in 1 .. i - 1 : ms[k] = rs[k]
                /\ MergeOf(ms[i], rs[i], rs[i + 1])
                /\ \A k \in i + 1 .. Len(rs) - 1 : ms[k] = rs[k + 1]
          BY <2>3, <3>2, <3>4, MergeStepIs
        <4>3. Valid(ms[i])
          <5>1. PICK m \in Region, a \in Region : m = ms[i] /\ a = rs[i]
            BY <4>1, <4>2
          <5>2. MergeOf(m, a, rs[i + 1])
            BY <4>2, <5>1
          <5>3. MinOrder <= a.order /\ a.order \in Nat /\ MinOrder \in Nat /\ m.order = a.order + 1 /\ m.order <= Xlen
            BY <5>2, RegionNat, Widths DEF MergeOf, Valid
          <5>4. m.base % Bit(m.order) = 0
            BY <5>2 DEF MergeOf, Buddies
          <5> QED
            BY <5>1, <5>3, <5>4 DEF Valid
        <4>4. ASSUME NEW k \in DOMAIN ms PROVE Valid(ms[k])
          <5>1. k \in 1 .. Len(rs) - 1 /\ DOMAIN rs = 1 .. Len(rs)
            BY <4>2
          <5>2. CASE k < i
            BY <3>2, <4>1, <4>2, <5>1, <5>2 DEF Proper
          <5>3. CASE k > i
            <6>1. k \in i + 1 .. Len(rs) - 1 /\ k + 1 \in DOMAIN rs
              BY <4>1, <5>1, <5>3
            <6> QED
              BY <3>2, <4>2, <6>1 DEF Proper
          <5> QED
            BY <4>1, <4>3, <5>1, <5>2, <5>3
        <4>5. regs'[cur'] = ms
          BY <1>1, <3>1, <4>2
        <4> QED
          BY <4>4, <4>5 DEF Proper
      <3> QED
        BY <3>3, <3>4
    <2> QED
      BY <1>4, <2>1, <2>2, <2>3, StepFlow DEF Flow
  <1> QED
    BY <1>2, <1>3, <1>4 DEF ValidInv

(* The domains of the device tree have the closed regions of the root      *)
(* domain, those before the m-th already.                                  *)
Kept(d, m) ==
  \A l \in DOMAIN regs[Root] : l < m /\ Secret(regs[Root][l]) =>
    \E k \in DOMAIN regs[d] : regs[d][k] = regs[Root][l]
InheritInv ==
  /\ \A d \in Doms \ {Root} :
       d < Len(table) \/ (d = cur /\ pc \in {"register", "sort", "assign"}) => Kept(d, Len(regs[Root]) + 1)
  /\ pc = "inherit" => Kept(cur, i)

(* The root domain's list is final when the device tree is read.           *)
LEMMA RootStays ==
  ASSUME DomainInv, LateInv, [Next]_vars,
         Len(table) > 1 \/ pc = "inherit" \/ (pc \in {"register", "sort", "assign"} /\ cur # Root)
  PROVE  regs'[Root] = regs[Root]
  <1>1. Frames /\ Root \in Doms /\ regs \in [Doms -> Seq(Region)] /\ Len(table) \in Nat /\ cur \in Doms
    BY StepFrames, Constants DEF DomainInv, TypeOK
  <1>2. ~AddMemregion
    BY <1>1 DEF AddMemregion, LateInv
  <1>3. ~MergeStep
    BY <1>1 DEF MergeStep, LateInv
  <1>4. SortStep => cur # Root
    BY <1>1 DEF SortStep, LateInv
  <1>5. SortStep => regs'[Root] = regs[Root]
    BY <1>1, <1>4, SortStepIs
  <1>6. ParseDomain \/ Inherit => regs'[Root] = regs[Root]
    BY <1>1, FdtStepIs
  <1> QED
    BY <1>1, <1>2, <1>3, <1>5, <1>6 DEF Frames

(* The sort of a domain loses none of the regions it inherited.            *)
LEMMA InheritKeeps ==
  ASSUME DomainInv, LateInv, InheritInv, [Next]_vars
  PROVE  InheritInv'
  <1>1. /\ Len(table) \in Nat /\ Doms \subseteq Nat /\ Root \in Doms /\ Root = 0 /\ table \in Seq(Doms)
        /\ regs \in [Doms -> Seq(Region)] /\ cur \in Doms /\ Frames /\ ControlInv /\ i \in Nat
    BY Constants, StepFrames DEF DomainInv, TypeOK, Root
  <1>2. ASSUME NEW d \in Doms \ {Root}, d < Len(table) PROVE Kept(d, Len(regs[Root]) + 1)'
    <2>1. regs'[d] = regs[d]
      BY <1>2, RegisteredStay
    <2>2. Len(table) > 1
      BY <1>1, <1>2
    <2>3. regs'[Root] = regs[Root]
      BY <2>2, RootStays
    <2>4. Kept(d, Len(regs[Root]) + 1)
      BY <1>2 DEF InheritInv
    <2> QED
      BY <2>1, <2>3, <2>4 DEF Kept
  <1>3. ASSUME NEW d \in Doms \ {Root}, d < Len(table'), ~(d < Len(table)) PROVE Kept(d, Len(regs[Root]) + 1)'
    <2>1. Assign
      BY <1>1, <1>3 DEF Frames
    <2>2. table' = Append(table, cur) /\ cur = Len(table)
      BY <2>1, AssignIs
    <2>3. d = cur
      BY <1>1, <1>3, <2>2
    <2>4. Kept(d, Len(regs[Root]) + 1) /\ UNCHANGED regs
      BY <2>1, <2>3 DEF InheritInv, Assign
    <2> QED
      BY <2>4 DEF Kept
  <1>4. ASSUME NEW d \in Doms \ {Root}, d = cur', pc' \in {"register", "sort", "assign"}
        PROVE  Kept(d, Len(regs[Root]) + 1)'
    <2>1. CASE UNCHANGED vars
      BY <1>4, <2>1 DEF vars, InheritInv, Kept
    <2>2. CASE Inherited
      <3>1. pc = "inherit" /\ i > Len(regs[Root]) /\ UNCHANGED <<regs, cur>>
        BY <2>2 DEF Inherited
      <3>2. \A l \in DOMAIN regs[Root] : l < i
        BY <1>1, <3>1
      <3>3. Kept(cur, Len(regs[Root]) + 1)
        BY <3>1, <3>2 DEF InheritInv, Kept
      <3> QED
        BY <1>4, <3>1, <3>3 DEF Kept
    <2>3. CASE Register
      <3>1. pc = "register" /\ UNCHANGED regs /\ cur' = cur
        BY <1>4, <2>3 DEF Register, SortFrom, Hang
      <3>2. Kept(d, Len(regs[Root]) + 1)
        BY <1>4, <3>1 DEF InheritInv
      <3> QED
        BY <3>1, <3>2 DEF Kept
    <2>4. CASE SortDone
      <3>1. pc = "sort" /\ UNCHANGED regs /\ cur' = cur
        BY <2>4 DEF SortDone
      <3>2. Kept(d, Len(regs[Root]) + 1)
        BY <1>4, <3>1 DEF InheritInv
      <3> QED
        BY <3>1, <3>2 DEF Kept
    <2>5. CASE SortStep
      <3>1. pc = "sort" /\ cur' = cur /\ d = cur
        BY <1>4, <2>5 DEF SortStep
      <3>2. regs'[Root] = regs[Root]
        BY <3>1, RootStays
      <3>3. PICK rs \in Seq(Region) : rs = regs[d]
        BY <1>1
      <3>4. PICK ms \in Seq(Region) :
              /\ regs' = [regs EXCEPT ![d] = ms] /\ Len(ms) = Len(rs)
              /\ \A k \in DOMAIN rs : k # i /\ k # j => ms[k] = rs[k]
              /\ \/ ms[i] = rs[i] /\ ms[j] = rs[j]
                 \/ ms[i] = rs[j] /\ ms[j] = rs[i]
        BY <2>5, <3>1, <3>3, SortStepIs
      <3>5. regs'[d] = ms /\ i \in DOMAIN rs /\ j \in DOMAIN rs /\ DOMAIN ms = DOMAIN rs
        BY <1>1, <2>5, <3>1, <3>3, <3>4, SortStepIs
      <3>6. \A k \in DOMAIN rs : \E l \in DOMAIN ms : ms[l] = rs[k]
        BY <3>4, <3>5
      <3>7. Kept(d, Len(regs[Root]) + 1)
        BY <3>1 DEF InheritInv
      <3>8. Kept(d, Len(regs[Root]) + 1) => \A l \in DOMAIN regs[Root] : Secret(regs[Root][l]) =>
                                             \E k \in DOMAIN rs : rs[k] = regs[Root][l]
        BY <1>1, <3>3 DEF Kept
      <3>9. \A l \in DOMAIN regs[Root] : Secret(regs[Root][l]) => \E k \in DOMAIN ms : ms[k] = regs[Root][l]
        BY <3>6, <3>7, <3>8
      <3> QED
        BY <3>2, <3>5, <3>9 DEF Kept
    <2>6. CASE Sanitize
      BY <1>4, <2>6 DEF Sanitize, SortFrom
    <2> QED
      BY <1>4, <2>1, <2>2, <2>3, <2>4, <2>5, <2>6, StepFlow DEF Flow
  <1>5. ASSUME pc' = "inherit" PROVE Kept(cur, i)'
    <2>1. CASE UNCHANGED vars
      BY <1>5, <2>1 DEF vars, InheritInv, Kept
    <2>2. CASE ParseDomain
      <3>1. i' = 1
        BY <1>5, <2>2 DEF ParseDomain, Hang
      <3>2. regs'[Root] \in Seq(Region)
        BY <1>1, RegsType
      <3>3. \A l \in DOMAIN regs'[Root] : ~(l < i')
        BY <3>1, <3>2
      <3> QED
        BY <3>3 DEF Kept
    <2>3. CASE Inherit
      <3>1. pc = "inherit" /\ i' = i + 1 /\ cur' = cur /\ i <= Len(regs[Root])
        BY <2>3 DEF Inherit
      <3>2. regs'[Root] = regs[Root]
        BY <3>1, RootStays
      <3>3. PICK rs \in Seq(Region), ds \in Seq(Region) : rs = regs[Root] /\ ds = regs[cur]
        BY <1>1
      <3>4. i \in DOMAIN rs
        BY <1>1, <3>1, <3>3 DEF ControlInv
      <3>5. PICK r \in Region : r = rs[i]
        BY <3>4
      <3>6. \A l \in DOMAIN rs : l < i' => l < i \/ l = i
        BY <1>1, <3>1
      <3>7. \A l \in DOMAIN rs : l < i /\ Secret(rs[l]) => \E k \in DOMAIN ds : ds[k] = rs[l]
        BY <3>1, <3>3 DEF InheritInv, Kept
      <3>8. CASE ~Secret(r)
        <4>1. UNCHANGED regs
          BY <2>3, <3>3, <3>5, <3>8 DEF Inherit
        <4>2. \A l \in DOMAIN rs : l < i' /\ Secret(rs[l]) => \E k \in DOMAIN ds : ds[k] = rs[l]
          BY <3>5, <3>6, <3>7, <3>8
        <4> QED
          BY <3>1, <3>3, <4>1, <4>2 DEF Kept
      <3>9. CASE Secret(r)
        <4>1. regs' = [regs EXCEPT ![cur] = Append(ds, r)]
          BY <1>5, <2>3, <3>3, <3>5, <3>9 DEF Inherit, Hang
        <4>2. Append(ds, r) \in Seq(Region)
          OBVIOUS
        <4>3. PICK ms \in Seq(Region) : ms = Append(ds, r)
          BY <4>2
        <4>4. /\ Len(ds) + 1 \in DOMAIN ms /\ ms[Len(ds) + 1] = r
              /\ \A k \in DOMAIN ds : k \in DOMAIN ms /\ ms[k] = ds[k]
          BY <4>3
        <4>5. regs'[cur] = ms
          BY <1>1, <4>1, <4>3
        <4>6. \A l \in DOMAIN rs : l < i' /\ Secret(rs[l]) => \E k \in DOMAIN ms : ms[k] = rs[l]
          BY <3>5, <3>6, <3>7, <4>4
        <4> QED
          BY <3>1, <3>2, <3>3, <4>5, <4>6 DEF Kept
      <3> QED
        BY <3>8, <3>9
    <2> QED
      BY <1>5, <2>1, <2>2, <2>3, StepFlow DEF Flow
  <1> QED
    BY <1>2, <1>3, <1>4, <1>5 DEF InheritInv

(* Of two aligned blocks that share an address the larger has the start of *)
(* the other.                                                              *)
LEMMA Nested ==
  ASSUME NEW a \in Region, NEW r \in Region, Valid(a), Valid(r), a.order <= r.order, r.order < Xlen,
         NEW x \in Addrs, Has(a, x), Has(r, x)
  PROVE  Has(r, a.base)
  <1>1. a.order \in Nat /\ r.order \in Nat /\ a.order < Xlen /\ x \in Nat
    BY RegionNat, Widths
  <1>2. PICK p \in Nat \ {0}, q \in Nat \ {0} : p = 2^a.order /\ q = 2^r.order /\ p = Bit(a.order) /\ q = Bit(r.order)
    <2>1. PICK p \in Nat : p = 2^a.order /\ p = Bit(a.order) /\ p > 1
      BY <1>1, ValidFits
    <2>2. PICK q \in Nat : q = 2^r.order /\ q = Bit(r.order) /\ q > 1
      BY <1>1, ValidFits
    <2> QED
      BY <2>1, <2>2
  <1>3. PICK ab \in Nat, rb \in Nat : ab = a.base /\ rb = r.base /\ ab % p = 0 /\ rb % q = 0
    BY <1>2, RegionNat DEF Valid
  <1>4. ab <= x /\ x <= ab + p - 1 /\ rb <= x /\ x <= rb + q - 1
    BY <1>1, <1>2, <1>3, Widths DEF Has
  <1>5. PICK f \in Nat \ {0} : q = f * p
    <2>1. PICK m \in Nat, n \in Nat : m = a.order /\ n = r.order /\ m <= n
      BY <1>1
    <2>2. PICK f \in Nat \ {0} : 2^n = f * 2^m
      BY <2>1, PowDivides
    <2> QED
      BY <1>2, <2>1, <2>2
  <1>6. PICK u \in Nat : ab = u * p
    <2>1. PICK u \in Nat, c \in 0 .. p - 1 : c = ab % p /\ u * p + c = ab
      BY DivMod
    <2>2. c = 0
      BY <1>3, <2>1
    <2>3. PICK e \in Nat : e = u * p
      OBVIOUS
    <2>4. e = ab
      BY <2>1, <2>2, <2>3
    <2> QED
      BY <2>3, <2>4
  <1>7. PICK v \in Nat : rb = v * q
    <2>1. PICK v \in Nat, c \in 0 .. q - 1 : c = rb % q /\ v * q + c = rb
      BY DivMod
    <2>2. c = 0
      BY <1>3, <2>1
    <2>3. PICK e \in Nat : e = v * q
      OBVIOUS
    <2>4. e = rb
      BY <2>1, <2>2, <2>3
    <2> QED
      BY <2>3, <2>4
  <1>8. PICK w \in Nat : rb = w * p
    <2>1. v * (f * p) = (v * f) * p /\ v * f \in Nat
      OBVIOUS
    <2> QED
      BY <1>5, <1>7, <2>1
  <1>9. x \div p = u
    <2>1. PICK c \in 0 .. p - 1 : x = ab + c
      <3>1. x - ab \in 0 .. p - 1 /\ x = ab + (x - ab)
        BY <1>1, <1>4
      <3> QED
        BY <3>1
    <2>2. (u * p + c) \div p = u
      BY DivUnique
    <2> QED
      BY <1>6, <2>1, <2>2
  <1>10. rb \div p = w
    <2>1. 0 \in 0 .. p - 1 /\ rb = w * p + 0
      BY <1>8
    <2>2. (w * p + 0) \div p = w
      BY <2>1, DivUnique
    <2> QED
      BY <2>1, <2>2
  <1>11. w <= u
    BY <1>1, <1>4, <1>9, <1>10, DivMonotone
  <1>12. rb <= ab
    <2>1. PICK c \in Nat : u = w + c
      BY <1>11
    <2>2. u * p = w * p + c * p /\ c * p \in Nat /\ w * p \in Nat
      BY <2>1
    <2> QED
      BY <1>6, <1>8, <2>2
  <1>13. ab <= rb + q - 1
    BY <1>1, <1>4
  <1> QED
    BY <1>2, <1>3, <1>12, <1>13 DEF Has

(* No S-mode access to a device is allowed once it is initialized, in any  *)
(* domain that opens no closed region of the root domain: for every list   *)
(* of devices away from the firmware, and every device tree.               *)
THEOREM DevicesProtectedHolds == Spec => [](Apart => DevicesProtected)
  <1>1. ASSUME DomainInv, AccessInv, LateInv, ReachInv, ValidInv, InheritInv, Apart,
               pc \in {"idle", "populate", "start", "done"},
               NEW range \in Ranges, NEW d \in Registered, Guarded(range), d # Root => ~Opens(d),
               NEW addr \in range[1] .. range[1] + range[2] - 1, NEW mmio \in BOOLEAN,
               NEW x \in {"R", "W", "X"}
        PROVE  ~CheckAddr(regs[d], addr, "S", {x}, mmio)
    <2>1. /\ Settled(Root) /\ Settled(d) /\ Root \in Doms /\ Doms \subseteq Nat /\ Root = 0
          /\ regs \in [Doms -> Seq(Region)]
      BY <1>1, Constants DEF Settled, DomainInv, TypeOK, Root
    <2>2. d \in Doms /\ d < Len(table) /\ Root < Len(table) /\ Root \in Registered
      <3>1. table \in Seq(Doms) /\ \A k \in DOMAIN table : table[k] = k - 1
        BY <1>1 DEF DomainInv, TypeOK, ControlInv
      <3>2. PICK k \in DOMAIN table : d = table[k]
        BY <1>1 DEF Registered
      <3>3. d \in Doms /\ k \in 1 .. Len(table) /\ d = k - 1 /\ Len(table) \in Nat
        BY <3>1, <3>2
      <3>4. 1 \in DOMAIN table /\ table[1] = Root
        BY <2>1, <3>1, <3>3
      <3> QED
        BY <2>1, <3>3, <3>4 DEF Registered
    <2>3. addr \in Addrs /\ addr \in Nat
      BY <1>1, RangeNat DEF Addrs
    <2>4. PICK o \in Others : Has(o, addr)
      <3>1. tiles[2] = 0 /\ tiles \in Nat \X Nat
        BY <1>1, <2>1 DEF LateInv, DomainInv, InputInv
      <3>2. (\E r \in Others : Has(r, addr)) \/ (tiles[1] <= addr /\ addr < tiles[1] + tiles[2])
        BY <1>1 DEF ReachInv
      <3> QED
        BY <2>3, <3>1, <3>2
    <2>5. PICK rs \in Seq(Region) : rs = regs[Root] /\ Covers(rs)
      BY <1>1, <2>1 DEF AccessInv
    <2>6. PICK k \in DOMAIN rs : Tiled(rs[k]) /\ Has(rs[k], addr)
      BY <2>3, <2>4, <2>5 DEF Covers
    <2>7. ASSUME NEW e \in Registered, NEW es \in Seq(Region), es = regs[e], Settled(e),
                 NEW l \in DOMAIN es, Has(es[l], addr)
          PROVE  \E m \in DOMAIN es :
                   /\ m = Min(Hits(es, addr, "S")) /\ Hits(es, addr, "S") # {} /\ Has(es[m], addr)
                   /\ es[m].order <= es[l].order
      <3>1. PICK hits \in SUBSET DOMAIN es : hits = Hits(es, addr, "S")
        BY DEF Hits
      <3>2. hits \in SUBSET Nat /\ l \in hits /\ \A m \in hits : Has(es[m], addr)
        BY <2>7, <3>1 DEF Hits
      <3>3. Min(hits) \in hits
        BY <3>2, MinIn
      <3>4. es[Min(hits)].order <= es[l].order
        BY <1>1, <2>3, <2>7, <3>1, <3>2, Smallest DEF ChecksSmallest
      <3> QED
        BY <3>1, <3>2, <3>3, <3>4
    <2>8. PICK m \in DOMAIN rs : /\ m = Min(Hits(rs, addr, "S")) /\ Hits(rs, addr, "S") # {}
                                 /\ Has(rs[m], addr) /\ rs[m].order <= rs[k].order
      BY <2>1, <2>2, <2>5, <2>6, <2>7
    <2>9. PICK r \in Region : r = rs[m] /\ r.order < Xlen
      <3>1. PICK r \in Region, t \in Region : r = rs[m] /\ t = rs[k]
        OBVIOUS
      <3>2. t.order < Xlen /\ r.order <= t.order
        BY <2>6, <2>8, <3>1 DEF Tiled
      <3> QED
        BY <3>1, <3>2, RegionNat, Widths
    <2>10. Secret(r)
      <3>1. Plain(r) \/ Tiled(r)
        BY <2>5, <2>9 DEF Covers
      <3>2. r.order # Xlen
        BY <2>9, RegionNat, Widths
      <3>3. r.flags = {} \/ r.flags = {"I"}
        BY <3>1, <3>2, FwAndAll DEF Plain, Tiled
      <3> QED
        BY <3>3 DEF Secret
    <2>11. CASE d = Root
      BY <1>1, <2>5, <2>8, <2>9, <2>10, <2>11 DEF CheckAddr, Secret
    <2>12. CASE d # Root
      <3>1. PICK es \in Seq(Region) : es = regs[d]
        BY <2>1, <2>2
      <3>2. m < Len(rs) + 1
        OBVIOUS
      <3>3. PICK l \in DOMAIN es : es[l] = r
        BY <1>1, <2>2, <2>5, <2>9, <2>10, <2>12, <3>1, <3>2 DEF InheritInv, Kept
      <3>4. PICK n \in DOMAIN es : /\ n = Min(Hits(es, addr, "S")) /\ Hits(es, addr, "S") # {}
                                   /\ Has(es[n], addr) /\ es[n].order <= es[l].order
        BY <2>1, <2>7, <2>8, <2>9, <3>1, <3>3
      <3>5. PICK f \in Region : f = es[n]
        OBVIOUS
      <3>6. Valid(f) /\ Valid(r)
        BY <1>1, <2>1, <2>2, <2>5, <2>9, <3>1, <3>5 DEF ValidInv, Proper
      <3>7. Has(r, f.base) /\ f.order <= r.order
        BY <2>3, <2>8, <2>9, <3>3, <3>4, <3>5, <3>6, Nested
      <3>8. Secret(f)
        BY <1>1, <2>5, <2>9, <2>10, <2>12, <3>1, <3>5, <3>7 DEF Opens
      <3> QED
        BY <1>1, <3>1, <3>4, <3>5, <3>8 DEF CheckAddr, Secret
    <2> QED
      BY <2>11, <2>12
  <1>2. DomainInv /\ AccessInv /\ LateInv /\ ReachInv /\ ValidInv /\ InheritInv => (Apart => DevicesProtected)
    BY <1>1 DEF DevicesProtected
  <1>3. Init => LateInv /\ ReachInv /\ ValidInv /\ InheritInv
    <2> SUFFICES ASSUME Init PROVE LateInv /\ ReachInv /\ ValidInv /\ InheritInv
      OBVIOUS
    <2>1. tiles[2] = 0 /\ pc = "register" /\ cur = Root /\ table = << >> /\ Len(table) = 0 /\ devices = Ranges
      BY DEF Init
    <2>2. LateInv /\ ReachInv
      BY <2>1 DEF LateInv, ReachInv, Guarded
    <2>3. \A d \in Doms : ~(d < Len(table))
      BY <2>1, Constants
    <2> QED
      BY <2>1, <2>2, <2>3 DEF ValidInv, InheritInv
  <1>4. DomainInv /\ LateInv /\ ReachInv /\ ValidInv /\ InheritInv /\ [Next]_vars
        => LateInv' /\ ReachInv' /\ ValidInv' /\ InheritInv'
    BY LateKeeps, ReachKeeps, ValidKeeps, InheritKeeps
  <1>5. Spec => [](LateInv /\ ReachInv /\ ValidInv /\ InheritInv)
    BY <1>3, <1>4, DomainInvHolds, PTL DEF Spec
  <1>6. Spec => []AccessInv
    BY AccessInit, AccessKeeps, DomainInvHolds, PTL DEF Spec
  <1> QED
    BY <1>2, <1>5, <1>6, DomainInvHolds, PTL
-----------------------------------------------------------------------------
(* The PMP of the harts.                                                   *)

(* A number that ends in a zero and k ones has k ones at its end.          *)
LEMMA OnesIs ==
  ASSUME NEW k \in 0 .. Xlen, NEW u \in Nat, NEW p \in Nat \ {0}, p = 2^k
  PROVE  Ones(u * (2 * p) + (p - 1)) = k
  <1>1. k \in Nat /\ Xlen \in Nat
    BY Widths
  <1>2. PICK v \in Nat : v = u * (2 * p)
    OBVIOUS
  <1>3. PICK a \in Nat : a = v + (p - 1)
    OBVIOUS
  <1> DEFINE S == {n \in 0 .. Xlen : a % 2^n = 2^n - 1}
  <1>4. k \in S
    <2>1. PICK w \in Nat : w = u * 2
      OBVIOUS
    <2>2. w * p = v
      BY <1>2, <2>1
    <2>3. p - 1 \in 0 .. p - 1
      OBVIOUS
    <2>4. (w * p + (p - 1)) % p = p - 1
      BY <2>3, DivUnique
    <2>5. a % p = p - 1
      BY <1>3, <2>2, <2>4
    <2> QED
      BY <2>5
  <1>5. ASSUME NEW n \in S PROVE n <= k
    <2> SUFFICES ASSUME k < n PROVE FALSE
      BY <1>1
    <2>1. n \in Nat /\ k + 1 <= n /\ k + 1 \in Nat
      BY <1>1
    <2>2. PICK f \in Nat \ {0} : 2^n = f * 2^(k + 1)
      BY <2>1, PowDivides
    <2>3. 2^(k + 1) = 2 * p
      BY <1>1, PowDouble
    <2>4. PICK q \in Nat \ {0} : q = 2 * p
      OBVIOUS
    <2>5. PICK s \in Nat \ {0} : s = 2^n /\ s = f * q
      <3>1. PICK s \in Nat \ {0} : s = 2^n
        BY <2>1, PowPositive
      <3>2. 2^n = f * q
        BY <2>2, <2>3, <2>4
      <3> QED
        BY <3>1, <3>2
    <2>6. PICK g \in Nat, r \in 0 .. s - 1 : r = a % s /\ g * s + r = a
      BY DivMod
    <2>7. r = s - 1
      BY <2>5, <2>6
    <2>8. PICK gs \in Nat : gs = g * s /\ gs + s = a + 1
      BY <2>6, <2>7
    <2>9. PICK h \in Nat : gs = h * q
      <3>1. g * (f * q) = (g * f) * q /\ g * f \in Nat
        OBVIOUS
      <3> QED
        BY <2>5, <2>8, <3>1
    <2>10. PICK t \in Nat : t = h + f
      OBVIOUS
    <2>11. t * q = h * q + f * q
      BY <2>10
    <2>12. t * q = u * q + p
      <3>1. v = u * q
        BY <1>2, <2>4
      <3>2. t * q = a + 1
        BY <2>5, <2>8, <2>9, <2>11
      <3> QED
        BY <1>3, <3>1, <3>2
    <2>13. p \in 0 .. q - 1 /\ 0 \in 0 .. q - 1
      BY <2>4
    <2>14. (u * q + p) % q = p /\ (t * q + 0) % q = 0
      BY <2>13, DivUnique
    <2>15. t * q + 0 = u * q + p
      <3>1. PICK tq \in Nat : tq = t * q
        OBVIOUS
      <3> QED
        BY <2>12, <3>1
    <2> QED
      BY <2>14, <2>15
  <1>6. S \in SUBSET (0 .. Xlen) /\ S # {}
    BY <1>4
  <1>7. Max(S) \in S /\ k <= Max(S)
    BY <1>1, <1>4, <1>6, MaxIn
  <1>8. Max(S) \in Nat /\ Max(S) <= k
    BY <1>1, <1>5, <1>7
  <1>9. Max(S) = k
    BY <1>1, <1>7, <1>8
  <1> QED
    BY <1>2, <1>3, <1>9 DEF Ones

(* The PMP entry of a region matches the addresses of the region, except   *)
(* for those in front of a region of order Xlen.                           *)
LEMMA MatchIs ==
  ASSUME NEW r \in Region, Valid(r), NEW addr \in Addrs, r.order = Xlen => r.base <= addr
  PROVE  Matches(PmpSet(r), addr) <=> Has(r, addr)
  <1>1. /\ Xlen \in Nat \ {0} /\ PmpShift \in Nat /\ addr \in Nat /\ r.order \in Nat /\ r.base \in Nat
        /\ PmpShift < r.order /\ r.order <= Xlen
    <2>1. PmpShift \in 0 .. MinOrder - 1 /\ MinOrder \in Nat /\ Xlen \in Nat \ {0} /\ Addrs \subseteq Nat
      BY Widths, DomainAssumption
    <2>2. r.order \in Nat /\ r.base \in Nat /\ MinOrder <= r.order /\ r.order <= Xlen
      BY RegionNat DEF Valid
    <2> QED
      BY <2>1, <2>2
  <1>2. PmpSet(r).a = "NAPOT" /\ PmpSet(r).addr = PmpAddr(r)
    BY <1>1 DEF PmpSet
  <1>3. CASE r.order = Xlen
    <2>1. PmpAddr(r) = Space - 1
      BY <1>1, <1>3 DEF PmpAddr
    <2>2. PICK s \in Nat \ {0} : s = 2^Xlen /\ s = Space
      BY <1>1, PowPositive DEF Space
    <2>3. 0 * (2 * s) + (s - 1) = Space - 1
      BY <2>2
    <2>4. Ones(0 * (2 * s) + (s - 1)) = Xlen
      BY <1>1, <2>2, OnesIs
    <2>5. Ones(PmpSet(r).addr) = Xlen
      BY <1>2, <2>1, <2>3, <2>4
    <2>6. Ones(PmpSet(r).addr) + 1 + PmpShift >= Xlen
      BY <1>1, <2>5
    <2>7. Matches(PmpSet(r), addr)
      BY <1>2, <2>6 DEF Matches
    <2> QED
      BY <1>1, <1>3, <2>7 DEF Has
  <1>4. CASE r.order # Xlen
    <2>1. PICK o \in Nat, k \in Nat : o = r.order /\ o = PmpShift + (k + 1) /\ o < Xlen
      <3>1. PICK n \in Nat : n = r.order - PmpShift - 1
        BY <1>1
      <3>2. r.order = PmpShift + (n + 1) /\ r.order < Xlen
        BY <1>1, <1>4, <3>1
      <3> QED
        BY <1>1, <3>2
    <2>2. PICK p \in Nat \ {0}, sh \in Nat \ {0}, half \in Nat \ {0} : p = 2^o /\ sh = 2^PmpShift /\ half = 2^k
      BY <1>1, <2>1, PowPositive
    <2>3. PICK ones \in Nat \ {0} : ones = 2 * half /\ ones = 2^(k + 1)
      BY <2>1, <2>2, PowDouble
    <2>4. p = sh * ones
      <3>1. PICK m \in Nat, n \in Nat : m = PmpShift /\ n = k + 1 /\ o = m + n
        BY <1>1, <2>1
      <3>2. 2^(m + n) = 2^m * 2^n
        BY PowAdd
      <3> QED
        BY <2>2, <2>3, <3>1, <3>2
    <2>5. PICK u \in Nat : r.base = u * p
      <3>1. PICK b \in Nat : b = r.base /\ b % p = 0
        BY <1>1, <2>1, <2>2, BitIs DEF Valid
      <3>2. PICK u \in Nat, c \in 0 .. p - 1 : c = b % p /\ u * p + c = b
        BY DivMod
      <3>3. PICK e \in Nat : e = u * p
        OBVIOUS
      <3>4. e = b
        BY <3>1, <3>2, <3>3
      <3> QED
        BY <3>1, <3>3, <3>4
    <2>6. PICK w \in Nat : w = u * ones
      OBVIOUS
    <2>7. r.base = w * sh
      <3>1. u * (sh * ones) = (u * ones) * sh
        OBVIOUS
      <3> QED
        BY <2>4, <2>5, <2>6, <3>1
    <2>8. r.base \div sh = w
      <3>1. 0 \in 0 .. sh - 1
        OBVIOUS
      <3>2. (w * sh + 0) \div sh = w
        BY <3>1, DivUnique
      <3>3. r.base = w * sh + 0
        BY <1>1, <2>7
      <3> QED
        BY <3>2, <3>3
    <2>9. w \div ones = u
      <3>1. 0 \in 0 .. ones - 1
        OBVIOUS
      <3>2. (u * ones + 0) \div ones = u
        BY <3>1, DivUnique
      <3>3. w = u * ones + 0
        BY <2>6
      <3> QED
        BY <3>2, <3>3
    <2>10. ones \div 2 = half
      BY <2>3
    <2>11. r.order # PmpShift /\ r.order - PmpShift = k + 1
      BY <1>1, <2>1
    <2>12. PmpAddr(r) = u * ones + (half - 1)
      BY <1>4, <2>2, <2>3, <2>8, <2>9, <2>10, <2>11 DEF PmpAddr
    <2>13. PmpAddr(r) = u * (2 * half) + (half - 1)
      BY <2>3, <2>12
    <2>14. k \in 0 .. Xlen
      BY <1>1, <2>1
    <2>15. Ones(PmpSet(r).addr) = k
      <3>1. Ones(u * (2 * half) + (half - 1)) = k
        BY <2>2, <2>14, OnesIs
      <3> QED
        BY <1>2, <2>13, <3>1
    <2>16. Ones(PmpSet(r).addr) + 1 + PmpShift = o /\ o - PmpShift = k + 1 /\ ~(o >= Xlen)
      BY <1>1, <2>1, <2>15
    <2>17. PmpSet(r).addr \div ones = u
      <3>1. half - 1 \in 0 .. ones - 1
        BY <2>3
      <3>2. (u * ones + (half - 1)) \div ones = u
        BY <3>1, DivUnique
      <3> QED
        BY <1>2, <2>12, <3>2
    <2>18. Matches(PmpSet(r), addr) <=> addr \div p = u
      BY <1>2, <2>2, <2>3, <2>16, <2>17 DEF Matches
    <2>19. Has(r, addr) <=> (u * p <= addr /\ addr <= u * p + p - 1)
      BY <1>4, <2>1, <2>2, <2>5 DEF Has
    <2>20. PICK up \in Nat : up = u * p
      OBVIOUS
    <2>21. ASSUME up <= addr, addr <= up + p - 1 PROVE addr \div p = u
      <3>1. PICK c \in 0 .. p - 1 : addr = up + c
        <4>1. addr - up \in 0 .. p - 1 /\ addr = up + (addr - up)
          BY <1>1, <2>21
        <4> QED
          BY <4>1
      <3>2. (u * p + c) \div p = u
        BY DivUnique
      <3> QED
        BY <2>20, <3>1, <3>2
    <2>22. ASSUME addr \div p = u PROVE up <= addr /\ addr <= up + p - 1
      <3>1. PICK q \in Nat, c \in 0 .. p - 1 : q = addr \div p /\ q * p + c = addr
        BY <1>1, DivMod
      <3>2. up + c = addr
        BY <2>20, <2>22, <3>1
      <3> QED
        BY <3>2
    <2> QED
      BY <2>18, <2>19, <2>20, <2>21, <2>22
  <1> QED
    BY <1>3, <1>4

(* Of a list all of whose regions can be configured, the k-th entry is     *)
(* made from the k-th region.                                              *)
LEMMA EntriesAre ==
  ASSUME NEW rs \in Seq(Region), \A k \in DOMAIN rs : Configurable(rs[k])
  PROVE  \E n \in Nat :
           /\ n <= Len(rs) /\ (Len(rs) <= PmpCount => n = Len(rs))
           /\ PmpEntries(rs) = [e \in 1 .. n |-> PmpSet(rs[e])]
  <1>1. PICK m \in Nat : m = Len(rs) /\ DOMAIN rs = 1 .. m
    OBVIOUS
  <1> DEFINE fit == {k \in DOMAIN rs : Configurable(rs[k])}
             nth(e) == CHOOSE k \in fit : Cardinality({l \in fit : l <= k}) = e
             n == Min({PmpCount, Cardinality(fit)})
  <1>2. fit = 1 .. m
    BY <1>1
  <1>3. \A k \in Nat : Cardinality(1 .. k) = k
    BY FS_Interval
  <1>4. ASSUME NEW k \in 1 .. m PROVE Cardinality({l \in fit : l <= k}) = k
    <2>1. {l \in fit : l <= k} = 1 .. k
      BY <1>2
    <2>2. k \in Nat
      BY <1>1
    <2>3. Cardinality(1 .. k) = k
      BY <1>3, <2>2
    <2> QED
      BY <2>1, <2>3
  <1>5. PmpCount \in Nat
    BY DomainAssumption
  <1>6. n \in Nat /\ n <= m /\ (m <= PmpCount => n = m)
    <2>1. {PmpCount, Cardinality(fit)} = {PmpCount, m}
      BY <1>2, <1>3
    <2>2. {PmpCount, m} \in SUBSET Nat /\ {PmpCount, m} # {}
      BY <1>5
    <2>3. PICK c \in {PmpCount, m} : c = Min({PmpCount, m}) /\ c <= PmpCount /\ c <= m
      BY <2>2, MinIn
    <2>4. c \in Nat /\ c <= m /\ (m <= PmpCount => c = m)
      BY <1>5, <2>3
    <2>5. n = c
      BY <2>1, <2>3
    <2> QED
      BY <2>4, <2>5
  <1>7. PmpEntries(rs) = [e \in 1 .. n |-> PmpSet(rs[nth(e)])]
    BY DEF PmpEntries
  <1>8. ASSUME NEW e \in 1 .. m PROVE nth(e) = e
    BY <1>2, <1>4
  <1> HIDE DEF n, nth
  <1>9. [e \in 1 .. n |-> PmpSet(rs[nth(e)])] = [e \in 1 .. n |-> PmpSet(rs[e])]
    BY <1>6, <1>8
  <1> QED
    BY <1>1, <1>6, <1>7, <1>9

(* The PMP is configured when the cold boot is over, from the list of the  *)
(* hart's domain, and neither changes then.                                *)
PmpInv ==
  /\ DOMAIN pmp = Harts
  /\ \A h \in Harts : pmp[h] # << >> => pc = "done" /\ pmp[h] = PmpEntries(regs[domainOf[h]])

(* Only sbi_hart_pmp_configure writes entries, and nothing else runs then. *)
LEMMA PmpStep ==
  ASSUME Next
  PROVE  \/ pc # "done" /\ UNCHANGED pmp
         \/ \E h \in Harts : PmpConfigure(h)
  <1> USE DEF domVars, loopVars, devVars, Hang
  <1>1. CASE Step
    BY <1>1 DEF Step, Register, SortStep, SortConflict, SortDone, Assign, AddRefused, AddMemregion,
      Sanitize, DeviceDone, MergeStep, MergeDone, Finalize, ParseDomain, Inherit, Inherited, Populated,
      StartDomain, StartFails, StartDone
  <1>2. ASSUME NEW range \in Ranges, Device(range) PROVE pc # "done" /\ UNCHANGED pmp
    BY <1>2 DEF Device
  <1> QED
    BY <1>1, <1>2 DEF Next

(* A hart's entries stay those of its domain.                              *)
LEMMA PmpKeeps ==
  ASSUME PmpInv, [Next]_vars
  PROVE  PmpInv'
  <1>1. CASE UNCHANGED vars
    BY <1>1 DEF vars, PmpInv
  <1>2. CASE pc # "done" /\ UNCHANGED pmp
    BY <1>2 DEF PmpInv
  <1>3. ASSUME NEW h \in Harts, PmpConfigure(h) PROVE PmpInv'
    <2>1. /\ pmp' = [pmp EXCEPT ![h] = PmpEntries(regs[domainOf[h]])]
          /\ pc = "done" /\ UNCHANGED <<regs, domainOf, pc>>
      BY <1>3 DEF PmpConfigure, domVars
    <2>2. DOMAIN pmp' = Harts /\ \A g \in Harts : g # h => pmp'[g] = pmp[g]
      BY <2>1 DEF PmpInv
    <2>3. pmp'[h] = PmpEntries(regs[domainOf[h]])
      BY <2>1 DEF PmpInv
    <2>4. \A g \in Harts : pmp'[g] # << >> => pc' = "done" /\ pmp'[g] = PmpEntries(regs'[domainOf'[g]])
      BY <2>1, <2>2, <2>3 DEF PmpInv
    <2> QED
      BY <2>2, <2>4 DEF PmpInv
  <1> QED
    BY <1>1, <1>2, <1>3, PmpStep

(* The check allows the access, to memory or to a device.                  *)
Allowed(rs, addr, mode, x) == \E mmio \in BOOLEAN : CheckAddr(rs, addr, mode, {x}, mmio)

(* The entries of a list decide like the list.                             *)
LEMMA EntriesDecide ==
  ASSUME NEW rs \in Seq(Region), Proper(rs), NEW n \in Nat, n <= Len(rs),
         NEW h \in Harts, pmp[h] = [e \in 1 .. n |-> PmpSet(rs[e])],
         NEW addr \in Addrs, Reached(rs, addr), NEW x \in {"R", "W", "X"}, NEW mode \in {"S", "M"}
  PROVE  /\ mode = "S" /\ PmpAllows(h, addr, mode, x) => Allowed(rs, addr, mode, x)
         /\ n = Len(rs) /\ Allowed(rs, addr, mode, x) => PmpAllows(h, addr, mode, x)
  <1>1. PICK m \in Nat : m = Len(rs) /\ DOMAIN rs = 1 .. m /\ n <= m
    OBVIOUS
  <1>2. PICK E : E = pmp[h] /\ DOMAIN E = 1 .. n /\ \A e \in 1 .. n : E[e] = PmpSet(rs[e])
    OBVIOUS
  <1>3. ASSUME NEW e \in 1 .. n PROVE (Matches(E[e], addr) <=> Has(rs[e], addr)) /\ E[e].flags = rs[e].flags \ {"I"}
    <2>1. e \in DOMAIN rs
      BY <1>1
    <2>2. PICK r \in Region : r = rs[e] /\ Valid(r) /\ (r.order = Xlen => r.base <= addr)
      BY <2>1 DEF Proper, Reached
    <2>3. E[e] = PmpSet(r)
      BY <1>2, <2>2
    <2> QED
      BY <2>2, <2>3, MatchIs DEF PmpSet
  <1> DEFINE P == {e \in 1 .. n : Has(rs[e], addr)}
             H == Hits(rs, addr, mode)
             ok == Allowed(rs, addr, mode, x)
  <1>4. {k \in DOMAIN pmp[h] : Matches(pmp[h][k], addr)} = P
    BY <1>2, <1>3
  <1>5. P \in SUBSET Nat /\ H \in SUBSET Nat /\ P \subseteq 1 .. n /\ H \subseteq 1 .. m
    BY <1>1 DEF Hits
  <1>6. \A e \in 1 .. m : e \in H <=> Has(rs[e], addr) /\ (mode = "M" => "M" \in rs[e].flags)
    BY <1>1 DEF Hits
  <1>7. PmpAllows(h, addr, mode, x) <=> IF P = {} THEN mode = "M"
                                       ELSE \/ x \in rs[Min(P)].flags
                                            \/ mode = "M" /\ "M" \notin rs[Min(P)].flags
    <2>1. CASE P = {}
      BY <1>4, <2>1 DEF PmpAllows
    <2>2. CASE P # {}
      <3>1. PICK e \in 1 .. n : e = Min(P)
        BY <1>5, <2>2, MinIn
      <3>2. E[e].flags = rs[e].flags \ {"I"}
        BY <1>3
      <3>3. PmpAllows(h, addr, mode, x) <=>
              x \in E[e].flags \/ (mode = "M" /\ "M" \notin E[e].flags)
        BY <1>2, <1>4, <2>2, <3>1 DEF PmpAllows
      <3> QED
        BY <2>2, <3>1, <3>2, <3>3
    <2> QED
      BY <2>1, <2>2
  <1>8. ok <=> IF H = {} THEN mode = "M" ELSE x \in rs[Min(H)].flags
    <2>1. CASE H = {}
      BY <2>1 DEF CheckAddr, Allowed
    <2>2. CASE H # {}
      <3>1. \A mmio \in BOOLEAN : CheckAddr(rs, addr, mode, {x}, mmio) <=>
              (mmio <=> "I" \in rs[Min(H)].flags) /\ {x} \subseteq rs[Min(H)].flags
        BY <2>2 DEF CheckAddr
      <3>2. \E mmio \in BOOLEAN : mmio <=> "I" \in rs[Min(H)].flags
        <4>1. ("I" \in rs[Min(H)].flags) \in BOOLEAN
          OBVIOUS
        <4> QED
          BY <4>1
      <3> QED
        BY <2>2, <3>1, <3>2 DEF Allowed
    <2> QED
      BY <2>1, <2>2
  <1> HIDE DEF P, H, ok
  <1>9. ASSUME mode = "S", PmpAllows(h, addr, mode, x) PROVE ok
    <2>1. P # {} /\ x \in rs[Min(P)].flags
      BY <1>7, <1>9
    <2>2. PICK a \in P : a = Min(P) /\ \A e \in P : a <= e
      BY <1>5, <2>1, MinIn
    <2>3. a \in 1 .. n /\ Has(rs[a], addr)
      BY <2>2 DEF P
    <2>4. a \in H
      BY <1>1, <1>6, <1>9, <2>3
    <2>5. PICK b \in H : b = Min(H) /\ b <= a
      BY <1>5, <2>4, MinIn
    <2>6. b \in 1 .. n /\ Has(rs[b], addr)
      BY <1>1, <1>5, <1>6, <2>3, <2>5
    <2>7. b \in P
      BY <2>6 DEF P
    <2>8. a = b
      BY <1>5, <2>2, <2>5, <2>7
    <2> QED
      BY <1>8, <2>1, <2>2, <2>4, <2>5, <2>8
  <1>10. ASSUME n = Len(rs), ok PROVE PmpAllows(h, addr, mode, x)
    <2>1. n = m
      BY <1>1, <1>10
    <2>2. \A e \in H : e \in P
      BY <1>5, <1>6, <2>1 DEF P
    <2>3. CASE P = {}
      <3>1. H = {}
        BY <2>2, <2>3
      <3> QED
        BY <1>7, <1>8, <1>10, <2>3, <3>1
    <2>4. CASE P # {}
      <3>1. PICK a \in P : a = Min(P) /\ \A e \in P : a <= e
        BY <1>5, <2>4, MinIn
      <3>2. a \in 1 .. m /\ Has(rs[a], addr)
        BY <2>1, <3>1 DEF P
      <3>3. CASE mode = "M" /\ "M" \notin rs[a].flags
        BY <1>7, <2>4, <3>1, <3>3
      <3>4. CASE mode = "S" \/ "M" \in rs[a].flags
        <4>1. a \in H
          BY <1>6, <3>2, <3>4
        <4>2. PICK b \in H : b = Min(H) /\ b <= a
          BY <1>5, <4>1, MinIn
        <4>3. b \in P
          BY <2>2
        <4>4. a = b
          BY <1>5, <3>1, <4>2, <4>3
        <4> QED
          BY <1>7, <1>8, <1>10, <2>4, <3>1, <4>1, <4>2, <4>4
      <3> QED
        BY <3>3, <3>4
    <2> QED
      BY <2>3, <2>4
  <1> QED
    BY <1>9, <1>10 DEF ok

(* The PMP of a hart never lets S-mode do what sbi_domain_check_addr       *)
(* refuses, and with an entry for each region it lets pass what the check  *)
(* allows: for every width of addresses, granularity and list of regions,  *)
(* at every address that its regions of order Xlen reach.  In front of     *)
(* such a region the two differ.                                           *)
THEOREM PmpAgreesHolds == Spec => []PmpAgrees
  <1>1. ASSUME DomainInv, ValidInv, PmpInv PROVE PmpAgrees
    <2> SUFFICES ASSUME NEW h \in Harts, pmp[h] # << >>, NEW rs, rs = regs[domainOf[h]],
                        \A k \in DOMAIN rs : Configurable(rs[k]),
                        NEW addr \in Addrs, Reached(rs, addr), NEW x \in {"R", "W", "X"}
                 PROVE  /\ PmpAllows(h, addr, "S", x) => Allowed(rs, addr, "S", x)
                        /\ Len(rs) <= PmpCount =>
                             \A mode \in {"S", "M"} : Allowed(rs, addr, mode, x) => PmpAllows(h, addr, mode, x)
      BY DEF PmpAgrees, Allowed
    <2>1. pc = "done" /\ pmp[h] = PmpEntries(rs)
      BY <1>1 DEF PmpInv
    <2>2. domainOf[h] \in Doms /\ domainOf[h] < Len(table)
      <3>1. table # << >> /\ table \in Seq(Doms) /\ \A k \in DOMAIN table : table[k] = k - 1
        BY <1>1, <2>1 DEF DomainInv, ControlInv, TypeOK
      <3>2. domainOf[h] \in 0 .. Len(table) - 1 /\ Len(table) \in Nat
        BY <1>1, <3>1 DEF DomainInv, HartInv
      <3>3. domainOf[h] + 1 \in DOMAIN table
        BY <3>1, <3>2
      <3>4. table[domainOf[h] + 1] = domainOf[h]
        BY <3>1, <3>2, <3>3
      <3> QED
        BY <3>1, <3>2, <3>3, <3>4
    <2>3. rs \in Seq(Region) /\ Proper(rs)
      BY <1>1, <2>1, <2>2 DEF DomainInv, TypeOK, ValidInv, Settled
    <2>4. PICK n \in Nat : /\ n <= Len(rs) /\ (Len(rs) <= PmpCount => n = Len(rs))
                           /\ pmp[h] = [e \in 1 .. n |-> PmpSet(rs[e])]
      BY <2>1, <2>3, EntriesAre
    <2>5. ASSUME NEW mode \in {"S", "M"}
          PROVE  /\ mode = "S" /\ PmpAllows(h, addr, mode, x) => Allowed(rs, addr, mode, x)
                 /\ n = Len(rs) /\ Allowed(rs, addr, mode, x) => PmpAllows(h, addr, mode, x)
      BY <2>3, <2>4, EntriesDecide
    <2> QED
      BY <2>4, <2>5
  <1>2. Init => PmpInv /\ ValidInv
    <2> SUFFICES ASSUME Init PROVE PmpInv /\ ValidInv
      OBVIOUS
    <2>1. pc = "register" /\ Len(table) = 0 /\ pmp = [h \in Harts |-> << >>]
      BY DEF Init
    <2>2. \A d \in Doms : ~(d < Len(table))
      BY <2>1, Constants
    <2> QED
      BY <2>1, <2>2 DEF PmpInv, ValidInv
  <1>3. DomainInv /\ ValidInv /\ PmpInv /\ [Next]_vars
        => ValidInv' /\ PmpInv'
    BY ValidKeeps, PmpKeeps
  <1>4. Spec => [](ValidInv /\ PmpInv)
    BY <1>2, <1>3, DomainInvHolds, PTL DEF Spec
  <1> QED
    BY <1>1, <1>4, DomainInvHolds, PTL
====
