---------------------------- MODULE ZonesProofs ----------------------------
(***************************************************************************)
(* Proofs about the allocator of the memory zones, for zones and requests  *)
(* of any size, any number of zones and threads.                           *)
(*                                                                         *)
(* Every action changes the heap by Create, Malloc, Reset and Destroy, so  *)
(* the argument about what is allocated (IInv) is about these four         *)
(* functions and an invariant of heaps.  Who destroys a zone (OInv) is     *)
(* about the stacks, tasks, callbacks, names and futures, and what is held *)
(* (HInv) is about both: an object is lost with its zone, and only the     *)
(* owner of a zone destroys it.                                            *)
(***************************************************************************)
EXTENDS Zones, TLAPS, FiniteSetTheorems

Aligned(n) == \E k \in 0 .. n : n = k * Align

\* The addresses of a block and of the padding behind it, which no other block
\* has.
End(b) == b.base + Round(b.size)

Sep(b, c) == End(b) <= c.base \/ End(c) <= b.base

Within(o, b) == b.base <= o.at /\ o.at + o.len <= End(b)

\* Where the objects of a zone are: in the filled part of the newest block or
\* in an old block, with what was asked for before the end of the block.
InNewest(o, zone) ==
    /\ zone.base <= o.at /\ o.at + o.len <= zone.base + zone.offset
    /\ o.at + Align + o.req < zone.base + zone.size

InOld(o, b) == Within(o, b) /\ o.at + Align + o.req < b.base + b.size

Lies(o, zone) == InNewest(o, zone) \/ \E b \in zone.memories : InOld(o, b)

Newest(zone) == [base |-> zone.base, size |-> zone.size]

\* The offset of a zone is aligned and reaches into the padding at most, its
\* blocks are below brk.
ZoneGood(zone, brk) ==
    /\ Newest(zone) \notin zone.memories
    /\ Aligned(zone.offset) /\ zone.offset <= Round(zone.size)
    /\ \A b \in Blocks(zone) : End(b) <= brk

ZonesGood(h) == h \in HeapType /\ \A z \in ZoneIds : ZoneGood(h.zone[z], h.brk)

\* No two blocks overlap.
BlocksApart(h) ==
    \A y, z \in ZoneIds : \A b \in Blocks(h.zone[y]), c \in Blocks(h.zone[z]) :
        y # z \/ b # c => Sep(b, c)

Used(h, z) == h.zone[z].state # "none"

\* Objects lie in the filled part of their zone and are apart.
ObjectsGood(h) ==
    /\ \A o \in h.live : Used(h, o.zone) /\ o.len >= Align /\ Lies(o, h.zone[o.zone])
    /\ \A o, p \in h.live : o # p => Apart(o, p)

HeapInv(h) == ZonesGood(h) /\ BlocksApart(h) /\ ObjectsGood(h)

\* What a function from heaps to heaps has to do.
Keeps(h, g) == HeapInv(g) /\ \A z \in ZoneIds : Used(h, z) => Used(g, z)

-----------------------------------------------------------------------------
(* Arithmetic of the alignment. *)

\* Sums of multiples of the alignment are multiples.
LEMMA AlignedAdd ==
  ASSUME NEW m \in Nat, NEW n \in Nat, Aligned(m), Aligned(n)
  PROVE  Aligned(m + n)
<1> USE ZonesAssumption
<1>1. PICK j \in 0 .. m : m = j * Align BY DEF Aligned
<1>2. PICK k \in 0 .. n : n = k * Align BY DEF Aligned
<1>3. m + n = (j + k) * Align BY <1>1, <1>2
<1>4. j + k \in 0 .. (m + n) BY <1>1, <1>2
<1> QED BY <1>3, <1>4 DEF Aligned

\* A multiple below the next one after n is at most n.
LEMMA AlignedLess ==
  ASSUME NEW m \in Nat, NEW n \in Nat, Aligned(m), Aligned(n), m < n + Align
  PROVE  m <= n
<1> USE ZonesAssumption
<1>1. PICK j \in 0 .. m : m = j * Align BY DEF Aligned
<1>2. PICK k \in 0 .. n : n = k * Align BY DEF Aligned
<1>3. j * Align < (k + 1) * Align BY <1>1, <1>2
<1>4. j < k + 1
  <2>1. SUFFICES ASSUME j >= k + 1 PROVE FALSE BY <1>1, <1>2
  <2>2. (j - (k + 1)) * Align >= 0 BY <2>1, <1>1, <1>2
  <2> QED BY <2>2, <1>3, <1>1, <1>2
<1>5. (k - j) * Align >= 0 BY <1>4, <1>1, <1>2
<1> QED BY <1>5, <1>1, <1>2

\* What rounding up gives.
LEMMA RoundUp ==
  ASSUME NEW n \in Nat
  PROVE  /\ Round(n) \in Nat
         /\ n <= Round(n) /\ Round(n) < n + Align
         /\ Aligned(Round(n))
<1> USE ZonesAssumption
<1> DEFINE q == (n + Align - 1) \div Align
<1>1. q \in Nat /\ q * Align <= n + Align - 1 /\ n + Align - 1 < (q + 1) * Align
  OBVIOUS
<1>2. Round(n) = q * Align BY DEF Round
<1> HIDE DEF q
<1>3. q * Align \in Nat /\ (q + 1) * Align = q * Align + Align BY <1>1
<1>4. Round(n) \in Nat /\ n <= Round(n) /\ Round(n) < n + Align BY <1>1, <1>2, <1>3
<1>5. q <= q * Align BY <1>1
<1>6. Aligned(Round(n)) BY <1>1, <1>2, <1>3, <1>5 DEF Aligned
<1> QED BY <1>4, <1>6

-----------------------------------------------------------------------------
(* The four functions keep the invariant. *)

\* A multiple stays what it is; this is needed of 0 only.
LEMMA RoundZero == Round(0) = 0 /\ Aligned(0)
<1>1. Aligned(0) BY ZonesAssumption DEF Aligned
<1>2. Round(0) <= 0 BY <1>1, ZonesAssumption, RoundUp, AlignedLess
<1> QED BY <1>1, <1>2, RoundUp

\* llvm_zone_malloc extends a zone by enough for the object that did not fit.
LEMMA ExtendedSizeGood ==
  ASSUME NEW zone \in ZoneType, NEW r \in Requests
  PROVE  ExtendedSize(zone, r) \in Nat /\ r + Align < ExtendedSize(zone, r)
<1>1. zone.size \in Nat /\ r \in Nat BY ZonesAssumption DEF ZoneType
<1> QED BY <1>1, ZonesAssumption DEF ExtendedSize, MaxOf

\* How the parts of a changed heap are read.
LEMMA GrownHeap ==
  ASSUME NEW h \in HeapType, NEW z \in ZoneIds, NEW zn \in ZoneType, NEW n \in Nat
  PROVE  /\ Grown(h, z, zn, n) \in HeapType
         /\ Grown(h, z, zn, n).brk = h.brk + Round(n) /\ Grown(h, z, zn, n).live = h.live
         /\ Grown(h, z, zn, n).zone[z] = zn
         /\ \A y \in ZoneIds \ {z} : Grown(h, z, zn, n).zone[y] = h.zone[y]
<1> DEFINE g == [h EXCEPT !.zone[z] = zn, !.brk = @ + Round(n)]
<1>0. h.zone \in [ZoneIds -> ZoneType] /\ h.brk \in Nat /\ h.live \subseteq ObjectType
  BY DEF HeapType
<1>1. g.brk = h.brk + Round(n) /\ g.live = h.live /\ g.zone = [h.zone EXCEPT ![z] = zn]
  BY DEF HeapType
<1>2. g.zone[z] = zn /\ \A y \in ZoneIds \ {z} : g.zone[y] = h.zone[y]
  BY <1>1 DEF HeapType
<1>3. g \in HeapType
  <2>1. [h.zone EXCEPT ![z] = zn] \in [ZoneIds -> ZoneType] BY <1>0
  <2>2. h.brk + Round(n) \in Nat BY <1>0, RoundUp
  <2> QED BY <1>0, <2>1, <2>2 DEF HeapType
<1> QED BY <1>1, <1>2, <1>3 DEF Grown

\* A zone that is changed has the new contents; the others stay as they are.
LEMMA UpdatedHeap ==
  ASSUME NEW h \in HeapType, NEW z \in ZoneIds, NEW zn \in ZoneType,
         NEW L \in SUBSET ObjectType
  PROVE  /\ Updated(h, z, zn, L) \in HeapType
         /\ Updated(h, z, zn, L).brk = h.brk /\ Updated(h, z, zn, L).live = L
         /\ Updated(h, z, zn, L).zone[z] = zn
         /\ \A y \in ZoneIds \ {z} : Updated(h, z, zn, L).zone[y] = h.zone[y]
<1> DEFINE g == [h EXCEPT !.zone[z] = zn, !.live = L]
<1>0. h.zone \in [ZoneIds -> ZoneType] /\ h.brk \in Nat /\ h.live \subseteq ObjectType
  BY DEF HeapType
<1>1. g.brk = h.brk /\ g.live = L /\ g.zone = [h.zone EXCEPT ![z] = zn]
  BY DEF HeapType
<1>2. g.zone[z] = zn /\ \A y \in ZoneIds \ {z} : g.zone[y] = h.zone[y]
  BY <1>1 DEF HeapType
<1>3. g \in HeapType BY <1>0 DEF HeapType
<1> QED BY <1>1, <1>2, <1>3 DEF Updated

\* A zone that gets a fresh block, and keeps what it has of its old blocks.
LEMMA FreshBlockGood ==
  ASSUME NEW h, HeapInv(h), NEW z \in ZoneIds, NEW zn \in ZoneType, NEW n \in Nat,
         zn.base = h.brk, zn.size = n, zn.offset = 0,
         zn.memories \subseteq Blocks(h.zone[z]), n = 0 => zn.memories = {},
         \A o \in h.live : o.zone = z => zn.state # "none" /\ Lies(o, zn)
  PROVE  HeapInv(Grown(h, z, zn, n))
<1> DEFINE g == Grown(h, z, zn, n)
<1> USE ZonesAssumption
<1>1. h \in HeapType BY DEF HeapInv, ZonesGood
<1>2. /\ g \in HeapType /\ g.brk = h.brk + Round(n) /\ g.live = h.live
      /\ g.zone[z] = zn /\ \A y \in ZoneIds \ {z} : g.zone[y] = h.zone[y]
  BY <1>1, GrownHeap
<1> HIDE DEF g
<1>3. \A w \in ZoneIds : \A b \in Blocks(h.zone[w]) : b \in BlockType /\ End(b) <= h.brk
  BY <1>1 DEF HeapInv, ZonesGood, ZoneGood, HeapType, ZoneType, BlockType, Blocks
<1>4. Blocks(zn) = {Newest(zn)} \cup zn.memories BY DEF Blocks, Newest
<1>5. Newest(zn).base = h.brk /\ Newest(zn).size = n BY DEF Newest
<1>6. h.brk \in Nat /\ Round(n) \in Nat /\ n <= Round(n) BY <1>1, RoundUp DEF HeapType
<1>10. \A b \in BlockType : b.base \in Nat /\ End(b) \in Nat /\ b.base <= End(b)
  BY RoundUp DEF BlockType, End
<1>11. End(Newest(zn)) = h.brk + Round(n) BY <1>5 DEF End
<1>7. ZonesGood(g)
  <2>1. Aligned(0) /\ 0 <= Round(n) BY <1>6, RoundZero
  <2>2. Newest(zn) \notin zn.memories BY <1>3, <1>6, <1>11
  <2>3. \A b \in Blocks(zn) : End(b) <= h.brk + Round(n)
    BY <1>3, <1>4, <1>6, <1>10, <1>11
  <2>4. ZoneGood(zn, g.brk) BY <2>1, <2>2, <2>3, <1>2 DEF ZoneGood
  <2>5. ASSUME NEW y \in ZoneIds \ {z} PROVE ZoneGood(h.zone[y], g.brk)
    <3>1. ZoneGood(h.zone[y], h.brk) BY DEF HeapInv, ZonesGood
    <3>2. \A b \in Blocks(h.zone[y]) : End(b) <= h.brk + Round(n)
      BY <1>3, <1>6, <1>10
    <3> QED BY <3>1, <3>2, <1>2 DEF ZoneGood
  <2> QED BY <1>2, <2>4, <2>5 DEF ZonesGood
<1>8. BlocksApart(g)
  <2> SUFFICES ASSUME NEW x \in ZoneIds, NEW y \in ZoneIds,
                      NEW b \in Blocks(g.zone[x]), NEW c \in Blocks(g.zone[y]),
                      x # y \/ b # c
               PROVE  Sep(b, c)
    BY DEF BlocksApart
  <2>1. \/ x = z /\ b = Newest(zn)
        \/ b \in Blocks(h.zone[x])
    BY <1>2, <1>4
  <2>2. \/ y = z /\ c = Newest(zn)
        \/ c \in Blocks(h.zone[y])
    BY <1>2, <1>4
  <2>3. CASE b \in Blocks(h.zone[x]) /\ c \in Blocks(h.zone[y])
    BY <2>3 DEF HeapInv, BlocksApart
  <2>4. CASE b \in Blocks(h.zone[x]) /\ c = Newest(zn) BY <2>4, <1>3, <1>5, <1>10 DEF Sep
  <2>5. CASE b = Newest(zn) /\ c \in Blocks(h.zone[y]) BY <2>5, <1>3, <1>5, <1>10 DEF Sep
  <2>6. CASE (x = z /\ b = Newest(zn)) /\ (y = z /\ c = Newest(zn)) BY <2>6
  <2> QED BY <2>1, <2>2, <2>3, <2>4, <2>5, <2>6
<1>9. ObjectsGood(g)
  <2>1. \A o \in h.live : o.zone \in ZoneIds BY <1>1 DEF HeapType, ObjectType
  <2>2. ASSUME NEW o \in h.live PROVE Used(g, o.zone) /\ o.len >= Align /\ Lies(o, g.zone[o.zone])
    BY <2>1, <1>2 DEF HeapInv, ObjectsGood, Used
  <2> QED BY <2>2, <1>2 DEF HeapInv, ObjectsGood
<1> QED BY <1>7, <1>8, <1>9 DEF HeapInv, g

\* A zone whose blocks do not change, or are given up, and whose objects do.
LEMMA SameBlocksGood ==
  ASSUME NEW h, HeapInv(h), NEW z \in ZoneIds, NEW zn \in ZoneType, NEW L \in SUBSET ObjectType,
         Aligned(zn.offset), zn.offset <= Round(zn.size),
         \/ Newest(zn) = Newest(h.zone[z]) /\ zn.memories = h.zone[z].memories
         \/ zn.base = 0 /\ zn.size = 0 /\ zn.memories = {},
         \A o \in L : o.zone # z => o \in h.live,
         \A o \in L : o.zone = z => zn.state # "none" /\ o.len >= Align /\ Lies(o, zn),
         \A o, p \in L : o # p => Apart(o, p)
  PROVE  HeapInv(Updated(h, z, zn, L))
<1> DEFINE g == Updated(h, z, zn, L)
<1> USE ZonesAssumption
<1>1. h \in HeapType BY DEF HeapInv, ZonesGood
<1>2. /\ g \in HeapType /\ g.brk = h.brk /\ g.live = L
      /\ g.zone[z] = zn /\ \A y \in ZoneIds \ {z} : g.zone[y] = h.zone[y]
  BY <1>1, UpdatedHeap
<1> HIDE DEF g
<1>3. \A w \in ZoneIds : \A b \in Blocks(h.zone[w]) : b \in BlockType /\ End(b) <= h.brk
  BY <1>1 DEF HeapInv, ZonesGood, ZoneGood, HeapType, ZoneType, BlockType, Blocks
<1>4. \A y : Blocks(y) = {Newest(y)} \cup y.memories BY DEF Blocks, Newest
<1>5. Newest(zn).base = zn.base /\ Newest(zn).size = zn.size BY DEF Newest
<1>6. h.brk \in Nat BY <1>1 DEF HeapType
<1>12. \A b \in BlockType : b.base \in Nat BY DEF BlockType
<1>13. \A b : b.base = 0 /\ b.size = 0 => End(b) = 0 BY RoundZero DEF End
<1>7. \A y \in ZoneIds : ZoneGood(h.zone[y], h.brk) BY DEF HeapInv, ZonesGood
<1>8. \/ Blocks(zn) = Blocks(h.zone[z])
      \/ Blocks(zn) = {Newest(zn)} /\ zn.base = 0 /\ zn.size = 0
  BY <1>4
<1>9. ZonesGood(g)
  <2>1. Newest(zn) \notin zn.memories BY <1>7 DEF ZoneGood
  <2>2. \A b \in Blocks(zn) : End(b) <= h.brk
    BY <1>3, <1>5, <1>6, <1>8, <1>13
  <2>3. ZoneGood(zn, g.brk) BY <2>1, <2>2, <1>2 DEF ZoneGood
  <2> QED BY <1>2, <1>7, <2>3 DEF ZonesGood
<1>10. BlocksApart(g)
  <2> SUFFICES ASSUME NEW x \in ZoneIds, NEW y \in ZoneIds,
                      NEW b \in Blocks(g.zone[x]), NEW c \in Blocks(g.zone[y]),
                      x # y \/ b # c
               PROVE  Sep(b, c)
    BY DEF BlocksApart
  <2>1. b \in Blocks(h.zone[x]) \/ (x = z /\ b = Newest(zn) /\ b.base = 0 /\ b.size = 0)
    BY <1>2, <1>5, <1>8
  <2>2. c \in Blocks(h.zone[y]) \/ (y = z /\ c = Newest(zn) /\ c.base = 0 /\ c.size = 0)
    BY <1>2, <1>5, <1>8
  <2>3. CASE b \in Blocks(h.zone[x]) /\ c \in Blocks(h.zone[y])
    BY <2>3 DEF HeapInv, BlocksApart
  <2>4. CASE b \in Blocks(h.zone[x]) /\ c.base = 0 /\ c.size = 0
    BY <2>4, <1>3, <1>12, <1>13 DEF Sep
  <2>5. CASE c \in Blocks(h.zone[y]) /\ b.base = 0 /\ b.size = 0
    BY <2>5, <1>3, <1>12, <1>13 DEF Sep
  <2> QED BY <2>1, <2>2, <2>3, <2>4, <2>5
<1>11. ObjectsGood(g)
  <2>1. \A o \in L : o.zone \in ZoneIds BY DEF ObjectType
  <2>2. ASSUME NEW o \in L PROVE Used(g, o.zone) /\ o.len >= Align /\ Lies(o, g.zone[o.zone])
    BY <2>1, <1>2 DEF HeapInv, ObjectsGood, Used
  <2> QED BY <2>2, <1>2 DEF ObjectsGood
<1> QED BY <1>9, <1>10, <1>11 DEF HeapInv, g

\* llvm_zone_create keeps the invariant.
LEMMA CreateGood ==
  ASSUME NEW h, HeapInv(h), NEW z \in ZoneIds, ~ Used(h, z), NEW size \in Nat
  PROVE  Keeps(h, Create(h, z, size)) /\ Used(Create(h, z, size), z)
<1> DEFINE zn == NewZone(h.brk, size)
<1>1. h \in HeapType BY DEF HeapInv, ZonesGood
<1>2. zn \in ZoneType /\ zn.state = "open" /\ zn.base = h.brk /\ zn.size = size
      /\ zn.offset = 0 /\ zn.memories = {}
  BY <1>1 DEF HeapType, ZoneType, NoZone, NewZone
<1>3. Create(h, z, size) = Grown(h, z, zn, size) BY DEF Create
<1> HIDE DEF zn
<1>4. \A o \in h.live : o.zone # z BY DEF HeapInv, ObjectsGood
<1>5. HeapInv(Grown(h, z, zn, size)) BY <1>2, <1>4, FreshBlockGood
<1>6. /\ Grown(h, z, zn, size).zone[z] = zn
      /\ \A y \in ZoneIds \ {z} : Grown(h, z, zn, size).zone[y] = h.zone[y]
  BY <1>1, <1>2, GrownHeap
<1> QED BY <1>2, <1>3, <1>5, <1>6 DEF Used, Keeps

\* When a request does not fit, the zone moves to a larger block, in which it
\* fits; the objects stay in the block that is now old.
LEMMA MakeRoomGood ==
  ASSUME NEW h, HeapInv(h), NEW z \in ZoneIds, Used(h, z), NEW r \in Requests
  PROVE  /\ Keeps(h, MakeRoom(h, z, r))
         /\ Fits(MakeRoom(h, z, r).zone[z], r)
<1> DEFINE zone == h.zone[z]
           n == ExtendedSize(zone, r)
           zn == Extended(zone, r, h.brk)
           g == Grown(h, z, zn, n)
<1> USE ZonesAssumption
<1>1. CASE Fits(zone, r) BY <1>1 DEF MakeRoom, Keeps
<1>2. CASE ~ Fits(zone, r)
  <2>1. h \in HeapType /\ zone \in ZoneType /\ ZoneGood(zone, h.brk)
    BY DEF HeapInv, ZonesGood, HeapType
  <2>2. n \in Nat /\ r + Align < n BY <2>1, ExtendedSizeGood
  <2>3. h.brk \in Nat BY <2>1 DEF HeapType
  <2>4. /\ zn \in ZoneType /\ zn.base = h.brk /\ zn.size = n /\ zn.offset = 0
        /\ zn.state = zone.state
        /\ zn.memories = IF zone.size = 0 THEN zone.memories
                         ELSE zone.memories \cup {Newest(zone)}
    <3> DEFINE M == IF zone.size = 0 THEN zone.memories ELSE zone.memories \cup {Newest(zone)}
    <3>1. zn = [zone EXCEPT !.base = h.brk, !.offset = 0, !.size = n, !.memories = M]
      BY DEF Extended, Newest
    <3>2. M \in SUBSET BlockType BY <2>1 DEF ZoneType, BlockType, Newest
    <3> HIDE DEF M, zn, n, zone
    <3>3. zn \in ZoneType BY <3>1, <3>2, <2>1, <2>2, <2>3 DEF ZoneType
    <3>4. /\ zn.base = h.brk /\ zn.size = n /\ zn.offset = 0
          /\ zn.state = zone.state /\ zn.memories = M
      BY <3>1, <2>1 DEF ZoneType
    <3> QED BY <3>3, <3>4 DEF M
  <2>5. zn.memories \subseteq Blocks(zone) BY <2>4 DEF Blocks, Newest
  <2>6. ASSUME NEW o \in h.live, o.zone = z PROVE zn.state # "none" /\ Lies(o, zn)
    <3>1. zn.state # "none" BY <2>4 DEF Used
    <3>2. Lies(o, zone) BY <2>6 DEF HeapInv, ObjectsGood
    <3>3. o.at \in Nat /\ o.len \in Nat /\ o.req \in Nat BY <2>1 DEF HeapType, ObjectType
    <3>4. CASE InNewest(o, zone)
      <4>1. zone.size # 0 /\ InOld(o, Newest(zone))
        BY <3>3, <3>4, <2>1, RoundUp DEF InNewest, InOld, Within, End, Newest, ZoneType, ZoneGood
      <4> QED BY <4>1, <3>1, <2>4 DEF Lies
    <3>5. CASE \E b \in zone.memories : InOld(o, b) BY <3>1, <3>5, <2>4 DEF Lies
    <3> QED BY <3>2, <3>4, <3>5 DEF Lies
  <2> HIDE DEF zn, n, zone
  <2>7. HeapInv(g)
    <3>1. zn.memories \subseteq Blocks(h.zone[z]) BY <2>5 DEF zone
    <3>2. n # 0 BY <2>2
    <3> QED BY <2>2, <2>4, <2>6, <3>1, <3>2, FreshBlockGood
  <2>8. g.zone[z] = zn /\ \A y \in ZoneIds \ {z} : g.zone[y] = h.zone[y]
    BY <2>1, <2>2, <2>4, GrownHeap
  <2>9. Fits(zn, r) BY <2>2, <2>4 DEF Fits
  <2>10. MakeRoom(h, z, r) = g BY <1>2 DEF MakeRoom, zn, n, zone
  <2>11. zn.state = h.zone[z].state BY <2>4 DEF zone
  <2> QED BY <2>7, <2>8, <2>9, <2>10, <2>11 DEF Keeps, Used
<1> QED BY <1>1, <1>2

\* The size rounded up still fits the block and its padding: the offset is a
\* multiple of the alignment, and so is the end of the padding.
LEMMA PlaceGood ==
  ASSUME NEW h, HeapInv(h), NEW z \in ZoneIds, Used(h, z), NEW r \in Requests,
         Fits(h.zone[z], r)
  PROVE  Keeps(h, Place(h, z, r)) /\ ObjectAt(h, z, r) \in ObjectType
<1> DEFINE zone == h.zone[z]
           o == ObjectAt(h, z, r)
           len == Round(r + Align)
           zn == [zone EXCEPT !.offset = @ + len]
           L == h.live \cup {o}
<1> USE ZonesAssumption
<1>1. h \in HeapType /\ zone \in ZoneType /\ ZoneGood(zone, h.brk)
  BY DEF HeapInv, ZonesGood, HeapType
<1>2. r \in Nat BY ZonesAssumption
<1>3. len \in Nat /\ r + Align <= len /\ len < r + Align + Align /\ Aligned(len)
  BY <1>2, RoundUp
<1> HIDE DEF len
<1>4. zone.base \in Nat /\ zone.offset \in Nat /\ zone.size \in Nat BY <1>1 DEF ZoneType
<1>5. o.zone = z /\ o.at = zone.base + zone.offset /\ o.len = len /\ o.req = r
  BY DEF ObjectAt, len
<1>6. o \in ObjectType BY <1>3, <1>4 DEF ObjectAt, ObjectType, len
<1>7. /\ zn \in ZoneType /\ zn.base = zone.base /\ zn.size = zone.size
      /\ zn.offset = zone.offset + len /\ zn.state = zone.state
      /\ zn.memories = zone.memories
  BY <1>1, <1>3, <1>4 DEF ZoneType
<1> HIDE DEF zn, o
<1>8. Aligned(zn.offset) BY <1>1, <1>3, <1>4, <1>7, AlignedAdd DEF ZoneGood
<1>9. Round(zn.size) \in Nat /\ zn.offset <= Round(zn.size)
  <2>1. Round(zn.size) \in Nat /\ zn.size <= Round(zn.size) /\ Aligned(Round(zn.size))
    BY <1>4, <1>7, RoundUp
  <2>2. zn.offset < Round(zn.size) + Align BY <2>1, <1>2, <1>3, <1>4, <1>7 DEF Fits
  <2>3. zn.offset \in Nat BY <1>3, <1>4, <1>7
  <2> HIDE DEF len
  <2> QED BY <2>1, <2>2, <2>3, <1>8, AlignedLess
<1>10. o.len >= Align /\ InNewest(o, zn)
  BY <1>2, <1>3, <1>4, <1>5, <1>7 DEF InNewest, Fits
<1>11. ASSUME NEW p \in h.live, p.zone = z PROVE p.len >= Align /\ Lies(p, zn)
  <2>1. p.len >= Align /\ Lies(p, zone) BY <1>11 DEF HeapInv, ObjectsGood
  <2>2. p.at \in Nat /\ p.len \in Nat /\ p.req \in Nat BY <1>1 DEF HeapType, ObjectType
  <2>3. CASE InNewest(p, zone)
    <3>1. InNewest(p, zn) BY <2>2, <2>3, <1>3, <1>4, <1>7 DEF InNewest
    <3> QED BY <2>1, <3>1 DEF Lies
  <2>4. CASE \E b \in zone.memories : InOld(p, b) BY <2>1, <2>4, <1>7 DEF Lies
  <2> QED BY <2>1, <2>3, <2>4 DEF Lies
<1>12. ASSUME NEW p \in h.live PROVE Apart(o, p)
  <2>1. p.zone \in ZoneIds /\ p.at \in Nat /\ p.len \in Nat BY <1>1 DEF HeapType, ObjectType
  <2>2. Lies(p, h.zone[p.zone]) BY DEF HeapInv, ObjectsGood
  <2>3. /\ Newest(zone).base = zone.base /\ Newest(zone).size = zone.size
        /\ Newest(zone) \in Blocks(zone)
        /\ End(Newest(zone)) = zone.base + Round(zn.size)
    BY <1>7 DEF Newest, Blocks, End
  <2>8. \A b \in BlockType : b.base \in Nat /\ End(b) \in Nat BY RoundUp DEF BlockType, End
  <2>4. ASSUME NEW b \in BlockType, Sep(b, Newest(zone)), Within(p, b) PROVE Apart(o, p)
    BY <2>1, <2>3, <2>4, <2>8, <1>3, <1>4, <1>5, <1>7, <1>9 DEF Sep, Within, Apart
  <2>5. ASSUME NEW b \in h.zone[p.zone].memories, InOld(p, b) PROVE Apart(o, p)
    <3>1. b \in Blocks(h.zone[p.zone]) /\ b \in BlockType
      BY <2>1, <1>1 DEF Blocks, HeapType, ZoneType
    <3>2. p.zone # z \/ b # Newest(zone) BY <2>5, <1>1 DEF ZoneGood
    <3>3. Sep(b, Newest(zone)) BY <2>1, <2>3, <3>1, <3>2 DEF HeapInv, BlocksApart
    <3> QED BY <2>4, <2>5, <3>1, <3>3 DEF InOld
  <2>6. CASE InNewest(p, h.zone[p.zone]) /\ p.zone = z
    BY <2>1, <2>6, <1>3, <1>4, <1>5 DEF InNewest, Apart
  <2>7. CASE InNewest(p, h.zone[p.zone]) /\ p.zone # z
    <3> DEFINE c == Newest(h.zone[p.zone])
    <3>1. h.zone[p.zone] \in ZoneType /\ ZoneGood(h.zone[p.zone], h.brk)
      BY <2>1, <1>1 DEF HeapType, HeapInv, ZonesGood
    <3>2. c \in Blocks(h.zone[p.zone]) /\ c \in BlockType
      BY <3>1 DEF Blocks, ZoneType, BlockType, Newest
    <3>3. Within(p, c)
      BY <2>1, <2>7, <3>1, RoundUp DEF InNewest, Within, End, ZoneGood, ZoneType, Newest
    <3> HIDE DEF c
    <3>4. Sep(c, Newest(zone)) BY <2>1, <2>3, <2>7, <3>2 DEF HeapInv, BlocksApart
    <3> QED BY <2>4, <3>2, <3>3, <3>4
  <2> QED BY <2>2, <2>5, <2>6, <2>7 DEF Lies
<1>13. \A p, q \in L : p # q => Apart(p, q)
  BY <1>12 DEF Apart, HeapInv, ObjectsGood
<1>14. L \in SUBSET ObjectType BY <1>1, <1>6 DEF HeapType
<1>15. Newest(zn) = Newest(h.zone[z]) /\ zn.memories = h.zone[z].memories
  BY <1>7 DEF Newest
<1>16. \A p \in L : p.zone = z => zn.state # "none" /\ p.len >= Align /\ Lies(p, zn)
  BY <1>7, <1>10, <1>11 DEF Lies, Used
<1>17. \A p \in L : p.zone # z => p \in h.live BY <1>5
<1> HIDE DEF L, zone
<1>18. HeapInv(Updated(h, z, zn, L))
  BY <1>7, <1>8, <1>9, <1>13, <1>14, <1>15, <1>16, <1>17, SameBlocksGood
<1>19. /\ Updated(h, z, zn, L).zone[z] = zn
       /\ \A y \in ZoneIds \ {z} : Updated(h, z, zn, L).zone[y] = h.zone[y]
  BY <1>1, <1>7, <1>14, UpdatedHeap
<1>20. Place(h, z, r) = Updated(h, z, zn, L) BY DEF Place, zn, L, zone, o, len
<1> QED BY <1>6, <1>7, <1>18, <1>19, <1>20 DEF Keeps, Used, zone, o

\* llvm_zone_malloc keeps the invariant and gives an object.
LEMMA MallocGood ==
  ASSUME NEW h, HeapInv(h), NEW z \in ZoneIds, Used(h, z), NEW r \in Requests
  PROVE  Keeps(h, Malloc(h, z, r)) /\ NewObject(h, z, r) \in ObjectType
<1> DEFINE g == MakeRoom(h, z, r)
<1>1. Keeps(h, g) /\ Fits(g.zone[z], r) BY MakeRoomGood
<1> HIDE DEF g
<1>2. HeapInv(g) /\ Used(g, z) BY <1>1 DEF Keeps
<1>3. Keeps(g, Place(g, z, r)) /\ ObjectAt(g, z, r) \in ObjectType BY <1>1, <1>2, PlaceGood
<1>4. Malloc(h, z, r) = Place(g, z, r) /\ NewObject(h, z, r) = ObjectAt(g, z, r)
  BY DEF Malloc, NewObject, g
<1> QED BY <1>1, <1>3, <1>4 DEF Keeps

\* llvm_zone_mark and the list of hooks do not touch the blocks.
LEMMA FieldGood ==
  ASSUME NEW h, HeapInv(h), NEW z \in ZoneIds, NEW zn \in ZoneType,
         zn.base = h.zone[z].base, zn.size = h.zone[z].size, zn.offset = h.zone[z].offset,
         zn.memories = h.zone[z].memories, zn.state = h.zone[z].state
  PROVE  Keeps(h, Updated(h, z, zn, h.live))
<1>1. h \in HeapType /\ ZoneGood(h.zone[z], h.brk) BY DEF HeapInv, ZonesGood
<1>2. h.live \in SUBSET ObjectType BY <1>1 DEF HeapType
<1>3. Newest(zn) = Newest(h.zone[z]) BY DEF Newest
<1>4. Aligned(zn.offset) /\ zn.offset <= Round(zn.size) BY <1>1 DEF ZoneGood
<1>5. \A o \in h.live : o.zone = z => zn.state # "none" /\ o.len >= Align /\ Lies(o, zn)
  BY DEF HeapInv, ObjectsGood, Used, Lies, InNewest
<1>6. \A o, p \in h.live : o # p => Apart(o, p) BY DEF HeapInv, ObjectsGood
<1>7. HeapInv(Updated(h, z, zn, h.live)) BY <1>2, <1>3, <1>4, <1>5, <1>6, SameBlocksGood
<1>8. /\ Updated(h, z, zn, h.live).zone[z] = zn
      /\ \A y \in ZoneIds \ {z} : Updated(h, z, zn, h.live).zone[y] = h.zone[y]
  BY <1>1, <1>2, UpdatedHeap
<1> QED BY <1>7, <1>8 DEF Keeps, Used

\* llvm_zone_reset keeps the invariant.
LEMMA ResetGood ==
  ASSUME NEW h, HeapInv(h), NEW z \in ZoneIds
  PROVE  Keeps(h, Reset(h, z))
<1> DEFINE zn == [h.zone[z] EXCEPT !.offset = 0]
           L == h.live \ ObjectsOf(h, z)
<1>1. h \in HeapType /\ ZoneGood(h.zone[z], h.brk) /\ h.zone[z] \in ZoneType
  BY DEF HeapInv, ZonesGood, HeapType
<1>2. L \in SUBSET ObjectType BY <1>1 DEF HeapType
<1>3. /\ zn \in ZoneType /\ zn.base = h.zone[z].base /\ zn.size = h.zone[z].size
      /\ zn.offset = 0 /\ zn.memories = h.zone[z].memories /\ zn.state = h.zone[z].state
  BY <1>1 DEF ZoneType
<1>4. \A o \in L : o.zone # z /\ o \in h.live BY DEF ObjectsOf
<1>5. Reset(h, z) = Updated(h, z, zn, L) BY DEF Reset
<1> HIDE DEF zn, L
<1>6. Newest(zn) = Newest(h.zone[z]) BY <1>3 DEF Newest
<1>7. Aligned(zn.offset) /\ zn.offset <= Round(zn.size)
  BY <1>1, <1>3, RoundZero, RoundUp DEF ZoneType
<1>8. \A o, p \in L : o # p => Apart(o, p) BY <1>4 DEF HeapInv, ObjectsGood
<1>9. HeapInv(Updated(h, z, zn, L)) BY <1>2, <1>3, <1>4, <1>6, <1>7, <1>8, SameBlocksGood
<1>10. /\ Updated(h, z, zn, L).zone[z] = zn
       /\ \A y \in ZoneIds \ {z} : Updated(h, z, zn, L).zone[y] = h.zone[y]
  BY <1>1, <1>2, <1>3, UpdatedHeap
<1> QED BY <1>3, <1>5, <1>9, <1>10 DEF Keeps, Used

\* llvm_zone_destroy keeps the invariant.
LEMMA DestroyGood ==
  ASSUME NEW h, HeapInv(h), NEW z \in ZoneIds
  PROVE  Keeps(h, Destroy(h, z))
<1> DEFINE zn == [NoZone EXCEPT !.state = "gone"]
           L == h.live \ ObjectsOf(h, z)
<1>1. h \in HeapType BY DEF HeapInv, ZonesGood
<1>2. L \in SUBSET ObjectType BY <1>1 DEF HeapType
<1>3. /\ zn \in ZoneType /\ zn.base = 0 /\ zn.size = 0 /\ zn.offset = 0
      /\ zn.memories = {} /\ zn.state = "gone"
  BY DEF ZoneType, NoZone
<1>4. \A o \in L : o.zone # z /\ o \in h.live BY DEF ObjectsOf
<1>5. Destroy(h, z) = Updated(h, z, zn, L) BY DEF Destroy
<1> HIDE DEF zn, L
<1>6. Aligned(zn.offset) /\ zn.offset <= Round(zn.size) BY <1>3, RoundZero
<1>7. \A o, p \in L : o # p => Apart(o, p) BY <1>4 DEF HeapInv, ObjectsGood
<1>8. HeapInv(Updated(h, z, zn, L)) BY <1>2, <1>3, <1>4, <1>6, <1>7, SameBlocksGood
<1>9. /\ Updated(h, z, zn, L).zone[z] = zn
      /\ \A y \in ZoneIds \ {z} : Updated(h, z, zn, L).zone[y] = h.zone[y]
  BY <1>1, <1>2, <1>3, UpdatedHeap
<1> QED BY <1>3, <1>5, <1>8, <1>9 DEF Keeps, Used

\* zcopy of a pointer keeps the invariant and gives pointers to objects.
LEMMA ZCopyGood ==
  ASSUME NEW h, HeapInv(h), NEW from, NEW to \in ZoneIds, Used(h, to),
         NEW ptrs \in SUBSET ObjectType
  PROVE  Keeps(h, ZCopyHeap(h, ptrs, from, to)) /\ ZCopy(h, ptrs, from, to) \in SUBSET ObjectType
<1>1. CASE ZCopied(h, ptrs, from) = {} BY <1>1 DEF ZCopyHeap, ZCopy, Keeps
<1>2. CASE ZCopied(h, ptrs, from) # {}
  <2> DEFINE o == CHOOSE p \in ptrs : TRUE
  <2>1. \E p \in ptrs : TRUE BY <1>2 DEF ZCopied
  <2>2. o \in ptrs BY <2>1
  <2> HIDE DEF o
  <2>3. o.req \in Requests BY <2>2 DEF ObjectType
  <2>4. Keeps(h, Malloc(h, to, o.req)) /\ NewObject(h, to, o.req) \in ObjectType
    BY <2>3, MallocGood
  <2> QED BY <1>2, <2>4 DEF ZCopyHeap, ZCopy, o
<1> QED BY <1>1, <1>2

\* The three allocations of a closure keep the invariant.
LEMMA ClosureGood ==
  ASSUME NEW h, HeapInv(h), NEW z \in ZoneIds, Used(h, z), NEW rs \in ClosureShapes
  PROVE  Keeps(h, ClosureHeap(h, z, rs))
<1> DEFINE zn == [h.zone[z] EXCEPT !.mark = h.zone[z].offset]
           h0 == Updated(h, z, zn, h.live)
           h1 == Malloc(h0, z, rs[1])
           h2 == Malloc(h1, z, rs[2])
           h3 == Malloc(h2, z, rs[3])
<1>1. rs[1] \in Requests /\ rs[2] \in Requests /\ rs[3] \in Requests BY ZonesAssumption
<1>2. h \in HeapType /\ h.zone[z] \in ZoneType BY DEF HeapInv, ZonesGood, HeapType
<1>3. /\ zn \in ZoneType /\ zn.base = h.zone[z].base /\ zn.size = h.zone[z].size
      /\ zn.offset = h.zone[z].offset /\ zn.memories = h.zone[z].memories
      /\ zn.state = h.zone[z].state
  BY <1>2 DEF ZoneType
<1>4. ClosureHeap(h, z, rs) = h3 BY DEF ClosureHeap
<1> HIDE DEF zn
<1>5. Keeps(h, h0) BY <1>3, FieldGood
<1> HIDE DEF h0
<1>6. Keeps(h0, h1) BY <1>1, <1>5, MallocGood DEF Keeps
<1> HIDE DEF h1
<1>7. Keeps(h1, h2) BY <1>1, <1>5, <1>6, MallocGood DEF Keeps
<1> HIDE DEF h2
<1>8. Keeps(h2, h3) BY <1>1, <1>5, <1>6, <1>7, MallocGood DEF Keeps
<1> HIDE DEF h3
<1> QED BY <1>4, <1>5, <1>6, <1>7, <1>8 DEF Keeps

-----------------------------------------------------------------------------
(* The stacks. *)

Borrowed(s) == \E i \in DOMAIN s : s[i].kind = "borrowed"

StackGood(h, s) ==
    /\ s \in Seq(FrameType)
    /\ \A i \in DOMAIN s : Used(h, s[i].zone)
    /\ s # <<>> => s[Len(s)].kind # "memzone"

\* The zones of a stack stay in use.
LEMMA StackKept ==
  ASSUME NEW h, NEW g, Keeps(h, g), NEW s, StackGood(h, s)
  PROVE  StackGood(g, s)
<1>1. s \in Seq(FrameType) BY DEF StackGood
<1>2. \A i \in DOMAIN s : s[i] \in FrameType BY <1>1
<1>3. \A i \in DOMAIN s : s[i].zone \in ZoneIds BY <1>2 DEF FrameType
<1> QED BY <1>3 DEF StackGood, Keeps

\* The code on top may get other pointers.
LEMMA HeldGood ==
  ASSUME NEW h, NEW s, StackGood(h, s), s # <<>>, NEW H \in SUBSET ObjectType
  PROVE  LET s2 == [s EXCEPT ![1].held = H]
         IN  StackGood(h, s2) /\ (Borrowed(s2) => Borrowed(s))
<1> DEFINE s2 == [s EXCEPT ![1].held = H]
<1>1. s \in Seq(FrameType) /\ Len(s) \in Nat /\ Len(s) >= 1 /\ DOMAIN s = 1 .. Len(s)
  BY DEF StackGood
<1>2. s[1] \in FrameType BY <1>1
<1>3. [s[1] EXCEPT !.held = H] \in FrameType BY <1>2 DEF FrameType
<1>4. /\ [s[1] EXCEPT !.held = H].zone = s[1].zone
      /\ [s[1] EXCEPT !.held = H].kind = s[1].kind
  BY <1>2 DEF FrameType
<1>5. s2 \in Seq(FrameType) /\ Len(s2) = Len(s) /\ DOMAIN s2 = DOMAIN s
  BY <1>1, <1>3
<1>6. \A i \in DOMAIN s : s2[i].zone = s[i].zone /\ s2[i].kind = s[i].kind
  BY <1>1, <1>4
<1> HIDE DEF s2
<1>7. StackGood(h, s2) BY <1>1, <1>5, <1>6 DEF StackGood
<1>8. Borrowed(s2) => Borrowed(s) BY <1>5, <1>6 DEF Borrowed
<1> QED BY <1>7, <1>8 DEF s2

\* A push: no memzone is at the bottom.
LEMMA PushGood ==
  ASSUME NEW h, NEW s, StackGood(h, s), NEW f \in FrameType, Used(h, f.zone),
         s # <<>> \/ f.kind # "memzone"
  PROVE  /\ StackGood(h, <<f>> \o s)
         /\ f.kind # "borrowed" => (Borrowed(<<f>> \o s) => Borrowed(s))
<1> DEFINE s2 == <<f>> \o s
<1>1. s \in Seq(FrameType) /\ Len(s) \in Nat /\ DOMAIN s = 1 .. Len(s) BY DEF StackGood
<1>2. s2 \in Seq(FrameType) /\ Len(s2) = Len(s) + 1 /\ DOMAIN s2 = 1 .. Len(s) + 1
  BY <1>1
<1>3. s2[1] = f /\ \A i \in 2 .. Len(s) + 1 : s2[i] = s[i - 1] /\ i - 1 \in DOMAIN s
  BY <1>1
<1> HIDE DEF s2
<1>4. \A i \in DOMAIN s2 : i = 1 \/ i \in 2 .. Len(s) + 1 BY <1>1, <1>2
<1>5. \A i \in DOMAIN s2 : Used(h, s2[i].zone) BY <1>3, <1>4 DEF StackGood
<1>6. s2[Len(s2)].kind # "memzone"
  <2>1. CASE s = <<>> BY <2>1, <1>1, <1>2, <1>3
  <2>2. CASE s # <<>>
    <3>1. Len(s2) \in 2 .. Len(s) + 1 /\ Len(s2) - 1 = Len(s) BY <2>2, <1>1, <1>2
    <3> QED BY <2>2, <3>1, <1>3 DEF StackGood
  <2> QED BY <2>1, <2>2
<1>7. StackGood(h, s2) BY <1>2, <1>5, <1>6 DEF StackGood
<1>8. f.kind # "borrowed" => (Borrowed(s2) => Borrowed(s)) BY <1>3, <1>4 DEF Borrowed
<1> QED BY <1>7, <1>8 DEF s2

\* A pop.
LEMMA PopGood ==
  ASSUME NEW h, NEW s, StackGood(h, s), s # <<>>
  PROVE  StackGood(h, Tail(s)) /\ (Borrowed(Tail(s)) => Borrowed(s))
<1>1. s \in Seq(FrameType) /\ Len(s) \in Nat /\ Len(s) >= 1 /\ DOMAIN s = 1 .. Len(s)
  BY DEF StackGood
<1>2. Tail(s) \in Seq(FrameType) /\ Len(Tail(s)) = Len(s) - 1 /\ DOMAIN Tail(s) = 1 .. Len(s) - 1
  BY <1>1
<1>3. \A i \in DOMAIN Tail(s) : Tail(s)[i] = s[i + 1] /\ i + 1 \in DOMAIN s
  BY <1>1, <1>2
<1>4. \A i \in DOMAIN Tail(s) : Used(h, Tail(s)[i].zone) BY <1>3 DEF StackGood
<1>5. ASSUME Tail(s) # <<>> PROVE Tail(s)[Len(Tail(s))].kind # "memzone"
  <2>1. Len(Tail(s)) >= 1 BY <1>2, <1>5
  <2>2. Len(Tail(s)) \in DOMAIN Tail(s) BY <2>1, <1>1, <1>2
  <2>3. Tail(s)[Len(Tail(s))] = s[Len(s)] BY <2>2, <1>1, <1>2, <1>3
  <2> QED BY <2>3 DEF StackGood
<1>6. StackGood(h, Tail(s)) BY <1>2, <1>4, <1>5 DEF StackGood
<1>7. Borrowed(Tail(s)) => Borrowed(s) BY <1>3 DEF Borrowed
<1> QED BY <1>6, <1>7

-----------------------------------------------------------------------------
(* The inductive invariant of the specification. *)

FutureType == [state : {"none", "running", "finished", "joined"},
               zone : ZoneIds \cup {None}, res : SUBSET ObjectType]

StacksGood ==
    /\ stack \in [Threads \cup Workers -> Seq(FrameType)]
    /\ \A t \in Threads \cup Workers : StackGood(heap, stack[t])

CallbacksGood ==
    /\ callbacks \subseteq [zone : ZoneIds, arg : SUBSET ObjectType]
    /\ \A cb \in callbacks : Used(heap, cb.zone)

\* A thread on a borrowed zone has a future that waits for it, and a future
\* has a zone until it is joined.
FuturesGood ==
    /\ futures \in [Workers -> FutureType]
    /\ \A u \in Workers : Borrowed(stack[u]) => futures[u].state = "running"
    /\ \A u \in Workers : futures[u].state \in {"running", "finished"} => futures[u].zone \in ZoneIds

RestGood ==
    /\ pending \subseteq ZoneIds
    /\ varZone \in [Funcs -> ZoneIds \cup {None}]
    /\ closures \subseteq [sizes : ClosureShapes, size : Int]
    /\ allocs \in Nat

IInv ==
    /\ HeapInv(heap)
    /\ StacksGood
    /\ CallbacksGood
    /\ FuturesGood
    /\ RestGood

\* llvm_ptr_in_zone, of an object that is live.
LEMMA PtrExact ==
  ASSUME NEW h, HeapInv(h), NEW o \in h.live, NEW z \in ZoneIds
  PROVE  PtrInZone(h.zone[z], o) <=> z = o.zone
<1> USE ZonesAssumption
<1>1. h \in HeapType BY DEF HeapInv, ZonesGood
<1>2. o.zone \in ZoneIds /\ o.at \in Nat /\ o.len \in Nat /\ o.req \in Nat
  BY <1>1 DEF HeapType, ObjectType
<1>3. \A w \in ZoneIds : h.zone[w] \in ZoneType /\ ZoneGood(h.zone[w], h.brk)
  BY <1>1 DEF HeapType, HeapInv, ZonesGood
<1>4. PICK b \in Blocks(h.zone[o.zone]) :
          b \in BlockType /\ b.base <= o.at /\ o.at + Align < b.base + b.size
  <2>1. Lies(o, h.zone[o.zone]) BY DEF HeapInv, ObjectsGood
  <2>2. CASE InNewest(o, h.zone[o.zone])
    <3> DEFINE b == Newest(h.zone[o.zone])
    <3>1. b \in Blocks(h.zone[o.zone]) /\ b \in BlockType
      BY <1>2, <1>3 DEF Blocks, Newest, BlockType, ZoneType
    <3>2. b.base = h.zone[o.zone].base /\ b.size = h.zone[o.zone].size BY DEF Newest
    <3> HIDE DEF b
    <3>3. b.base <= o.at /\ o.at + Align < b.base + b.size
      BY <2>2, <3>2, <1>2, <1>3 DEF InNewest, ZoneType
    <3> QED BY <3>1, <3>3
  <2>3. CASE \E b \in h.zone[o.zone].memories : InOld(o, b)
    BY <2>3, <1>2, <1>3 DEF InOld, Within, Blocks, ZoneType, BlockType
  <2> QED BY <2>1, <2>2, <2>3 DEF Lies
<1>5. b.base <= o.at + Align BY <1>2, <1>4 DEF BlockType
<1>6. z = o.zone => PtrInZone(h.zone[z], o) BY <1>4, <1>5 DEF PtrInZone
<1>7. ASSUME PtrInZone(h.zone[z], o), z # o.zone PROVE FALSE
  <2>1. PICK c \in Blocks(h.zone[z]) : c.base <= o.at + Align /\ o.at + Align < c.base + c.size
    BY <1>7 DEF PtrInZone
  <2>2. Sep(b, c) BY <1>2, <1>4, <1>7, <2>1 DEF HeapInv, BlocksApart
  <2>3. c \in BlockType BY <2>1, <1>3 DEF Blocks, ZoneType, BlockType
  <2>4. b.base + b.size <= End(b) /\ c.base + c.size <= End(c)
    BY <2>3, <1>4, RoundUp DEF End, BlockType
  <2>5. End(b) \in Nat /\ End(c) \in Nat BY <2>3, <1>4, RoundUp DEF End, BlockType
  <2> QED BY <2>1, <2>2, <2>3, <2>4, <2>5, <1>2, <1>4, <1>5 DEF Sep, BlockType
<1> QED BY <1>6, <1>7

\* The invariant says all that the runs check of types, bounds and blocks.
LEMMA IInvImplies ==
  ASSUME IInv
  PROVE  TypeOK /\ InBounds /\ Disjoint /\ PtrInZoneExact
<1> USE ZonesAssumption
<1>1. heap \in HeapType BY DEF IInv, HeapInv, ZonesGood
<1>2. TypeOK BY <1>1 DEF IInv, StacksGood, CallbacksGood, FuturesGood, FutureType, RestGood, TypeOK
<1>3. \A o \in heap.live : o.zone \in ZoneIds /\ o.at \in Nat /\ o.len \in Nat /\ o.req \in Nat
  BY <1>1 DEF HeapType, ObjectType
<1>4. \A z \in ZoneIds : heap.zone[z] \in ZoneType /\ ZoneGood(heap.zone[z], heap.brk)
  BY <1>1 DEF HeapType, IInv, HeapInv, ZonesGood
<1>5. ASSUME NEW o \in heap.live
      PROVE  \E b \in Blocks(heap.zone[o.zone]) :
                b.base <= o.at /\ EndsBelow(o, b.base + b.size)
  <2>1. Lies(o, heap.zone[o.zone]) BY DEF IInv, HeapInv, ObjectsGood
  <2>2. CASE InNewest(o, heap.zone[o.zone])
    <3> DEFINE b == Newest(heap.zone[o.zone])
    <3>1. b \in Blocks(heap.zone[o.zone]) BY DEF Blocks, Newest
    <3>2. b.base = heap.zone[o.zone].base /\ b.size = heap.zone[o.zone].size BY DEF Newest
    <3> HIDE DEF b
    <3>3. b.base <= o.at /\ EndsBelow(o, b.base + b.size)
      BY <2>2, <3>2, <1>3, <1>4 DEF InNewest, EndsBelow, ZoneType
    <3> QED BY <3>1, <3>3
  <2>3. CASE \E b \in heap.zone[o.zone].memories : InOld(o, b)
    BY <2>3, <1>3, <1>4 DEF InOld, Within, EndsBelow, Blocks, ZoneType, BlockType
  <2> QED BY <2>1, <2>2, <2>3 DEF Lies
<1>6. InBounds BY <1>5 DEF InBounds
<1>7. Disjoint BY DEF IInv, HeapInv, ObjectsGood, Disjoint
<1>8. PtrInZoneExact BY PtrExact DEF IInv, PtrInZoneExact
<1> QED BY <1>2, <1>6, <1>7, <1>8

-----------------------------------------------------------------------------
(* Steps. *)

\* What is left to show of a step that replaces the stack of one thread and
\* no more than the futures of another.
LEMMA StackStep ==
  ASSUME IInv, Keeps(heap, heap'), NEW t \in Threads \cup Workers, NEW s,
         StackGood(heap', s), Borrowed(s) => Borrowed(stack[t]),
         stack' = [stack EXCEPT ![t] = s]
  PROVE  /\ StacksGood'
         /\ \A u \in Workers : Borrowed(stack'[u]) => futures[u].state = "running"
<1>1. stack' \in [Threads \cup Workers -> Seq(FrameType)] BY DEF IInv, StacksGood, StackGood
<1>2. \A v \in Threads \cup Workers : stack'[v] = IF v = t THEN s ELSE stack[v]
  BY DEF IInv, StacksGood
<1>3. \A v \in Threads \cup Workers : StackGood(heap', stack'[v])
  BY <1>2, StackKept DEF IInv, StacksGood
<1>4. \A u \in Workers : Borrowed(stack'[u]) => futures[u].state = "running"
  BY <1>2 DEF IInv, FuturesGood
<1> QED BY <1>1, <1>3, <1>4 DEF StacksGood

\* Callbacks that stay keep their zones.
LEMMA CallbacksKept ==
  ASSUME IInv, Keeps(heap, heap'), callbacks' \subseteq callbacks
  PROVE  CallbacksGood'
BY DEF IInv, CallbacksGood, Keeps

\* The stacks that do not change.
LEMMA StacksKept ==
  ASSUME IInv, Keeps(heap, heap'), UNCHANGED stack
  PROVE  StacksGood'
BY StackKept DEF IInv, StacksGood

\* The futures that do not change.
LEMMA FuturesKept ==
  ASSUME IInv, UNCHANGED futures,
         \A u \in Workers : Borrowed(stack'[u]) => futures[u].state = "running"
  PROVE  FuturesGood'
BY DEF IInv, FuturesGood

\* The code of a running thread has a zone in use and pointers to objects.
LEMMA TopGood ==
  ASSUME IInv, NEW t \in Threads \cup Workers, Running(t)
  PROVE  /\ StackGood(heap, stack[t]) /\ stack[t] # <<>>
         /\ Top(t) = stack[t][1] /\ Top(t) \in FrameType
         /\ Top(t).zone \in ZoneIds /\ Used(heap, Top(t).zone)
         /\ Top(t).held \in SUBSET ObjectType
         /\ AllHeld(t) \in SUBSET ObjectType
<1>1. StackGood(heap, stack[t]) /\ stack[t] # <<>> BY DEF IInv, StacksGood, Running
<1>2. stack[t] \in Seq(FrameType) /\ 1 \in DOMAIN stack[t] BY <1>1 DEF StackGood
<1>3. Top(t) = stack[t][1] BY DEF Top
<1>4. Top(t) \in FrameType BY <1>2, <1>3
<1>5. Used(heap, Top(t).zone) BY <1>1, <1>2, <1>3 DEF StackGood
<1>6. \A i \in DOMAIN stack[t] : stack[t][i] \in FrameType BY <1>2
<1>7. AllHeld(t) \in SUBSET ObjectType BY <1>6 DEF AllHeld, FrameType
<1> QED BY <1>1, <1>3, <1>4, <1>5, <1>7 DEF FrameType

\* At most one of some objects is still a set of objects.
LEMMA AtMostOneGood ==
  ASSUME NEW S \in SUBSET ObjectType, NEW x \in AtMostOne(S)
  PROVE  x \in SUBSET ObjectType
BY DEF AtMostOne

\* Zones are created with sizes that the assumption speaks of.
LEMMA FrameGood ==
  ASSUME NEW z \in ZoneIds, NEW H \in SUBSET ObjectType,
         NEW k \in {"default", "memzone", "callback", "borrowed", "ended"}
  PROVE  /\ Frame(z, k, H) \in FrameType
         /\ Frame(z, k, H).zone = z /\ Frame(z, k, H).kind = k
BY DEF Frame, FrameType

\* A stack of one frame.
LEMMA SingleGood ==
  ASSUME NEW h, NEW f \in FrameType, Used(h, f.zone), f.kind # "memzone"
  PROVE  StackGood(h, <<f>>) /\ (f.kind # "borrowed" => ~ Borrowed(<<f>>))
<1>1. <<f>> \in Seq(FrameType) /\ Len(<<f>>) = 1 /\ DOMAIN <<f>> = {1} /\ <<f>>[1] = f
  OBVIOUS
<1> QED BY <1>1 DEF StackGood, Borrowed

\* llvm_peek_zone_stack pushes a new zone on an empty stack.
LEMMA PeekEmptyStep ==
  ASSUME IInv, NEW t \in Threads \cup Workers, NEW z \in ZoneIds, PeekEmpty(t, z)
  PROVE  IInv'
<1> DEFINE f == Frame(z, "default", {})
<1>1. Keeps(heap, heap') /\ Used(heap', z)
  BY CreateGood, ZonesAssumption DEF PeekEmpty, IInv, Fresh, Used
<1>2. f \in FrameType /\ f.zone = z /\ f.kind = "default" BY FrameGood
<1> HIDE DEF f
<1>3. StackGood(heap', <<f>>) /\ ~ Borrowed(<<f>>) BY <1>1, <1>2, SingleGood
<1>4. stack' = [stack EXCEPT ![t] = <<f>>] BY DEF PeekEmpty, f
<1>5. StacksGood' /\ \A u \in Workers : Borrowed(stack'[u]) => futures[u].state = "running"
  BY <1>1, <1>3, <1>4, StackStep
<1>6. CallbacksGood' BY <1>1, CallbacksKept DEF PeekEmpty
<1>7. FuturesGood' /\ RestGood' BY <1>5 DEF PeekEmpty, IInv, FuturesGood, RestGood
<1> QED BY <1>1, <1>5, <1>6, <1>7 DEF IInv, Keeps

\* llvm_zone_malloc keeps the objects of a zone apart.
LEMMA AllocStep ==
  ASSUME IInv, NEW t \in Threads \cup Workers, NEW r \in Requests, Alloc(t, r)
  PROVE  IInv'
<1> DEFINE H == stack[t][1].held \cup {NewObject(heap, Top(t).zone, r)}
           s == [stack[t] EXCEPT ![1].held = H]
<1>1. Running(t) BY DEF Alloc
<1>2. Keeps(heap, heap') /\ NewObject(heap, Top(t).zone, r) \in ObjectType
  BY <1>1, TopGood, MallocGood DEF Alloc, IInv
<1>3. H \in SUBSET ObjectType BY <1>1, <1>2, TopGood
<1>4. stack' = [stack EXCEPT ![t] = s] BY DEF Alloc
<1> HIDE DEF H
<1>5. StackGood(heap', stack[t]) BY <1>1, <1>2, TopGood, StackKept
<1>6. StackGood(heap', s) /\ (Borrowed(s) => Borrowed(stack[t]))
  BY <1>1, <1>3, <1>5, TopGood, HeldGood
<1> HIDE DEF s
<1>7. StacksGood' /\ \A u \in Workers : Borrowed(stack'[u]) => futures[u].state = "running"
  BY <1>2, <1>4, <1>6, StackStep
<1>8. CallbacksGood' BY <1>2, CallbacksKept DEF Alloc
<1>9. FuturesGood' BY <1>7, FuturesKept DEF Alloc
<1>10. RestGood' BY DEF Alloc, IInv, RestGood
<1> QED BY <1>2, <1>7, <1>8, <1>9, <1>10 DEF IInv, Keeps

\* What llvm_zone_ptr_set_size writes is a number.
LEMMA ClosureTyped ==
  ASSUME NEW h, HeapInv(h), NEW z \in ZoneIds, Used(h, z), NEW rs \in ClosureShapes
  PROVE  [sizes |-> rs, size |-> ClosureSize(h, z, rs)] \in [sizes : ClosureShapes, size : Int]
<1>1. ClosureHeap(h, z, rs) \in HeapType /\ h \in HeapType
  BY ClosureGood DEF Keeps, HeapInv, ZonesGood
<1>2. ClosureHeap(h, z, rs).zone[z].offset \in Nat /\ h.zone[z].offset \in Nat
  BY <1>1 DEF HeapType, ZoneType
<1>3. ClosureSize(h, z, rs) \in Int BY <1>2 DEF ClosureSize
<1> QED BY <1>3

\* The three objects of a closure are kept apart as any others.
LEMMA MakeClosureStep ==
  ASSUME IInv, NEW t \in Threads \cup Workers, NEW rs \in ClosureShapes, MakeClosure(t, rs)
  PROVE  IInv'
<1> DEFINE H == stack[t][1].held \cup {NewObject(heap, Top(t).zone, rs[1])}
           s == [stack[t] EXCEPT ![1].held = H]
           c == [sizes |-> rs, size |-> ClosureSize(heap, Top(t).zone, rs)]
<1>1. Running(t) BY DEF MakeClosure
<1>2. Keeps(heap, heap') BY <1>1, TopGood, ClosureGood DEF MakeClosure, IInv
<1>3. rs[1] \in Requests BY ZonesAssumption
<1>4. NewObject(heap, Top(t).zone, rs[1]) \in ObjectType BY <1>1, <1>3, TopGood, MallocGood DEF IInv
<1>5. H \in SUBSET ObjectType BY <1>1, <1>4, TopGood
<1>6. stack' = [stack EXCEPT ![t] = s] BY DEF MakeClosure
<1>7. c \in [sizes : ClosureShapes, size : Int] BY <1>1, TopGood, ClosureTyped DEF IInv
<1>8. closures' = closures \cup {c} BY DEF MakeClosure
<1> HIDE DEF H, c
<1>9. StackGood(heap', stack[t]) BY <1>1, <1>2, TopGood, StackKept
<1>10. StackGood(heap', s) /\ (Borrowed(s) => Borrowed(stack[t]))
  BY <1>1, <1>5, <1>9, TopGood, HeldGood
<1> HIDE DEF s
<1>11. StacksGood' /\ \A u \in Workers : Borrowed(stack'[u]) => futures[u].state = "running"
  BY <1>2, <1>6, <1>10, StackStep
<1>12. CallbacksGood' BY <1>2, CallbacksKept DEF MakeClosure
<1>13. FuturesGood' BY <1>11, FuturesKept DEF MakeClosure
<1>14. RestGood' BY <1>7, <1>8 DEF MakeClosure, IInv, RestGood
<1> QED BY <1>2, <1>11, <1>12, <1>13, <1>14 DEF IInv, Keeps

\* zone_cleanup allocates its hook in the zone on top.
LEMMA ZoneCleanupStep ==
  ASSUME IInv, NEW t \in Threads \cup Workers, NEW r \in Requests, ZoneCleanup(t, r)
  PROVE  IInv'
<1> DEFINE z == Top(t).zone
           hook == NewObject(heap, z, r)
           h == Malloc(heap, z, r)
           zn == [h.zone[z] EXCEPT !.hooks = @ \cup {hook}]
<1>1. Running(t) BY DEF ZoneCleanup
<1>2. z \in ZoneIds /\ Keeps(heap, h) /\ hook \in ObjectType BY <1>1, TopGood, MallocGood DEF IInv
<1>3. heap' = Updated(h, z, zn, h.live) BY DEF ZoneCleanup
<1> HIDE DEF h, hook, z
<1>4. h.zone[z] \in ZoneType BY <1>2 DEF Keeps, HeapInv, ZonesGood, HeapType
<1>5. /\ zn \in ZoneType /\ zn.base = h.zone[z].base /\ zn.size = h.zone[z].size
      /\ zn.offset = h.zone[z].offset /\ zn.memories = h.zone[z].memories
      /\ zn.state = h.zone[z].state
  BY <1>2, <1>4 DEF ZoneType
<1> HIDE DEF zn
<1>6. Keeps(h, heap') BY <1>2, <1>3, <1>5, FieldGood DEF Keeps
<1>7. Keeps(heap, heap') BY <1>2, <1>6 DEF Keeps
<1>8. StacksGood' BY <1>7, StacksKept DEF ZoneCleanup
<1>9. CallbacksGood' BY <1>7, CallbacksKept DEF ZoneCleanup
<1>10. FuturesGood' BY DEF ZoneCleanup, IInv, FuturesGood
<1>11. RestGood' BY DEF ZoneCleanup, IInv, RestGood
<1> QED BY <1>7, <1>8, <1>9, <1>10, <1>11 DEF IInv, Keeps

\* reset_zone frees the objects of the zone and all blocks but one.
LEMMA ResetZoneStep ==
  ASSUME IInv, NEW t \in Threads \cup Workers, ResetZone(t)
  PROVE  IInv'
<1> DEFINE H == {o \in stack[t][1].held : o.zone # Top(t).zone}
           s == [stack[t] EXCEPT ![1].held = H]
<1>1. Running(t) BY DEF ResetZone
<1>2. Keeps(heap, heap') BY <1>1, TopGood, ResetGood DEF ResetZone, IInv
<1>3. H \in SUBSET ObjectType BY <1>1, TopGood
<1>4. stack' = [stack EXCEPT ![t] = s] BY DEF ResetZone
<1> HIDE DEF H
<1>5. StackGood(heap', stack[t]) BY <1>1, <1>2, TopGood, StackKept
<1>6. StackGood(heap', s) /\ (Borrowed(s) => Borrowed(stack[t]))
  BY <1>1, <1>3, <1>5, TopGood, HeldGood
<1> HIDE DEF s
<1>7. StacksGood' /\ \A u \in Workers : Borrowed(stack'[u]) => futures[u].state = "running"
  BY <1>2, <1>4, <1>6, StackStep
<1>8. CallbacksGood' BY <1>2, CallbacksKept DEF ResetZone
<1>9. FuturesGood' BY <1>7, FuturesKept DEF ResetZone
<1>10. RestGood' BY DEF ResetZone, IInv, RestGood
<1> QED BY <1>2, <1>7, <1>8, <1>9, <1>10 DEF IInv, Keeps

\* memzone and letz push a new zone.
LEMMA BeginMemzoneStep ==
  ASSUME IInv, NEW t \in Threads \cup Workers, NEW z \in ZoneIds, NEW n \in ZoneSizes,
         BeginMemzone(t, z, n)
  PROVE  IInv'
<1> DEFINE f == Frame(z, "memzone", {})
           s == <<f>> \o stack[t]
<1>1. Keeps(heap, heap') /\ Used(heap', z)
  BY CreateGood, ZonesAssumption DEF BeginMemzone, IInv, Fresh, Used
<1>2. f \in FrameType /\ f.zone = z /\ f.kind = "memzone" BY FrameGood
<1>3. stack' = [stack EXCEPT ![t] = s] BY DEF BeginMemzone
<1> HIDE DEF f
<1>4. Running(t) BY DEF BeginMemzone
<1>5. StackGood(heap', stack[t]) BY <1>1, <1>4, TopGood, StackKept
<1>6. StackGood(heap', s) /\ (Borrowed(s) => Borrowed(stack[t]))
  BY <1>1, <1>2, <1>4, <1>5, TopGood, PushGood
<1> HIDE DEF s
<1>7. StacksGood' /\ \A u \in Workers : Borrowed(stack'[u]) => futures[u].state = "running"
  BY <1>1, <1>3, <1>6, StackStep
<1>8. CallbacksGood' BY <1>1, CallbacksKept DEF BeginMemzone
<1>9. FuturesGood' BY <1>7, FuturesKept DEF BeginMemzone
<1>10. RestGood' BY DEF BeginMemzone, IInv, RestGood
<1> QED BY <1>1, <1>7, <1>8, <1>9, <1>10 DEF IInv, Keeps

\* The end of memzone copies the result below and destroys the zone, or delays it.
LEMMA EndMemzoneStep ==
  ASSUME IInv, NEW t \in Threads \cup Workers, NEW res \in AtMostOne(AllHeld(t)),
         NEW delayed \in BOOLEAN, EndMemzone(t, res, delayed)
  PROVE  IInv'
<1> DEFINE z == Top(t).zone
           below == stack[t][2]
           h == ZCopyHeap(heap, res, z, below.zone)
           C == ZCopy(heap, res, z, below.zone)
           T == Tail(stack[t])
           H == T[1].held \cup C
           s == [T EXCEPT ![1].held = H]
<1>1. Running(t) /\ Top(t).kind = "memzone" BY DEF EndMemzone
<1>2. /\ StackGood(heap, stack[t]) /\ stack[t] # <<>> /\ z \in ZoneIds /\ Top(t) = stack[t][1]
      /\ res \in SUBSET ObjectType
  BY <1>1, TopGood, AtMostOneGood
<1>3. stack[t] \in Seq(FrameType) /\ Len(stack[t]) \in Nat /\ Len(stack[t]) >= 2
  BY <1>1, <1>2 DEF StackGood
<1>4. T # <<>> /\ T[1] = below /\ below \in FrameType /\ 2 \in DOMAIN stack[t]
  <2>1. 2 \in DOMAIN stack[t] /\ below \in FrameType BY <1>3
  <2>2. T \in Seq(FrameType) /\ Len(T) = Len(stack[t]) - 1 BY <1>3
  <2>3. T[1] = below
    <3>1. 1 \in 1 .. Len(stack[t]) - 1 BY <1>3
    <3>2. \A i \in 1 .. Len(stack[t]) - 1 : Tail(stack[t])[i] = stack[t][i + 1] BY <1>3
    <3>3. Tail(stack[t])[1] = stack[t][1 + 1] /\ 1 + 1 = 2 BY <3>1, <3>2
    <3> HIDE DEF T
    <3>4. T = Tail(stack[t]) BY DEF T
    <3> QED BY <3>3, <3>4, Zenon
  <2>4. T # <<>>
    <3> HIDE DEF T
    <3> QED BY <2>2, <1>3
  <2> QED BY <2>1, <2>3, <2>4
<1>5. Used(heap, below.zone) /\ below.zone \in ZoneIds BY <1>2, <1>4 DEF StackGood, FrameType
<1>6. StackGood(heap, T) /\ (Borrowed(T) => Borrowed(stack[t])) BY <1>2, PopGood
<1>7. stack' = [stack EXCEPT ![t] = s] BY DEF EndMemzone
<1>8. heap' = (IF delayed THEN h ELSE Destroy(h, z)) BY DEF EndMemzone
<1>9. pending' = (IF delayed THEN pending \cup {z} ELSE pending) BY DEF EndMemzone
<1>10. Keeps(heap, h) /\ C \in SUBSET ObjectType BY <1>2, <1>5, ZCopyGood DEF IInv
<1> HIDE DEF z, below, h, C, T
<1>11. H \in SUBSET ObjectType BY <1>4, <1>10 DEF FrameType
<1>12. Keeps(heap, heap')
  <2>1. Keeps(h, Destroy(h, z)) BY <1>2, <1>10, DestroyGood DEF Keeps
  <2> QED BY <2>1, <1>8, <1>10 DEF Keeps
<1>13. StackGood(heap', T) BY <1>6, <1>12, StackKept
<1> HIDE DEF H
<1>14. StackGood(heap', s) /\ (Borrowed(s) => Borrowed(T)) BY <1>4, <1>11, <1>13, HeldGood
<1> HIDE DEF s
<1>15. StacksGood' /\ \A u \in Workers : Borrowed(stack'[u]) => futures[u].state = "running"
  BY <1>6, <1>7, <1>12, <1>14, StackStep
<1>16. CallbacksGood' BY <1>12, CallbacksKept DEF EndMemzone
<1>17. FuturesGood' BY <1>15, FuturesKept DEF EndMemzone
<1>18. RestGood' BY <1>2, <1>9 DEF EndMemzone, IInv, RestGood
<1> QED BY <1>12, <1>15, <1>16, <1>17, <1>18 DEF IInv, Keeps

\* callback creates a zone and copies its argument there.
LEMMA ScheduleStep ==
  ASSUME IInv, NEW t \in Threads \cup Workers, NEW z \in ZoneIds,
         NEW arg \in AtMostOne(AllHeld(t)), Schedule(t, z, arg)
  PROVE  IInv'
<1> DEFINE made == Create(heap, z, CallSize)
           C == ZCopy(made, arg, Top(t).zone, z)
           cb == [zone |-> z, arg |-> C]
<1>1. Running(t) /\ arg \in SUBSET ObjectType BY TopGood, AtMostOneGood DEF Schedule
<1>2. Keeps(heap, made) /\ Used(made, z)
  BY CreateGood, ZonesAssumption DEF Schedule, IInv, Fresh, Used
<1>3. heap' = ZCopyHeap(made, arg, Top(t).zone, z) /\ callbacks' = callbacks \cup {cb}
  BY DEF Schedule
<1> HIDE DEF made
<1>4. Keeps(made, heap') /\ C \in SUBSET ObjectType BY <1>1, <1>2, <1>3, ZCopyGood DEF Keeps
<1>5. Keeps(heap, heap') /\ Used(heap', z) BY <1>2, <1>4 DEF Keeps
<1> HIDE DEF C
<1>6. cb \in [zone : ZoneIds, arg : SUBSET ObjectType] /\ cb.zone = z BY <1>4
<1> HIDE DEF cb
<1>7. CallbacksGood' BY <1>3, <1>5, <1>6 DEF IInv, CallbacksGood, Keeps
<1>8. StacksGood' BY <1>5, StacksKept DEF Schedule
<1>9. FuturesGood' BY DEF Schedule, IInv, FuturesGood
<1>10. RestGood' BY DEF Schedule, IInv, RestGood
<1> QED BY <1>5, <1>7, <1>8, <1>9, <1>10 DEF IInv, Keeps

\* The zone of a call is pushed.
LEMMA RunCallbackStep ==
  ASSUME IInv, NEW t \in Threads \cup Workers, NEW cb \in callbacks, RunCallback(t, cb)
  PROVE  IInv'
<1> DEFINE f == Frame(cb.zone, "callback", cb.arg)
           s == <<f>> \o stack[t]
<1>1. heap' = heap /\ Keeps(heap, heap') BY DEF RunCallback, IInv, Keeps
<1>2. cb.zone \in ZoneIds /\ cb.arg \in SUBSET ObjectType /\ Used(heap', cb.zone)
  BY <1>1 DEF IInv, CallbacksGood
<1>3. f \in FrameType /\ f.zone = cb.zone /\ f.kind = "callback" BY <1>2, FrameGood
<1>4. stack' = [stack EXCEPT ![t] = s] BY DEF RunCallback
<1> HIDE DEF f
<1>5. StackGood(heap', stack[t]) BY <1>1 DEF IInv, StacksGood
<1>6. StackGood(heap', s) /\ (Borrowed(s) => Borrowed(stack[t]))
  BY <1>2, <1>3, <1>5, PushGood
<1> HIDE DEF s
<1>7. StacksGood' /\ \A u \in Workers : Borrowed(stack'[u]) => futures[u].state = "running"
  BY <1>1, <1>4, <1>6, StackStep
<1>8. CallbacksGood' BY <1>1, CallbacksKept DEF RunCallback
<1>9. FuturesGood' BY <1>7, FuturesKept DEF RunCallback
<1>10. RestGood' BY DEF RunCallback, IInv, RestGood
<1> QED BY <1>1, <1>7, <1>8, <1>9, <1>10 DEF IInv, Keeps

\* The zone of a call is popped and destroyed.
LEMMA EndCallbackStep ==
  ASSUME IInv, NEW t \in Threads \cup Workers, EndCallback(t)
  PROVE  IInv'
<1> DEFINE s == Tail(stack[t])
<1>1. Running(t) BY DEF EndCallback
<1>2. Keeps(heap, heap') BY <1>1, TopGood, DestroyGood DEF EndCallback, IInv
<1>3. stack' = [stack EXCEPT ![t] = s] BY DEF EndCallback
<1>4. StackGood(heap', stack[t]) /\ stack[t] # <<>> BY <1>1, <1>2, TopGood, StackKept
<1>5. StackGood(heap', s) /\ (Borrowed(s) => Borrowed(stack[t])) BY <1>4, PopGood
<1> HIDE DEF s
<1>6. StacksGood' /\ \A u \in Workers : Borrowed(stack'[u]) => futures[u].state = "running"
  BY <1>2, <1>3, <1>5, StackStep
<1>7. CallbacksGood' BY <1>2, CallbacksKept DEF EndCallback
<1>8. FuturesGood' BY <1>6, FuturesKept DEF EndCallback
<1>9. RestGood' BY DEF EndCallback, IInv, RestGood
<1> QED BY <1>2, <1>6, <1>7, <1>8, <1>9 DEF IInv, Keeps

\* bind-func makes its closure in a new zone.
LEMMA RebindStep ==
  ASSUME IInv, NEW t \in Threads \cup Workers, NEW f \in Funcs, NEW z \in ZoneIds,
         NEW n \in ZoneSizes, NEW rs \in ClosureShapes, Rebind(t, f, z, n, rs)
  PROVE  IInv'
<1> DEFINE made == Create(heap, z, n)
           c == [sizes |-> rs, size |-> ClosureSize(made, z, rs)]
<1>1. Keeps(heap, made) /\ Used(made, z)
  BY CreateGood, ZonesAssumption DEF Rebind, IInv, Fresh, Used
<1>2. heap' = ClosureHeap(made, z, rs) /\ closures' = closures \cup {c} BY DEF Rebind
<1> HIDE DEF made
<1>3. Keeps(made, heap') BY <1>1, <1>2, ClosureGood DEF Keeps
<1>4. Keeps(heap, heap') BY <1>1, <1>3 DEF Keeps
<1>5. c \in [sizes : ClosureShapes, size : Int] BY <1>1, ClosureTyped DEF Keeps
<1> HIDE DEF c
<1>6. StacksGood' BY <1>4, StacksKept DEF Rebind
<1>7. CallbacksGood' BY <1>4, CallbacksKept DEF Rebind
<1>8. FuturesGood' BY DEF Rebind, IInv, FuturesGood
<1>9. RestGood'
  <2>1. RestGood /\ varZone[f] \in ZoneIds \cup {None} BY DEF IInv, RestGood
  <2>2. varZone' \in [Funcs -> ZoneIds \cup {None}] BY <2>1 DEF Rebind, RestGood
  <2>3. pending' \subseteq ZoneIds BY <2>1 DEF Rebind, RestGood
  <2>4. closures' \subseteq [sizes : ClosureShapes, size : Int] BY <2>1, <1>2, <1>5 DEF RestGood
  <2>5. allocs' \in Nat BY <2>1 DEF Rebind, RestGood
  <2> QED BY <2>2, <2>3, <2>4, <2>5 DEF RestGood
<1> QED BY <1>4, <1>6, <1>7, <1>8, <1>9 DEF IInv, Keeps

\* The task of llvm_destroy_zone_after_delay destroys its zone.
LEMMA DestroyDelayedStep ==
  ASSUME IInv, NEW z \in ZoneIds, DestroyDelayed(z)
  PROVE  IInv'
<1>1. Keeps(heap, heap') BY DestroyGood DEF DestroyDelayed, IInv
<1>2. StacksGood' BY <1>1, StacksKept DEF DestroyDelayed
<1>3. CallbacksGood' BY <1>1, CallbacksKept DEF DestroyDelayed
<1>4. FuturesGood' BY DEF DestroyDelayed, IInv, FuturesGood
<1>5. RestGood' BY DEF DestroyDelayed, IInv, RestGood
<1> QED BY <1>1, <1>2, <1>3, <1>4, <1>5 DEF IInv, Keeps

\* async makes the closure of a thread in a new zone.
LEMMA ForkStep ==
  ASSUME IInv, NEW t \in Threads \cup Workers, NEW u \in Workers, NEW z \in ZoneIds,
         NEW rs \in ClosureShapes, Fork(t, u, z, rs)
  PROVE  IInv'
<1> DEFINE made == Create(heap, z, CallSize)
           c == [sizes |-> rs, size |-> ClosureSize(made, z, rs)]
           f == Frame(z, "borrowed", {})
           d == [state |-> "running", zone |-> z, res |-> {}]
<1>1. Keeps(heap, made) /\ Used(made, z)
  BY CreateGood, ZonesAssumption DEF Fork, IInv, Fresh, Used
<1>2. /\ heap' = ClosureHeap(made, z, rs) /\ closures' = closures \cup {c}
      /\ stack' = [stack EXCEPT ![u] = <<f>>]
      /\ futures' = [futures EXCEPT ![u] = d]
  BY DEF Fork
<1> HIDE DEF made
<1>3. Keeps(made, heap') BY <1>1, <1>2, ClosureGood DEF Keeps
<1>4. Keeps(heap, heap') /\ Used(heap', z) BY <1>1, <1>3 DEF Keeps
<1>5. c \in [sizes : ClosureShapes, size : Int] BY <1>1, ClosureTyped DEF Keeps
<1>6. f \in FrameType /\ f.zone = z /\ f.kind = "borrowed" BY FrameGood
<1>7. d \in FutureType /\ d.state = "running" /\ d.zone = z BY DEF FutureType
<1> HIDE DEF c, f, d
<1>8. StackGood(heap', <<f>>) BY <1>4, <1>6, SingleGood
<1>9. \A v \in Threads \cup Workers : stack'[v] = IF v = u THEN <<f>> ELSE stack[v]
  BY <1>2 DEF IInv, StacksGood
<1>10. StacksGood'
  <2>1. stack' \in [Threads \cup Workers -> Seq(FrameType)]
    BY <1>2, <1>8 DEF IInv, StacksGood, StackGood
  <2>2. \A v \in Threads \cup Workers : StackGood(heap', stack'[v])
    BY <1>4, <1>8, <1>9, StackKept DEF IInv, StacksGood
  <2> QED BY <2>1, <2>2 DEF StacksGood
<1>11. CallbacksGood' BY <1>4, CallbacksKept DEF Fork
<1>12. FuturesGood'
  <2>1. futures' \in [Workers -> FutureType] BY <1>2, <1>7 DEF IInv, FuturesGood
  <2>2. \A v \in Workers : futures'[v] = IF v = u THEN d ELSE futures[v]
    BY <1>2 DEF IInv, FuturesGood
  <2> QED BY <2>1, <2>2, <1>7, <1>9 DEF IInv, FuturesGood
<1>13. RestGood'
  <2>1. closures' \subseteq [sizes : ClosureShapes, size : Int]
    BY <1>2, <1>5 DEF IInv, RestGood
  <2> QED BY <2>1 DEF Fork, IInv, RestGood
<1> QED BY <1>4, <1>10, <1>11, <1>12, <1>13 DEF IInv, Keeps

\* The last pop_zone of a thread creates a default zone.
LEMMA WorkerEndStep ==
  ASSUME IInv, NEW u \in Threads \cup Workers, NEW z \in ZoneIds,
         NEW res \in AtMostOne(AllHeld(u)), WorkerEnd(u, z, res)
  PROVE  IInv'
<1> DEFINE f == Frame(z, "ended", {})
<1>1. Running(u) /\ Top(u).kind = "borrowed" BY DEF WorkerEnd
<1>2. res \in SUBSET ObjectType BY <1>1, TopGood, AtMostOneGood
<1>3. Keeps(heap, heap') /\ Used(heap', z)
  BY CreateGood, ZonesAssumption DEF WorkerEnd, IInv, Fresh, Used
<1>4. f \in FrameType /\ f.zone = z /\ f.kind = "ended" BY FrameGood
<1>5. stack' = [stack EXCEPT ![u] = <<f>>] BY DEF WorkerEnd
<1> HIDE DEF f
<1>6. StackGood(heap', <<f>>) /\ ~ Borrowed(<<f>>) BY <1>3, <1>4, SingleGood
<1>7. StacksGood' /\ \A v \in Workers : Borrowed(stack'[v]) => futures[v].state = "running"
  BY <1>3, <1>5, <1>6, StackStep
<1>8. CallbacksGood' BY <1>3, CallbacksKept DEF WorkerEnd
<1>9. FuturesGood'
  <2>1. futures \in [Workers -> FutureType] BY DEF IInv, FuturesGood
  <2>2. CASE u \notin Workers
    <3>1. futures' = futures BY <2>1, <2>2 DEF WorkerEnd
    <3> QED BY <3>1, <1>7, FuturesKept
  <2>3. CASE u \in Workers
    <3> DEFINE d == [futures[u] EXCEPT !.state = "finished", !.res = res]
    <3>1. futures[u] \in FutureType BY <2>1, <2>3
    <3>2. d \in FutureType /\ d.state = "finished" /\ d.zone = futures[u].zone
      BY <1>2, <3>1 DEF FutureType
    <3>3. futures' = [futures EXCEPT ![u] = d] BY DEF WorkerEnd
    <3> HIDE DEF d
    <3>4. futures' \in [Workers -> FutureType] BY <2>1, <3>2, <3>3
    <3>5. \A v \in Workers : futures'[v] = IF v = u THEN d ELSE futures[v] BY <2>1, <3>3
    <3>6. Borrowed(stack[u])
      <4>1. stack[u] # <<>> /\ stack[u] \in Seq(FrameType) /\ Top(u) = stack[u][1]
        BY <1>1, TopGood DEF StackGood
      <4>2. 1 \in DOMAIN stack[u] BY <4>1
      <4> QED BY <4>1, <4>2, <1>1 DEF Borrowed
    <3>7. futures[u].state = "running" /\ futures[u].zone \in ZoneIds
      BY <2>3, <3>6 DEF IInv, FuturesGood
    <3>8. stack'[u] = <<f>> BY <1>5 DEF IInv, StacksGood
    <3> QED BY <3>2, <3>4, <3>5, <3>7, <3>8, <1>6, <1>7 DEF IInv, FuturesGood
  <2> QED BY <2>2, <2>3
<1>10. RestGood' BY DEF WorkerEnd, IInv, RestGood
<1> QED BY <1>3, <1>7, <1>8, <1>9, <1>10 DEF IInv, Keeps

\* A future is copied and its zone destroyed.
LEMMA JoinStep ==
  ASSUME IInv, NEW t \in Threads \cup Workers, NEW u \in Workers, Join(t, u)
  PROVE  IInv'
<1> DEFINE z == futures[u].zone
           res == futures[u].res
           h == ZCopyHeap(heap, res, z, Top(t).zone)
           C == ZCopy(heap, res, z, Top(t).zone)
           H == stack[t][1].held \cup C
           s == [stack[t] EXCEPT ![1].held = H]
           d == [state |-> "joined", zone |-> None, res |-> {}]
<1>1. Running(t) /\ futures[u].state = "finished" BY DEF Join
<1>2. z \in ZoneIds /\ res \in SUBSET ObjectType BY <1>1 DEF IInv, FuturesGood, FutureType
<1>3. /\ heap' = Destroy(h, z) /\ stack' = [stack EXCEPT ![t] = s]
      /\ futures' = [futures EXCEPT ![u] = d]
  BY DEF Join
<1> HIDE DEF z, res
<1>4. Keeps(heap, h) /\ C \in SUBSET ObjectType BY <1>1, <1>2, TopGood, ZCopyGood DEF IInv
<1> HIDE DEF h, C
<1>5. Keeps(h, heap') BY <1>2, <1>3, <1>4, DestroyGood DEF Keeps
<1>6. Keeps(heap, heap') BY <1>4, <1>5 DEF Keeps
<1>7. H \in SUBSET ObjectType BY <1>1, <1>4, TopGood
<1> HIDE DEF H
<1>8. StackGood(heap', stack[t]) BY <1>1, <1>6, TopGood, StackKept
<1>9. StackGood(heap', s) /\ (Borrowed(s) => Borrowed(stack[t]))
  BY <1>1, <1>7, <1>8, TopGood, HeldGood
<1> HIDE DEF s
<1>10. StacksGood' /\ \A v \in Workers : Borrowed(stack'[v]) => futures[v].state = "running"
  BY <1>3, <1>6, <1>9, StackStep
<1>11. CallbacksGood' BY <1>6, CallbacksKept DEF Join
<1>12. d \in FutureType /\ d.state = "joined" BY DEF FutureType
<1> HIDE DEF d
<1>13. FuturesGood'
  <2>1. futures' \in [Workers -> FutureType] BY <1>3, <1>12 DEF IInv, FuturesGood
  <2>2. \A v \in Workers : futures'[v] = IF v = u THEN d ELSE futures[v]
    BY <1>3 DEF IInv, FuturesGood
  <2> QED BY <2>1, <2>2, <1>1, <1>10, <1>12 DEF IInv, FuturesGood
<1>14. RestGood' BY DEF Join, IInv, RestGood
<1> QED BY <1>6, <1>10, <1>11, <1>13, <1>14 DEF IInv, Keeps

-----------------------------------------------------------------------------
(* The theorem. *)

\* No zone has been created.
LEMMA InitGood == Init => IInv
<1> SUFFICES ASSUME Init PROVE IInv OBVIOUS
<1> USE ZonesAssumption
<1>1. NoZone \in ZoneType /\ NoZone.base = 0 /\ NoZone.size = 0 /\ NoZone.offset = 0
      /\ NoZone.memories = {}
  BY DEF NoZone, ZoneType
<1>2. /\ heap.zone = [z \in ZoneIds |-> NoZone] /\ heap.brk = 0 /\ heap.live = {}
      /\ heap \in HeapType
  BY <1>1 DEF Init, HeapType
<1>3. Blocks(NoZone) = {Newest(NoZone)} /\ Newest(NoZone).base = 0 /\ Newest(NoZone).size = 0
  BY <1>1 DEF Blocks, Newest
<1>4. End(Newest(NoZone)) = 0 BY <1>3, RoundZero DEF End
<1>5. ZonesGood(heap) BY <1>1, <1>2, <1>3, <1>4, RoundZero DEF ZonesGood, ZoneGood
<1>6. BlocksApart(heap) BY <1>2, <1>3, <1>4 DEF BlocksApart, Sep
<1>7. ObjectsGood(heap) BY <1>2 DEF ObjectsGood
<1>8. HeapInv(heap) BY <1>5, <1>6, <1>7 DEF HeapInv
<1>9. <<>> \in Seq(FrameType) /\ DOMAIN <<>> = {} OBVIOUS
<1>10. StacksGood BY <1>9 DEF Init, StacksGood, StackGood
<1>11. CallbacksGood BY DEF Init, CallbacksGood
<1>12. FuturesGood
  <2>1. [state |-> "none", zone |-> None, res |-> {}] \in FutureType BY DEF FutureType
  <2> QED BY <2>1, <1>9 DEF Init, FuturesGood, Borrowed
<1>13. RestGood BY DEF Init, RestGood
<1> QED BY <1>8, <1>10, <1>11, <1>12, <1>13 DEF IInv

\* Nothing happens when nothing changes.
LEMMA StutterGood == IInv /\ UNCHANGED vars => IInv'
BY DEF IInv, vars, StacksGood, CallbacksGood, FuturesGood, RestGood

\* Every operation keeps the objects in their zones and apart.
LEMMA NextGood == IInv /\ [Next]_vars => IInv'
<1> SUFFICES ASSUME IInv, [Next]_vars PROVE IInv' OBVIOUS
<1>1. CASE UNCHANGED vars BY <1>1, StutterGood
<1>2. ASSUME NEW z \in ZoneIds, DestroyDelayed(z) PROVE IInv' BY <1>2, DestroyDelayedStep
<1>3. ASSUME NEW t \in Threads \cup Workers, Compiled(t) PROVE IInv'
  <2>1. CASE \E z \in ZoneIds : PeekEmpty(t, z) BY <2>1, PeekEmptyStep
  <2>2. CASE \E r \in Requests : Alloc(t, r) BY <2>2, AllocStep
  <2>3. CASE \E r \in Requests : ZoneCleanup(t, r) BY <2>3, ZoneCleanupStep
  <2>4. CASE \E rs \in ClosureShapes : MakeClosure(t, rs) BY <2>4, MakeClosureStep
  <2>5. CASE ResetZone(t) BY <2>5, ResetZoneStep
  <2>6. CASE \E z \in ZoneIds, s \in ZoneSizes : BeginMemzone(t, z, s) BY <2>6, BeginMemzoneStep
  <2>7. CASE \E res \in AtMostOne(AllHeld(t)), delayed \in BOOLEAN : EndMemzone(t, res, delayed)
    BY <2>7, EndMemzoneStep
  <2>8. CASE \E z \in ZoneIds, arg \in AtMostOne(AllHeld(t)) : Schedule(t, z, arg)
    BY <2>8, ScheduleStep
  <2>9. CASE \E cb \in callbacks : RunCallback(t, cb) BY <2>9, RunCallbackStep
  <2>10. CASE EndCallback(t) BY <2>10, EndCallbackStep
  <2>11. CASE \E f \in Funcs, z \in ZoneIds, s \in ZoneSizes, rs \in ClosureShapes :
                 Rebind(t, f, z, s, rs)
    BY <2>11, RebindStep
  <2>12. CASE \E u \in Workers, z \in ZoneIds, rs \in ClosureShapes : Fork(t, u, z, rs)
    BY <2>12, ForkStep
  <2>13. CASE \E z \in ZoneIds, res \in AtMostOne(AllHeld(t)) : WorkerEnd(t, z, res)
    BY <2>13, WorkerEndStep
  <2>14. CASE \E u \in Workers : Join(t, u) BY <2>14, JoinStep
  <2> QED BY <1>3, <2>1, <2>2, <2>3, <2>4, <2>5, <2>6, <2>7, <2>8, <2>9, <2>10, <2>11, <2>12,
             <2>13, <2>14 DEF Compiled
<1> QED BY <1>1, <1>2, <1>3 DEF Next

\* The invariant of the proofs holds of every behaviour of the zones.
THEOREM ZonesInvariance == Spec => []IInv
BY InitGood, NextGood, PTL DEF Spec

\* The zones, the stacks and what the compiler's code keeps have their types.
THEOREM ZonesTyped == Spec => []TypeOK
<1>1. IInv => TypeOK BY IInvImplies
<1> QED BY <1>1, ZonesInvariance, PTL

\* What llvm_zone_malloc hands out lies in blocks of its zone, for all sizes
\* that the assumption allows and any number of zones, threads and requests.
THEOREM ZonesInBounds == Spec => []InBounds
<1>1. IInv => InBounds BY IInvImplies
<1> QED BY <1>1, ZonesInvariance, PTL

\* No two objects that llvm_zone_malloc handed out overlap.
THEOREM ZonesDisjoint == Spec => []Disjoint
<1>1. IInv => Disjoint BY IInvImplies
<1> QED BY <1>1, ZonesInvariance, PTL

\* llvm_ptr_in_zone is exact, also after zones were extended.
THEOREM ZonesPtrInZone == Spec => []PtrInZoneExact
<1>1. IInv => PtrInZoneExact BY IInvImplies
<1> QED BY <1>1, ZonesInvariance, PTL

-----------------------------------------------------------------------------
(* The sizes of closures: what allocation changes in a zone. *)

\* What the extension of a zone changes.
LEMMA MakeRoomEffect ==
  ASSUME NEW h, HeapInv(h), NEW z \in ZoneIds, Used(h, z), NEW r \in Requests
  PROVE  LET g == MakeRoom(h, z, r)
             old == h.zone[z]
             new == g.zone[z]
         IN  /\ g.live = h.live
             /\ \A w \in ZoneIds \ {z} : g.zone[w] = h.zone[w]
             /\ new.state = old.state /\ new.hooks = old.hooks
             /\ new.base >= old.base
             /\ new.base = old.base => new.offset = old.offset
<1> DEFINE zone == h.zone[z]
           n == ExtendedSize(zone, r)
           zn == Extended(zone, r, h.brk)
<1>1. h \in HeapType /\ zone \in ZoneType /\ ZoneGood(zone, h.brk) /\ h.brk \in Nat
  BY DEF HeapInv, ZonesGood, HeapType
<1>2. CASE Fits(zone, r)
  <2>1. MakeRoom(h, z, r) = h BY <1>2 DEF MakeRoom
  <2>2. zone.base \in Nat BY <1>1 DEF ZoneType
  <2> QED BY <2>1, <2>2
<1>3. CASE ~ Fits(zone, r)
  <2>1. n \in Nat BY <1>1, ExtendedSizeGood DEF ZoneGood
  <2> DEFINE M == IF zone.size = 0 THEN zone.memories ELSE zone.memories \cup {Newest(zone)}
  <2>2. zn = [zone EXCEPT !.base = h.brk, !.offset = 0, !.size = n, !.memories = M]
    BY DEF Extended, Newest
  <2>3. M \in SUBSET BlockType BY <1>1 DEF ZoneType, BlockType, Newest
  <2>4. MakeRoom(h, z, r) = Grown(h, z, zn, n) BY <1>3 DEF MakeRoom
  <2> HIDE DEF M, n, zn, zone
  <2>5. zn \in ZoneType BY <2>1, <2>2, <2>3, <1>1 DEF ZoneType
  <2>6. /\ zn.base = h.brk /\ zn.offset = 0 /\ zn.state = zone.state
        /\ zn.hooks = zone.hooks
    BY <2>2, <1>1 DEF ZoneType
  <2>7. /\ Grown(h, z, zn, n).live = h.live /\ Grown(h, z, zn, n).zone[z] = zn
        /\ \A w \in ZoneIds \ {z} : Grown(h, z, zn, n).zone[w] = h.zone[w]
    BY <1>1, <2>1, <2>5, GrownHeap
  <2>8. zone.base \in Nat /\ zone.size \in Nat /\ zone.offset \in Nat BY <1>1 DEF ZoneType
  <2>9. zone.base + Round(zone.size) <= h.brk
    <3>1. Newest(zone) \in Blocks(zone) BY DEF Newest, Blocks
    <3>2. End(Newest(zone)) <= h.brk BY <3>1, <1>1 DEF ZoneGood
    <3> QED BY <3>2 DEF Newest, End
  <2>10. zone.offset <= Round(zone.size) /\ Round(zone.size) \in Nat
    BY <1>1, <2>8, RoundUp DEF ZoneGood
  <2>11. zn.base >= zone.base /\ (zn.base = zone.base => zn.offset = zone.offset)
    BY <2>6, <2>8, <2>9, <2>10, <1>1
  <2> QED BY <2>4, <2>6, <2>7, <2>11 DEF zone
<1> QED BY <1>2, <1>3

\* What llvm_zone_malloc changes: a zone that stays in its block has its
\* offset moved by the rounded size.
LEMMA MallocEffect ==
  ASSUME NEW h, HeapInv(h), NEW z \in ZoneIds, Used(h, z), NEW r \in Requests
  PROVE  LET g == Malloc(h, z, r)
             old == h.zone[z]
             new == g.zone[z]
         IN  /\ g.live = h.live \cup {NewObject(h, z, r)} /\ NewObject(h, z, r).zone = z
             /\ \A w \in ZoneIds \ {z} : g.zone[w] = h.zone[w]
             /\ new.state = old.state /\ new.hooks = old.hooks
             /\ new.base >= old.base
             /\ new.base = old.base => new.offset = old.offset + Round(r + Align)
<1> DEFINE m == MakeRoom(h, z, r)
           o == ObjectAt(m, z, r)
           zn == [m.zone[z] EXCEPT !.offset = @ + Round(r + Align)]
<1>1. /\ m.live = h.live /\ \A w \in ZoneIds \ {z} : m.zone[w] = h.zone[w]
      /\ m.zone[z].state = h.zone[z].state /\ m.zone[z].hooks = h.zone[z].hooks
      /\ m.zone[z].base >= h.zone[z].base
      /\ m.zone[z].base = h.zone[z].base => m.zone[z].offset = h.zone[z].offset
  BY MakeRoomEffect
<1>2. HeapInv(m) /\ Used(m, z) /\ Fits(m.zone[z], r) BY MakeRoomGood DEF Keeps
<1>3. o \in ObjectType BY <1>2, PlaceGood
<1>4. o.zone = z BY DEF ObjectAt
<1>5. Malloc(h, z, r) = Updated(m, z, zn, m.live \cup {o}) /\ NewObject(h, z, r) = o
  BY DEF Malloc, Place, NewObject
<1> HIDE DEF m, o
<1>6. m \in HeapType /\ m.zone[z] \in ZoneType /\ m.live \in SUBSET ObjectType
  BY <1>2 DEF HeapInv, ZonesGood, HeapType
<1>7. Round(r + Align) \in Nat
  <2>1. r + Align \in Nat BY ZonesAssumption
  <2> QED BY <2>1, RoundUp
<1>8. /\ zn \in ZoneType /\ zn.base = m.zone[z].base /\ zn.state = m.zone[z].state
      /\ zn.hooks = m.zone[z].hooks /\ zn.offset = m.zone[z].offset + Round(r + Align)
  BY <1>6, <1>7 DEF ZoneType
<1> HIDE DEF zn
<1>9. /\ Updated(m, z, zn, m.live \cup {o}).live = m.live \cup {o}
      /\ Updated(m, z, zn, m.live \cup {o}).zone[z] = zn
      /\ \A w \in ZoneIds \ {z} : Updated(m, z, zn, m.live \cup {o}).zone[w] = m.zone[w]
  BY <1>3, <1>6, <1>8, UpdatedHeap
<1> QED BY <1>1, <1>4, <1>5, <1>8, <1>9

\* What the three allocations of a closure change.
LEMMA ClosureEffect ==
  ASSUME NEW h, HeapInv(h), NEW z \in ZoneIds, Used(h, z), NEW rs \in ClosureShapes
  PROVE  LET g == ClosureHeap(h, z, rs)
             old == h.zone[z]
             new == g.zone[z]
         IN  /\ h.live \cup {NewObject(h, z, rs[1])} \subseteq g.live
             /\ \A w \in ZoneIds \ {z} : g.zone[w] = h.zone[w]
             /\ new.state = old.state /\ new.hooks = old.hooks
             /\ new.base = old.base => ClosureSize(h, z, rs) = CompleteSize(rs)
<1> DEFINE zn == [h.zone[z] EXCEPT !.mark = h.zone[z].offset]
           h0 == Updated(h, z, zn, h.live)
           h1 == Malloc(h0, z, rs[1])
           h2 == Malloc(h1, z, rs[2])
           h3 == Malloc(h2, z, rs[3])
<1>1. rs[1] \in Requests /\ rs[2] \in Requests /\ rs[3] \in Requests BY ZonesAssumption
<1>2. h \in HeapType /\ h.zone[z] \in ZoneType /\ h.live \in SUBSET ObjectType
  BY DEF HeapInv, ZonesGood, HeapType
<1>3. /\ zn \in ZoneType /\ zn.base = h.zone[z].base /\ zn.size = h.zone[z].size
      /\ zn.offset = h.zone[z].offset /\ zn.memories = h.zone[z].memories
      /\ zn.state = h.zone[z].state /\ zn.hooks = h.zone[z].hooks
  BY <1>2 DEF ZoneType
<1>4. ClosureHeap(h, z, rs) = h3 BY DEF ClosureHeap
<1> HIDE DEF zn
<1>5. Keeps(h, h0) BY <1>3, FieldGood
<1>6. /\ h0.live = h.live /\ h0.zone[z] = zn /\ h0.brk = h.brk
      /\ \A w \in ZoneIds \ {z} : h0.zone[w] = h.zone[w]
  BY <1>2, <1>3, UpdatedHeap
<1> HIDE DEF h0
<1>7. Keeps(h0, h1) BY <1>1, <1>5, MallocGood DEF Keeps
<1>8. NewObject(h0, z, rs[1]) = NewObject(h, z, rs[1])
  <2> DEFINE r == rs[1]
             m == MakeRoom(h, z, r)
             m0 == MakeRoom(h0, z, r)
  <2>1. m0.zone[z].base = m.zone[z].base /\ m0.zone[z].offset = m.zone[z].offset
    <3>1. Fits(h0.zone[z], r) <=> Fits(h.zone[z], r) BY <1>3, <1>6 DEF Fits
    <3>2. CASE Fits(h.zone[z], r) BY <3>1, <3>2, <1>3, <1>6 DEF MakeRoom
    <3>3. CASE ~ Fits(h.zone[z], r)
      <4>1. ASSUME NEW k, HeapInv(k), ~ Fits(k.zone[z], r)
            PROVE  MakeRoom(k, z, r).zone[z].base = k.brk /\ MakeRoom(k, z, r).zone[z].offset = 0
        <5> DEFINE e == Extended(k.zone[z], r, k.brk)
                   x == ExtendedSize(k.zone[z], r)
        <5>1. MakeRoom(k, z, r) = [k EXCEPT !.zone[z] = e, !.brk = @ + Round(x)]
          BY <4>1 DEF MakeRoom, Grown
        <5>2. k \in HeapType /\ k.zone[z] \in ZoneType BY <4>1 DEF HeapInv, ZonesGood, HeapType
        <5>3. e.base = k.brk /\ e.offset = 0 BY <5>2 DEF Extended, ZoneType
        <5> HIDE DEF e, x
        <5>4. MakeRoom(k, z, r).zone[z] = e BY <5>1, <5>2 DEF HeapType
        <5> QED BY <5>3, <5>4
      <4>2. HeapInv(h0) BY <1>5 DEF Keeps
      <4> QED BY <4>1, <4>2, <3>1, <3>3, <1>6
    <3> QED BY <3>2, <3>3
  <2> QED BY <2>1 DEF NewObject, ObjectAt
<1>9. /\ h1.live = h0.live \cup {NewObject(h0, z, rs[1])}
      /\ \A w \in ZoneIds \ {z} : h1.zone[w] = h0.zone[w]
      /\ h1.zone[z].state = zn.state /\ h1.zone[z].hooks = zn.hooks
      /\ h1.zone[z].base >= zn.base
      /\ h1.zone[z].base = zn.base => h1.zone[z].offset = zn.offset + Round(rs[1] + Align)
  BY <1>1, <1>5, <1>6, MallocEffect DEF Keeps
<1> HIDE DEF h1
<1>10. Keeps(h1, h2) BY <1>1, <1>5, <1>7, MallocGood DEF Keeps
<1>11. /\ h2.live = h1.live \cup {NewObject(h1, z, rs[2])}
       /\ \A w \in ZoneIds \ {z} : h2.zone[w] = h1.zone[w]
       /\ h2.zone[z].state = h1.zone[z].state /\ h2.zone[z].hooks = h1.zone[z].hooks
       /\ h2.zone[z].base >= h1.zone[z].base
       /\ h2.zone[z].base = h1.zone[z].base =>
            h2.zone[z].offset = h1.zone[z].offset + Round(rs[2] + Align)
  BY <1>1, <1>5, <1>7, MallocEffect DEF Keeps
<1> HIDE DEF h2
<1>12. Keeps(h2, h3) BY <1>1, <1>5, <1>7, <1>10, MallocGood DEF Keeps
<1>13. /\ h3.live = h2.live \cup {NewObject(h2, z, rs[3])}
       /\ \A w \in ZoneIds \ {z} : h3.zone[w] = h2.zone[w]
       /\ h3.zone[z].state = h2.zone[z].state /\ h3.zone[z].hooks = h2.zone[z].hooks
       /\ h3.zone[z].base >= h2.zone[z].base
       /\ h3.zone[z].base = h2.zone[z].base =>
            h3.zone[z].offset = h2.zone[z].offset + Round(rs[3] + Align)
  BY <1>1, <1>5, <1>7, <1>10, MallocEffect DEF Keeps
<1> HIDE DEF h3
<1>14. ASSUME h3.zone[z].base = zn.base
       PROVE  h3.zone[z].offset - zn.offset = CompleteSize(rs)
  <2>1. /\ h1.zone[z] \in ZoneType /\ h2.zone[z] \in ZoneType /\ h3.zone[z] \in ZoneType
    BY <1>7, <1>10, <1>12 DEF Keeps, HeapInv, ZonesGood, HeapType
  <2>2. /\ zn.base \in Nat /\ h1.zone[z].base \in Nat /\ h2.zone[z].base \in Nat
        /\ zn.offset \in Nat
    BY <2>1, <1>3 DEF ZoneType
  <2>3. h2.zone[z].base = zn.base /\ h1.zone[z].base = zn.base
    BY <2>2, <1>9, <1>11, <1>13, <1>14
  <2>4. ASSUME NEW r \in Requests PROVE Round(r + Align) \in Nat
    <3>1. r + Align \in Nat BY ZonesAssumption
    <3> QED BY <3>1, RoundUp
  <2>5. h3.zone[z].offset
          = zn.offset + Round(rs[1] + Align) + Round(rs[2] + Align) + Round(rs[3] + Align)
    BY <2>3, <1>9, <1>11, <1>13, <1>14
  <2> QED BY <2>2, <2>4, <2>5, <1>1 DEF CompleteSize
<1>15. h3.zone[z].base = h.zone[z].base => ClosureSize(h, z, rs) = CompleteSize(rs)
  BY <1>14, <1>3, <1>4 DEF ClosureSize
<1>16. h.live \cup {NewObject(h, z, rs[1])} \subseteq h3.live
  BY <1>6, <1>8, <1>9, <1>11, <1>13
<1>17. /\ \A w \in ZoneIds \ {z} : h3.zone[w] = h.zone[w]
       /\ h3.zone[z].state = h.zone[z].state /\ h3.zone[z].hooks = h.zone[z].hooks
  BY <1>3, <1>6, <1>9, <1>11, <1>13
<1> QED BY <1>4, <1>15, <1>16, <1>17

SizedInv == IInv /\ ClosuresSized

\* The size of a closure within one block is the complete size of its parts.
LEMMA SizedNext ==
  ASSUME ~ MayStraddle, SizedInv, [Next]_vars
  PROVE  ClosuresSized'
<1>1. ASSUME NEW h, HeapInv(h), NEW z \in ZoneIds, Used(h, z), NEW rs \in ClosureShapes,
             StraddleGuard(h, z, rs),
             closures' = closures \cup {[sizes |-> rs, size |-> ClosureSize(h, z, rs)]}
      PROVE  ClosuresSized'
  <2>1. ClosureSize(h, z, rs) = CompleteSize(rs) BY <1>1, ClosureEffect DEF StraddleGuard
  <2> QED BY <2>1, <1>1 DEF SizedInv, ClosuresSized
<1>2. CASE UNCHANGED closures BY <1>2 DEF SizedInv, ClosuresSized
<1>3. ASSUME NEW t \in Threads \cup Workers, NEW rs \in ClosureShapes, MakeClosure(t, rs)
      PROVE  ClosuresSized'
  <2>1. Running(t) /\ StraddleGuard(heap, Top(t).zone, rs)
        /\ closures' = closures \cup {[sizes |-> rs, size |-> ClosureSize(heap, Top(t).zone, rs)]}
    BY <1>3 DEF MakeClosure
  <2>2. HeapInv(heap) /\ Top(t).zone \in ZoneIds /\ Used(heap, Top(t).zone)
    BY <2>1, TopGood DEF SizedInv, IInv
  <2> QED BY <2>1, <2>2, <1>1
<1>4. ASSUME NEW z \in ZoneIds, Fresh(z), NEW n \in Nat, NEW rs \in ClosureShapes,
             StraddleGuard(Create(heap, z, n), z, rs),
             closures' = closures \cup
                 {[sizes |-> rs, size |-> ClosureSize(Create(heap, z, n), z, rs)]}
      PROVE  ClosuresSized'
  <2>1. HeapInv(Create(heap, z, n)) /\ Used(Create(heap, z, n), z)
    BY <1>4, CreateGood DEF SizedInv, IInv, Fresh, Used, Keeps
  <2> QED BY <2>1, <1>4, <1>1
<1>5. ASSUME NEW t, NEW f \in Funcs, NEW z \in ZoneIds, NEW n \in ZoneSizes,
             NEW rs \in ClosureShapes, Rebind(t, f, z, n, rs)
      PROVE  ClosuresSized'
  BY <1>4, <1>5, ZonesAssumption DEF Rebind
<1>6. ASSUME NEW t, NEW u \in Workers, NEW z \in ZoneIds, NEW rs \in ClosureShapes,
             Fork(t, u, z, rs)
      PROVE  ClosuresSized'
  BY <1>4, <1>6, ZonesAssumption DEF Fork
<1>7. CASE UNCHANGED vars BY <1>2, <1>7 DEF vars
<1>8. CASE \E z \in ZoneIds : DestroyDelayed(z) BY <1>2, <1>8 DEF DestroyDelayed
<1>9. CASE \E t \in Threads \cup Workers : Compiled(t)
  <2>1. PICK t \in Threads \cup Workers : Compiled(t) BY <1>9
  <2>2. CASE \E z \in ZoneIds : PeekEmpty(t, z) BY <2>2, <1>2 DEF PeekEmpty
  <2>3. CASE \E r \in Requests : Alloc(t, r) \/ ZoneCleanup(t, r)
    BY <2>3, <1>2 DEF Alloc, ZoneCleanup
  <2>4. CASE \E rs \in ClosureShapes : MakeClosure(t, rs) BY <2>4, <1>3
  <2>5. CASE ResetZone(t) BY <2>5, <1>2 DEF ResetZone
  <2>6. CASE \E z \in ZoneIds, s \in ZoneSizes : BeginMemzone(t, z, s)
    BY <2>6, <1>2 DEF BeginMemzone
  <2>7. CASE \E res \in AtMostOne(AllHeld(t)), delayed \in BOOLEAN : EndMemzone(t, res, delayed)
    BY <2>7, <1>2 DEF EndMemzone
  <2>8. CASE \E z \in ZoneIds, arg \in AtMostOne(AllHeld(t)) : Schedule(t, z, arg)
    BY <2>8, <1>2 DEF Schedule
  <2>9. CASE \E cb \in callbacks : RunCallback(t, cb) BY <2>9, <1>2 DEF RunCallback
  <2>10. CASE EndCallback(t) BY <2>10, <1>2 DEF EndCallback
  <2>11. CASE \E f \in Funcs, z \in ZoneIds, s \in ZoneSizes, rs \in ClosureShapes :
                 Rebind(t, f, z, s, rs)
    BY <2>11, <1>5
  <2>12. CASE \E u \in Workers, z \in ZoneIds, rs \in ClosureShapes : Fork(t, u, z, rs)
    BY <2>12, <1>6
  <2>13. CASE \E z \in ZoneIds, res \in AtMostOne(AllHeld(t)) : WorkerEnd(t, z, res)
    BY <2>13, <1>2 DEF WorkerEnd
  <2>14. CASE \E u \in Workers : Join(t, u) BY <2>14, <1>2 DEF Join
  <2> QED
    BY <2>1, <2>2, <2>3, <2>4, <2>5, <2>6, <2>7, <2>8, <2>9, <2>10, <2>11, <2>12, <2>13,
       <2>14 DEF Compiled
<1> QED BY <1>7, <1>8, <1>9 DEF Next

\* The size in front of every closure is the complete size of what was made,
\* when no closure straddles two blocks.
THEOREM ClosureSizes ==
  ASSUME ~ MayStraddle
  PROVE  Spec => []ClosuresSized
<1>1. Init => SizedInv BY InitGood DEF Init, SizedInv, ClosuresSized
<1>2. SizedInv /\ [Next]_vars => SizedInv' BY NextGood, SizedNext DEF SizedInv
<1>3. SizedInv => ClosuresSized BY DEF SizedInv
<1> QED BY <1>1, <1>2, <1>3, PTL DEF Spec

-----------------------------------------------------------------------------
(* What the other functions on heaps change. *)

\* No zone is opened, closed or given hooks.
SameZones(h, g) ==
    \A w \in ZoneIds : g.zone[w].state = h.zone[w].state /\ g.zone[w].hooks = h.zone[w].hooks

\* All zones but z are as they were.
OthersSame(h, g, z) == \A w \in ZoneIds \ {z} : g.zone[w] = h.zone[w]

\* What creating a zone changes.
LEMMA CreateEffect ==
  ASSUME NEW h, HeapInv(h), NEW z \in ZoneIds, NEW size \in Nat
  PROVE  LET g == Create(h, z, size)
         IN  /\ g.live = h.live /\ OthersSame(h, g, z)
             /\ g.zone[z].state = "open" /\ g.zone[z].hooks = {}
<1>1. h \in HeapType /\ h.brk \in Nat BY DEF HeapInv, ZonesGood, HeapType
<1>2. /\ NewZone(h.brk, size) \in ZoneType
      /\ NewZone(h.brk, size).state = "open" /\ NewZone(h.brk, size).hooks = {}
  BY <1>1 DEF NewZone, NoZone, ZoneType
<1> QED BY <1>1, <1>2, GrownHeap DEF Create, OthersSame

\* What destroying a zone changes.
LEMMA DestroyEffect ==
  ASSUME NEW h, HeapInv(h), NEW z \in ZoneIds
  PROVE  LET g == Destroy(h, z)
         IN  /\ g.live = {o \in h.live : o.zone # z} /\ OthersSame(h, g, z)
             /\ g.zone[z].state = "gone" /\ g.zone[z].hooks = {}
<1> DEFINE zn == [NoZone EXCEPT !.state = "gone"]
           L == h.live \ ObjectsOf(h, z)
<1>1. h \in HeapType /\ L \in SUBSET ObjectType BY DEF HeapInv, ZonesGood, HeapType
<1>2. zn \in ZoneType /\ zn.state = "gone" /\ zn.hooks = {} BY DEF ZoneType, NoZone
<1>3. Destroy(h, z) = Updated(h, z, zn, L) BY DEF Destroy
<1>4. L = {o \in h.live : o.zone # z} BY DEF ObjectsOf
<1> HIDE DEF zn, L
<1>5. /\ Updated(h, z, zn, L).live = L /\ Updated(h, z, zn, L).zone[z] = zn
      /\ \A w \in ZoneIds \ {z} : Updated(h, z, zn, L).zone[w] = h.zone[w]
  BY <1>1, <1>2, UpdatedHeap
<1> QED BY <1>2, <1>3, <1>4, <1>5 DEF OthersSame

\* What resetting a zone changes.
LEMMA ResetEffect ==
  ASSUME NEW h, HeapInv(h), NEW z \in ZoneIds
  PROVE  /\ Reset(h, z).live = {o \in h.live : o.zone # z}
         /\ SameZones(h, Reset(h, z))
<1> DEFINE zn == [h.zone[z] EXCEPT !.offset = 0]
           L == h.live \ ObjectsOf(h, z)
<1>1. h \in HeapType /\ L \in SUBSET ObjectType /\ h.zone[z] \in ZoneType
  BY DEF HeapInv, ZonesGood, HeapType
<1>2. zn \in ZoneType /\ zn.state = h.zone[z].state /\ zn.hooks = h.zone[z].hooks
  BY <1>1 DEF ZoneType
<1>3. Reset(h, z) = Updated(h, z, zn, L) BY DEF Reset
<1>4. L = {o \in h.live : o.zone # z} BY DEF ObjectsOf
<1> HIDE DEF zn, L
<1>5. /\ Updated(h, z, zn, L).live = L /\ Updated(h, z, zn, L).zone[z] = zn
      /\ \A w \in ZoneIds \ {z} : Updated(h, z, zn, L).zone[w] = h.zone[w]
  BY <1>1, <1>2, UpdatedHeap
<1> QED BY <1>2, <1>3, <1>4, <1>5 DEF SameZones

\* A pointer of the zone `from' is copied, any other is kept.
LEMMA ZCopyEffect ==
  ASSUME NEW h, HeapInv(h), NEW from, NEW to \in ZoneIds, Used(h, to),
         NEW ptrs \in SUBSET ObjectType
  PROVE  LET g == ZCopyHeap(h, ptrs, from, to)
             C == ZCopy(h, ptrs, from, to)
         IN  /\ h.live \subseteq g.live /\ SameZones(h, g)
             /\ ZCopied(h, ptrs, from) = {} => C = ptrs
             /\ ZCopied(h, ptrs, from) # {} => C \subseteq g.live /\ \A o \in C : o.zone = to
<1>1. CASE ZCopied(h, ptrs, from) = {} BY <1>1 DEF ZCopyHeap, ZCopy, SameZones
<1>2. CASE ZCopied(h, ptrs, from) # {}
  <2> DEFINE o == CHOOSE p \in ptrs : TRUE
             g == Malloc(h, to, o.req)
  <2>1. \E p \in ptrs : TRUE BY <1>2 DEF ZCopied
  <2>2. o \in ptrs BY <2>1
  <2>3. ZCopyHeap(h, ptrs, from, to) = g /\ ZCopy(h, ptrs, from, to) = {NewObject(h, to, o.req)}
    BY <1>2 DEF ZCopyHeap, ZCopy
  <2> HIDE DEF o
  <2>4. o.req \in Requests BY <2>2 DEF ObjectType
  <2>5. /\ g.live = h.live \cup {NewObject(h, to, o.req)} /\ NewObject(h, to, o.req).zone = to
        /\ \A w \in ZoneIds \ {to} : g.zone[w] = h.zone[w]
        /\ g.zone[to].state = h.zone[to].state /\ g.zone[to].hooks = h.zone[to].hooks
    BY <2>4, MallocEffect
  <2> HIDE DEF g
  <2>6. SameZones(h, g) BY <2>5 DEF SameZones
  <2> QED BY <1>2, <2>3, <2>5, <2>6
<1> QED BY <1>1, <1>2

-----------------------------------------------------------------------------
(* Who owns a zone. *)

\* Frame d of a stack, counted from the bottom, owns z: a push or a pop
\* leaves the owners below it alone.
FrameOwns(s, d, z) ==
    /\ d \in 1 .. Len(s)
    /\ s[Len(s) + 1 - d].zone = z /\ s[Len(s) + 1 - d].kind # "borrowed"

\* The owners of a zone: a frame b of thread a, a task, a callback a, a bound
\* name a or the future of worker a.
Owns(z, k, a, b) ==
    \/ k = "stack" /\ a \in Threads \cup Workers /\ FrameOwns(stack[a], b, z)
    \/ k = "pending" /\ a = z /\ b = 0 /\ z \in pending
    \/ k = "callback" /\ a \in callbacks /\ b = 0 /\ a.zone = z
    \/ k = "bound" /\ a \in Funcs /\ b = 0 /\ varZone[a] = z
    \/ k = "future" /\ a \in Workers /\ b = 0 /\ futures[a].zone = z

\* Every open zone has one owner and no other zone has any.
Owned ==
    /\ \A z \in ZoneIds : Open(z) => \E k, a, b : Owns(z, k, a, b)
    /\ \A z \in ZoneIds : \A k, a, b : Owns(z, k, a, b) => Open(z)
    /\ \A z \in ZoneIds : \A k, a, b, l, c, d :
           Owns(z, k, a, b) /\ Owns(z, l, c, d) => k = l /\ a = c /\ b = d

\* A borrowed zone is at the bottom of a stack, and one of Z.
BorrowOnly(s, Z) ==
    \A i \in DOMAIN s : s[i].kind = "borrowed" => i = Len(s) /\ s[i].zone \in Z

Lent(t) == {futures[u].zone : u \in Workers \cap {t}}

\* A worker has no stack before async forks it, borrows the zone of its
\* future, and the future has a zone and a result only while there is one.
WorkersGood ==
    /\ \A t \in Threads \cup Workers : BorrowOnly(stack[t], Lent(t))
    /\ \A u \in Workers :
          /\ futures[u].state = "none" => stack[u] = <<>>
          /\ futures[u].state \notin {"running", "finished"} => futures[u].zone = None
          /\ futures[u].state # "finished" => futures[u].res = {}

OInv == IInv /\ WorkersGood /\ Owned

\* The frames that own after a push, a pop and a change of the pointers.
LEMMA PushOwns ==
  ASSUME NEW s \in Seq(FrameType), NEW f \in FrameType, NEW Z, BorrowOnly(s, Z)
  PROVE  /\ \A d, w : FrameOwns(<<f>> \o s, d, w) <=>
                         \/ FrameOwns(s, d, w)
                         \/ d = Len(s) + 1 /\ f.zone = w /\ f.kind # "borrowed"
         /\ f.kind # "borrowed" => BorrowOnly(<<f>> \o s, Z)
<1> DEFINE s2 == <<f>> \o s
<1>1. Len(s) \in Nat /\ DOMAIN s = 1 .. Len(s) /\ Len(s2) = Len(s) + 1 /\ DOMAIN s2 = 1 .. Len(s) + 1
  OBVIOUS
<1>2. s2[1] = f /\ \A i \in 2 .. Len(s) + 1 : s2[i] = s[i - 1] OBVIOUS
<1> HIDE DEF s2
<1>3. ASSUME NEW d, NEW w
      PROVE  FrameOwns(s2, d, w) <=>
                \/ FrameOwns(s, d, w)
                \/ d = Len(s) + 1 /\ f.zone = w /\ f.kind # "borrowed"
  <2>1. CASE d \in 1 .. Len(s)
    <3> DEFINE i == Len(s2) + 1 - d
    <3>1. i \in 2 .. Len(s) + 1 /\ i - 1 = Len(s) + 1 - d BY <2>1, <1>1
    <3> HIDE DEF i
    <3>2. s2[i] = s[Len(s) + 1 - d] BY <3>1, <1>2
    <3>3. d # Len(s) + 1 /\ d \in 1 .. Len(s2) BY <2>1, <1>1
    <3> QED BY <2>1, <3>2, <3>3 DEF FrameOwns, i
  <2>2. CASE d = Len(s) + 1
    <3>1. d \in 1 .. Len(s2) /\ Len(s2) + 1 - d = 1 /\ d \notin 1 .. Len(s) BY <2>2, <1>1
    <3> QED BY <2>2, <3>1, <1>2 DEF FrameOwns
  <2>3. CASE d \notin 1 .. Len(s) + 1
    <3>1. d \notin 1 .. Len(s2) /\ d \notin 1 .. Len(s) /\ d # Len(s) + 1 BY <2>3, <1>1
    <3> QED BY <3>1 DEF FrameOwns
  <2>4. d \in 1 .. Len(s) + 1 => d \in 1 .. Len(s) \/ d = Len(s) + 1 BY <1>1
  <2> QED BY <2>1, <2>2, <2>3, <2>4
<1>4. ASSUME f.kind # "borrowed" PROVE BorrowOnly(s2, Z)
  <2> SUFFICES ASSUME NEW i \in DOMAIN s2, s2[i].kind = "borrowed"
               PROVE  i = Len(s2) /\ s2[i].zone \in Z
    BY DEF BorrowOnly
  <2>1. i \in 2 .. Len(s) + 1 BY <1>1, <1>2, <1>4
  <2>2. i - 1 \in DOMAIN s /\ s2[i] = s[i - 1] BY <2>1, <1>1, <1>2
  <2>3. i - 1 = Len(s) /\ s[i - 1].zone \in Z BY <2>2 DEF BorrowOnly
  <2> QED BY <2>1, <2>2, <2>3, <1>1
<1> QED BY <1>3, <1>4 DEF s2

\* A pop takes away what the frame on top owned, and nothing else.
LEMMA PopOwns ==
  ASSUME NEW s \in Seq(FrameType), s # <<>>, NEW Z, BorrowOnly(s, Z)
  PROVE  /\ \A d, w : FrameOwns(Tail(s), d, w) <=> FrameOwns(s, d, w) /\ d # Len(s)
         /\ BorrowOnly(Tail(s), Z)
<1> DEFINE s2 == Tail(s)
<1>1. /\ Len(s) \in Nat /\ Len(s) >= 1 /\ DOMAIN s = 1 .. Len(s)
      /\ Len(s2) = Len(s) - 1 /\ DOMAIN s2 = 1 .. Len(s) - 1
  OBVIOUS
<1>2. \A i \in 1 .. Len(s) - 1 : s2[i] = s[i + 1] OBVIOUS
<1> HIDE DEF s2
<1>3. ASSUME NEW d, NEW w
      PROVE  FrameOwns(s2, d, w) <=> FrameOwns(s, d, w) /\ d # Len(s)
  <2>1. CASE d \in 1 .. Len(s) - 1
    <3> DEFINE i == Len(s2) + 1 - d
    <3>1. i \in 1 .. Len(s) - 1 /\ i + 1 = Len(s) + 1 - d BY <2>1, <1>1
    <3> HIDE DEF i
    <3>2. s2[i] = s[Len(s) + 1 - d] BY <3>1, <1>2
    <3>3. d \in 1 .. Len(s2) /\ d \in 1 .. Len(s) /\ d # Len(s)
      <4>1. d \in Int /\ 1 <= d /\ d <= Len(s) - 1 BY <2>1, <1>1
      <4>2. d < Len(s) BY <4>1, <1>1
      <4>3. d # Len(s)
        <5> SUFFICES ASSUME d = Len(s) PROVE FALSE OBVIOUS
        <5> QED BY <4>2, <1>1
      <4>4. d \in 1 .. Len(s2) BY <4>1, <1>1
      <4>5. d \in 1 .. Len(s) BY <4>1, <4>2, <1>1
      <4> QED BY <4>3, <4>4, <4>5
    <3> QED BY <3>2, <3>3 DEF FrameOwns, i
  <2>2. CASE d \notin 1 .. Len(s) - 1
    <3>1. d \notin 1 .. Len(s2) /\ (d \in 1 .. Len(s) => d = Len(s)) BY <2>2, <1>1
    <3> QED BY <3>1 DEF FrameOwns
  <2> QED BY <2>1, <2>2
<1>4. BorrowOnly(s2, Z)
  <2> SUFFICES ASSUME NEW i \in DOMAIN s2, s2[i].kind = "borrowed"
               PROVE  i = Len(s2) /\ s2[i].zone \in Z
    BY DEF BorrowOnly
  <2>1. i + 1 \in DOMAIN s /\ s2[i] = s[i + 1] /\ i \in Nat BY <1>1, <1>2
  <2>2. i + 1 = Len(s) /\ s[i + 1].zone \in Z BY <2>1 DEF BorrowOnly
  <2> QED BY <2>1, <2>2, <1>1
<1> QED BY <1>3, <1>4 DEF s2

\* What a frame holds does not matter for who owns its zone.
LEMMA HeldOwns ==
  ASSUME NEW s \in Seq(FrameType), s # <<>>, NEW H, NEW Z, BorrowOnly(s, Z)
  PROVE  LET s2 == [s EXCEPT ![1].held = H]
         IN  /\ Len(s2) = Len(s)
             /\ \A d, w : FrameOwns(s2, d, w) <=> FrameOwns(s, d, w)
             /\ BorrowOnly(s2, Z)
<1> DEFINE s2 == [s EXCEPT ![1].held = H]
<1>1. Len(s) \in Nat /\ Len(s) >= 1 /\ DOMAIN s = 1 .. Len(s) OBVIOUS
<1>2. s[1] \in FrameType BY <1>1
<1>3. /\ [s[1] EXCEPT !.held = H].zone = s[1].zone
      /\ [s[1] EXCEPT !.held = H].kind = s[1].kind
  BY <1>2 DEF FrameType
<1>4. Len(s2) = Len(s) /\ DOMAIN s2 = DOMAIN s BY <1>1
<1>5. \A i \in DOMAIN s : s2[i].zone = s[i].zone /\ s2[i].kind = s[i].kind BY <1>1, <1>3
<1> HIDE DEF s2
<1>6. \A d \in 1 .. Len(s) : Len(s) + 1 - d \in DOMAIN s BY <1>1
<1>7. \A d, w : FrameOwns(s2, d, w) <=> FrameOwns(s, d, w) BY <1>4, <1>5, <1>6 DEF FrameOwns
<1>8. BorrowOnly(s2, Z) BY <1>4, <1>5 DEF BorrowOnly
<1> QED BY <1>4, <1>7, <1>8 DEF s2

\* A stack of one frame owns the zone of that frame, unless it is borrowed.
LEMMA SingleOwns ==
  ASSUME NEW f \in FrameType
  PROVE  /\ \A d, w : FrameOwns(<<f>>, d, w) <=> d = 1 /\ f.zone = w /\ f.kind # "borrowed"
         /\ \A Z : (f.kind = "borrowed" => f.zone \in Z) => BorrowOnly(<<f>>, Z)
<1>1. Len(<<f>>) = 1 /\ DOMAIN <<f>> = {1} /\ <<f>>[1] = f OBVIOUS
<1>2. \A d \in 1 .. 1 : d = 1 /\ 1 + 1 - d = 1 OBVIOUS
<1>3. 1 \in 1 .. 1 /\ 1 + 1 - 1 = 1 OBVIOUS
<1>4. \A d, w : FrameOwns(<<f>>, d, w) <=> d = 1 /\ f.zone = w /\ f.kind # "borrowed"
  BY <1>1, <1>2, <1>3 DEF FrameOwns
<1> QED BY <1>1, <1>4 DEF BorrowOnly

\* Steps after which the zones have the owners they had.
LEMMA OwnedSame ==
  ASSUME Owned,
         \A w \in ZoneIds : Open(w)' <=> Open(w),
         \A w \in ZoneIds : \A k, a, b : Owns(w, k, a, b)' <=> Owns(w, k, a, b)
  PROVE  Owned'
BY DEF Owned

\* Steps after which z is gone and no one owns it.
LEMMA OwnedGone ==
  ASSUME Owned, NEW z \in ZoneIds, ~ Open(z)',
         \A w \in ZoneIds \ {z} : Open(w)' <=> Open(w),
         \A k, a, b : ~ Owns(z, k, a, b)',
         \A w \in ZoneIds \ {z} : \A k, a, b : Owns(w, k, a, b)' <=> Owns(w, k, a, b)
  PROVE  Owned'
BY DEF Owned

\* Steps after which z is open and owned by one, who did not own it.
LEMMA OwnedOne ==
  ASSUME Owned, NEW z \in ZoneIds, Open(z)', NEW l, NEW c, NEW d,
         \A w \in ZoneIds \ {z} : Open(w)' <=> Open(w),
         \A k, a, b : Owns(z, k, a, b)' <=> k = l /\ a = c /\ b = d,
         \A w \in ZoneIds \ {z} : \A k, a, b : Owns(w, k, a, b)' <=> Owns(w, k, a, b)
  PROVE  Owned'
BY DEF Owned

-----------------------------------------------------------------------------
(* Ownership, action by action. *)

\* A step that replaces the stack of one thread.
LEMMA StackRead ==
  ASSUME IInv, NEW t \in Threads \cup Workers, NEW s, stack' = [stack EXCEPT ![t] = s]
  PROVE  stack'[t] = s /\ \A v \in (Threads \cup Workers) \ {t} : stack'[v] = stack[v]
BY DEF IInv, StacksGood

\* Who owns what when the stack of one thread changes and nothing else does.
LEMMA OwnsStack ==
  ASSUME IInv, NEW t \in Threads \cup Workers, NEW s, stack' = [stack EXCEPT ![t] = s],
         UNCHANGED <<callbacks, pending, varZone, futures>>
  PROVE  \A w, k, a, b : Owns(w, k, a, b)' <=>
             IF k = "stack" /\ a = t THEN FrameOwns(s, b, w) ELSE Owns(w, k, a, b)
<1>1. stack'[t] = s /\ \A v \in (Threads \cup Workers) \ {t} : stack'[v] = stack[v]
  BY StackRead
<1>2. ASSUME NEW w, NEW k, NEW a, NEW b
      PROVE  Owns(w, k, a, b)' <=>
                IF k = "stack" /\ a = t THEN FrameOwns(s, b, w) ELSE Owns(w, k, a, b)
  <2>1. CASE k = "stack" /\ a = t BY <2>1, <1>1 DEF Owns
  <2>2. CASE k = "stack" /\ a # t BY <2>2, <1>1 DEF Owns
  <2>3. CASE k # "stack" BY <2>3 DEF Owns
  <2> QED BY <2>1, <2>2, <2>3
<1> QED BY <1>2

\* A thread of async goes on borrowing only the zone of its future.
LEMMA WorkersStack ==
  ASSUME IInv, WorkersGood, NEW t \in Threads \cup Workers, NEW s,
         stack' = [stack EXCEPT ![t] = s], futures' = futures,
         BorrowOnly(s, Lent(t)), t \in Workers => stack[t] # <<>>
  PROVE  WorkersGood'
<1>1. stack'[t] = s /\ \A v \in (Threads \cup Workers) \ {t} : stack'[v] = stack[v]
  BY StackRead
<1>2. \A v : Lent(v)' = Lent(v) BY DEF Lent
<1> QED BY <1>1, <1>2 DEF WorkersGood

\* The frame on top, and the ones below, of a running thread.
LEMMA TopOwns ==
  ASSUME OInv, NEW t \in Threads \cup Workers, Running(t)
  PROVE  /\ stack[t] \in Seq(FrameType) /\ stack[t] # <<>> /\ Len(stack[t]) \in Nat
         /\ BorrowOnly(stack[t], Lent(t))
         /\ Top(t).kind # "borrowed" =>
                FrameOwns(stack[t], Len(stack[t]), Top(t).zone) /\ Open(Top(t).zone)
<1>1. /\ stack[t] \in Seq(FrameType) /\ stack[t] # <<>> /\ Top(t) = stack[t][1]
      /\ Top(t).zone \in ZoneIds
  BY TopGood DEF OInv, StackGood
<1>2. Len(stack[t]) \in Nat /\ Len(stack[t]) \in 1 .. Len(stack[t])
      /\ Len(stack[t]) + 1 - Len(stack[t]) = 1
  BY <1>1
<1>3. ASSUME Top(t).kind # "borrowed" PROVE FrameOwns(stack[t], Len(stack[t]), Top(t).zone)
  BY <1>1, <1>2, <1>3 DEF FrameOwns
<1>4. ASSUME Top(t).kind # "borrowed" PROVE Open(Top(t).zone)
  <2>1. Owns(Top(t).zone, "stack", t, Len(stack[t])) BY <1>3, <1>4 DEF Owns
  <2> QED BY <2>1, <1>1 DEF OInv, Owned
<1> QED BY <1>1, <1>2, <1>3, <1>4 DEF OInv, WorkersGood

\* Steps that change what the code on top holds, and no zone's state.
LEMMA HeldOwned ==
  ASSUME OInv, NEW t \in Threads \cup Workers, Running(t), NEW H,
         stack' = [stack EXCEPT ![t] = [stack[t] EXCEPT ![1].held = H]],
         UNCHANGED <<callbacks, pending, varZone, futures>>,
         \A w \in ZoneIds : heap'.zone[w].state = heap.zone[w].state
  PROVE  WorkersGood' /\ Owned'
<1> DEFINE s == [stack[t] EXCEPT ![1].held = H]
<1>1. IInv /\ WorkersGood /\ Owned BY DEF OInv
<1>2. /\ stack[t] \in Seq(FrameType) /\ stack[t] # <<>> /\ BorrowOnly(stack[t], Lent(t))
  BY TopOwns
<1>3. /\ \A d, w : FrameOwns(s, d, w) <=> FrameOwns(stack[t], d, w)
      /\ BorrowOnly(s, Lent(t))
  BY <1>2, HeldOwns
<1> HIDE DEF s
<1>4. stack' = [stack EXCEPT ![t] = s] BY DEF s
<1>5. WorkersGood' BY <1>1, <1>2, <1>3, <1>4, WorkersStack
<1>6. \A w, k, a, b : Owns(w, k, a, b)' <=>
          IF k = "stack" /\ a = t THEN FrameOwns(s, b, w) ELSE Owns(w, k, a, b)
  BY <1>1, <1>4, OwnsStack
<1>7. \A w, a, b : Owns(w, "stack", t, b) <=> FrameOwns(stack[t], b, w) BY DEF Owns
<1>8. \A w, k, a, b : Owns(w, k, a, b)' <=> Owns(w, k, a, b) BY <1>3, <1>6, <1>7
<1>9. \A w \in ZoneIds : Open(w)' <=> Open(w) BY DEF Open
<1> QED BY <1>1, <1>5, <1>8, <1>9, OwnedSame

\* The zone that is pushed on an empty stack is owned by the stack.
LEMMA PeekEmptyOwned ==
  ASSUME OInv, NEW t \in Threads \cup Workers, NEW z \in ZoneIds, PeekEmpty(t, z)
  PROVE  WorkersGood' /\ Owned'
<1> DEFINE f == Frame(z, "default", {})
<1>1. IInv /\ WorkersGood /\ Owned BY DEF OInv
<1>2. OthersSame(heap, heap', z) /\ heap'.zone[z].state = "open"
  BY CreateEffect, ZonesAssumption DEF PeekEmpty, OInv, IInv
<1>3. f \in FrameType /\ f.zone = z /\ f.kind = "default" BY FrameGood
<1>4. stack' = [stack EXCEPT ![t] = <<f>>] BY DEF PeekEmpty
<1> HIDE DEF f
<1>5. /\ \A d, w : FrameOwns(<<f>>, d, w) <=> d = 1 /\ w = z
      /\ BorrowOnly(<<f>>, Lent(t))
  BY <1>3, SingleOwns
<1>6. t \notin Workers /\ stack[t] = <<>> /\ ~ Open(z)
  BY ThreadsAssumption DEF PeekEmpty, Fresh, Open
<1>7. WorkersGood' BY <1>1, <1>4, <1>5, <1>6, WorkersStack DEF PeekEmpty
<1>8. \A w, k, a, b : Owns(w, k, a, b)' <=>
          IF k = "stack" /\ a = t THEN FrameOwns(<<f>>, b, w) ELSE Owns(w, k, a, b)
  BY <1>1, <1>4, OwnsStack DEF PeekEmpty
<1>9. \A w, b : ~ Owns(w, "stack", t, b)
  <2>1. \A d \in 1 .. Len(<<>>) : FALSE OBVIOUS
  <2> QED BY <2>1, <1>6 DEF Owns, FrameOwns
<1>10. \A k, a, b : ~ Owns(z, k, a, b) BY <1>1, <1>6 DEF Owned
<1>11. \A k, a, b : Owns(z, k, a, b)' <=> k = "stack" /\ a = t /\ b = 1
  BY <1>5, <1>8, <1>10
<1>12. \A w \in ZoneIds \ {z} : \A k, a, b : Owns(w, k, a, b)' <=> Owns(w, k, a, b)
  BY <1>5, <1>8, <1>9
<1>13. Open(z)' /\ \A w \in ZoneIds \ {z} : Open(w)' <=> Open(w) BY <1>2 DEF Open, OthersSame
<1>14. Owned' BY <1>1, <1>11, <1>12, <1>13, OwnedOne
<1> QED BY <1>7, <1>14

\* An allocation changes no owner.
LEMMA AllocOwned ==
  ASSUME OInv, NEW t \in Threads \cup Workers, NEW r \in Requests, Alloc(t, r)
  PROVE  WorkersGood' /\ Owned'
<1> DEFINE H == stack[t][1].held \cup {NewObject(heap, Top(t).zone, r)}
<1>1. Running(t) BY DEF Alloc
<1>2. Top(t).zone \in ZoneIds /\ Used(heap, Top(t).zone) /\ HeapInv(heap)
  BY <1>1, TopGood DEF OInv, IInv
<1>3. \A w \in ZoneIds : heap'.zone[w].state = heap.zone[w].state
  BY <1>2, MallocEffect DEF Alloc
<1>4. stack' = [stack EXCEPT ![t] = [stack[t] EXCEPT ![1].held = H]] BY DEF Alloc
<1>5. UNCHANGED <<callbacks, pending, varZone, futures>> BY DEF Alloc
<1> HIDE DEF H
<1> QED BY <1>1, <1>3, <1>4, <1>5, HeldOwned

\* Making a closure changes no owner.
LEMMA MakeClosureOwned ==
  ASSUME OInv, NEW t \in Threads \cup Workers, NEW rs \in ClosureShapes, MakeClosure(t, rs)
  PROVE  WorkersGood' /\ Owned'
<1> DEFINE H == stack[t][1].held \cup {NewObject(heap, Top(t).zone, rs[1])}
<1>1. Running(t) BY DEF MakeClosure
<1>2. Top(t).zone \in ZoneIds /\ Used(heap, Top(t).zone) /\ HeapInv(heap)
  BY <1>1, TopGood DEF OInv, IInv
<1>3. \A w \in ZoneIds : heap'.zone[w].state = heap.zone[w].state
  BY <1>2, ClosureEffect DEF MakeClosure
<1>4. stack' = [stack EXCEPT ![t] = [stack[t] EXCEPT ![1].held = H]] BY DEF MakeClosure
<1>5. UNCHANGED <<callbacks, pending, varZone, futures>> BY DEF MakeClosure
<1> HIDE DEF H
<1> QED BY <1>1, <1>3, <1>4, <1>5, HeldOwned

\* A reset changes no owner.
LEMMA ResetZoneOwned ==
  ASSUME OInv, NEW t \in Threads \cup Workers, ResetZone(t)
  PROVE  WorkersGood' /\ Owned'
<1> DEFINE H == {o \in stack[t][1].held : o.zone # Top(t).zone}
<1>1. Running(t) BY DEF ResetZone
<1>2. Top(t).zone \in ZoneIds /\ HeapInv(heap) BY <1>1, TopGood DEF OInv, IInv
<1>3. \A w \in ZoneIds : heap'.zone[w].state = heap.zone[w].state
  BY <1>2, ResetEffect DEF ResetZone, SameZones
<1>4. stack' = [stack EXCEPT ![t] = [stack[t] EXCEPT ![1].held = H]] BY DEF ResetZone
<1>5. UNCHANGED <<callbacks, pending, varZone, futures>> BY DEF ResetZone
<1> HIDE DEF H
<1> QED BY <1>1, <1>3, <1>4, <1>5, HeldOwned

\* The heap after zone_cleanup.
LEMMA CleanupEffect ==
  ASSUME OInv, NEW t \in Threads \cup Workers, NEW r \in Requests, ZoneCleanup(t, r)
  PROVE  /\ Top(t).zone \in ZoneIds /\ Used(heap, Top(t).zone)
         /\ \A w \in ZoneIds : heap'.zone[w].state = heap.zone[w].state
         /\ \A w \in ZoneIds \ {Top(t).zone} : heap'.zone[w] = heap.zone[w]
         /\ heap'.live = heap.live \cup {NewObject(heap, Top(t).zone, r)}
         /\ NewObject(heap, Top(t).zone, r).zone = Top(t).zone
         /\ heap'.zone[Top(t).zone].hooks
              = heap.zone[Top(t).zone].hooks \cup {NewObject(heap, Top(t).zone, r)}
<1> DEFINE z == Top(t).zone
           hook == NewObject(heap, z, r)
           h == Malloc(heap, z, r)
           zn == [h.zone[z] EXCEPT !.hooks = @ \cup {hook}]
<1>1. Running(t) BY DEF ZoneCleanup
<1>2. z \in ZoneIds /\ Used(heap, z) /\ HeapInv(heap) BY <1>1, TopGood DEF OInv, IInv
<1>3. Keeps(heap, h) /\ hook \in ObjectType BY <1>2, MallocGood
<1>4. heap' = Updated(h, z, zn, h.live) BY DEF ZoneCleanup
<1>5. /\ h.live = heap.live \cup {hook} /\ hook.zone = z
      /\ \A w \in ZoneIds \ {z} : h.zone[w] = heap.zone[w]
      /\ h.zone[z].state = heap.zone[z].state /\ h.zone[z].hooks = heap.zone[z].hooks
  BY <1>2, MallocEffect
<1> HIDE DEF h, hook, z
<1>6. h \in HeapType /\ h.zone[z] \in ZoneType /\ h.live \in SUBSET ObjectType
  BY <1>2, <1>3 DEF Keeps, HeapInv, ZonesGood, HeapType
<1>7. zn \in ZoneType /\ zn.state = h.zone[z].state /\ zn.hooks = h.zone[z].hooks \cup {hook}
  BY <1>3, <1>6 DEF ZoneType
<1> HIDE DEF zn
<1>8. /\ heap'.live = h.live /\ heap'.zone[z] = zn
      /\ \A w \in ZoneIds \ {z} : heap'.zone[w] = h.zone[w]
  BY <1>2, <1>4, <1>6, <1>7, UpdatedHeap
<1> QED BY <1>2, <1>5, <1>7, <1>8 DEF z, hook

\* A hook changes no owner.
LEMMA ZoneCleanupOwned ==
  ASSUME OInv, NEW t \in Threads \cup Workers, NEW r \in Requests, ZoneCleanup(t, r)
  PROVE  WorkersGood' /\ Owned'
<1>1. \A w \in ZoneIds : Open(w)' <=> Open(w) BY CleanupEffect DEF Open
<1>2. \A w, k, a, b : Owns(w, k, a, b)' <=> Owns(w, k, a, b) BY DEF Owns, ZoneCleanup
<1>3. WorkersGood' BY DEF ZoneCleanup, OInv, WorkersGood, Lent
<1> QED BY <1>1, <1>2, <1>3, OwnedSame DEF OInv

\* A push of a zone: the new frame is its owner from then on.
LEMMA PushOwned ==
  ASSUME OInv, NEW t \in Threads \cup Workers, NEW f \in FrameType,
         NEW z \in ZoneIds, f.zone = z, f.kind # "borrowed",
         t \in Workers => stack[t] # <<>>,
         stack' = [stack EXCEPT ![t] = <<f>> \o stack[t]],
         futures' = futures, Open(z)',
         \A w \in ZoneIds \ {z} : Open(w)' <=> Open(w),
         UNCHANGED <<pending, varZone>>,
         \A k, a, b : Owns(z, k, a, b) => k = "callback",
         callbacks' \subseteq callbacks,
         \A cb \in callbacks : cb \in callbacks' <=> cb.zone # z
  PROVE  WorkersGood' /\ Owned'
<1> DEFINE s == <<f>> \o stack[t]
<1>1. IInv /\ WorkersGood /\ Owned BY DEF OInv
<1>2. /\ stack[t] \in Seq(FrameType) /\ BorrowOnly(stack[t], Lent(t))
  BY <1>1 DEF IInv, StacksGood, WorkersGood
<1>3. /\ \A d, w : FrameOwns(s, d, w) <=>
                      FrameOwns(stack[t], d, w) \/ (d = Len(stack[t]) + 1 /\ w = z)
      /\ BorrowOnly(s, Lent(t))
  BY <1>2, PushOwns
<1>4. stack' = [stack EXCEPT ![t] = s] OBVIOUS
<1> HIDE DEF s
<1>5. WorkersGood' BY <1>1, <1>3, <1>4, WorkersStack
<1>6. stack'[t] = s /\ \A v \in (Threads \cup Workers) \ {t} : stack'[v] = stack[v]
  BY <1>1, <1>4, StackRead
<1>7. \A w, b : Owns(w, "stack", t, b) <=> FrameOwns(stack[t], b, w) BY DEF Owns
<1>8. \A w, b : Owns(w, "stack", t, b)' <=>
                   FrameOwns(stack[t], b, w) \/ (b = Len(stack[t]) + 1 /\ w = z)
  BY <1>3, <1>6 DEF Owns
<1>9. \A w, k, a, b : k # "callback" /\ ~ (k = "stack" /\ a = t) =>
                          (Owns(w, k, a, b)' <=> Owns(w, k, a, b))
  <2>1. \A w, b : \A a \in (Threads \cup Workers) \ {t} :
            Owns(w, "stack", a, b)' <=> Owns(w, "stack", a, b)
    BY <1>6 DEF Owns
  <2>2. \A w, a, b : Owns(w, "stack", a, b)' \/ Owns(w, "stack", a, b) => a \in Threads \cup Workers
    BY DEF Owns
  <2>3. \A w, k, a, b : k \notin {"callback", "stack"} => (Owns(w, k, a, b)' <=> Owns(w, k, a, b))
    BY DEF Owns
  <2> QED BY <2>1, <2>2, <2>3
<1>10. \A w, a, b : Owns(w, "callback", a, b)' <=> Owns(w, "callback", a, b) /\ w # z
  BY DEF Owns
<1>11. PICK n : n = Len(stack[t]) + 1 OBVIOUS
<1>12. \A k, a, b : Owns(z, k, a, b)' <=> k = "stack" /\ a = t /\ b = n
  <2>1. \A k, a, b : k # "callback" => ~ Owns(z, k, a, b) OBVIOUS
  <2> QED BY <2>1, <1>7, <1>8, <1>9, <1>10, <1>11
<1>13. \A w \in ZoneIds \ {z} : \A k, a, b : Owns(w, k, a, b)' <=> Owns(w, k, a, b)
  BY <1>7, <1>8, <1>9, <1>10
<1>14. Owned'
  <2>1. Owns(z, "stack", t, n)' BY <1>12
  <2>2. \A w \in ZoneIds \ {z} : Open(w)' => \E k, a, b : Owns(w, k, a, b)'
    BY <1>1, <1>13 DEF Owned
  <2>3. \A w \in ZoneIds : Open(w)' => \E k, a, b : Owns(w, k, a, b)'
    BY <2>1, <2>2
  <2>4. \A w \in ZoneIds : \A k, a, b : Owns(w, k, a, b)' => Open(w)'
    BY <1>1, <1>13 DEF Owned
  <2>5. \A w \in ZoneIds : \A k, a, b, l, c, d :
           Owns(w, k, a, b)' /\ Owns(w, l, c, d)' => k = l /\ a = c /\ b = d
    BY <1>1, <1>13, <1>12 DEF Owned
  <2> QED BY <2>3, <2>4, <2>5 DEF Owned
<1> QED BY <1>5, <1>14

\* The zone of memzone is owned by its frame.
LEMMA BeginMemzoneOwned ==
  ASSUME OInv, NEW t \in Threads \cup Workers, NEW z \in ZoneIds, NEW n \in ZoneSizes,
         BeginMemzone(t, z, n)
  PROVE  WorkersGood' /\ Owned'
<1> DEFINE f == Frame(z, "memzone", {})
<1>1. OthersSame(heap, heap', z) /\ heap'.zone[z].state = "open"
  BY CreateEffect, ZonesAssumption DEF BeginMemzone, OInv, IInv
<1>2. f \in FrameType /\ f.zone = z /\ f.kind = "memzone" BY FrameGood
<1>3. stack' = [stack EXCEPT ![t] = <<f>> \o stack[t]] BY DEF BeginMemzone
<1> HIDE DEF f
<1>4. stack[t] # <<>> /\ ~ Open(z) BY DEF BeginMemzone, Running, Fresh, Open
<1>5. \A k, a, b : ~ Owns(z, k, a, b) BY <1>4 DEF OInv, Owned
<1>6. \A cb \in callbacks : cb.zone # z
  <2>1. \A cb \in callbacks : Owns(cb.zone, "callback", cb, 0) BY DEF Owns
  <2> QED BY <2>1, <1>5
<1>7. Open(z)' /\ \A w \in ZoneIds \ {z} : Open(w)' <=> Open(w) BY <1>1 DEF Open, OthersSame
<1>8. UNCHANGED <<callbacks, pending, varZone, futures>> BY DEF BeginMemzone
<1> QED BY <1>2, <1>3, <1>4, <1>5, <1>6, <1>7, <1>8, PushOwned

\* The zone of a callback passes to the stack of the thread that runs it.
LEMMA RunCallbackOwned ==
  ASSUME OInv, NEW t \in Threads \cup Workers, NEW cb \in callbacks, RunCallback(t, cb)
  PROVE  WorkersGood' /\ Owned'
<1> DEFINE f == Frame(cb.zone, "callback", cb.arg)
<1>1. cb.zone \in ZoneIds /\ cb.arg \in SUBSET ObjectType BY DEF OInv, IInv, CallbacksGood
<1>2. f \in FrameType /\ f.zone = cb.zone /\ f.kind = "callback" BY <1>1, FrameGood
<1>3. stack' = [stack EXCEPT ![t] = <<f>> \o stack[t]] BY DEF RunCallback
<1> HIDE DEF f
<1>4. Owns(cb.zone, "callback", cb, 0) BY DEF Owns
<1>5. Open(cb.zone) BY <1>1, <1>4 DEF OInv, Owned
<1>6. \A k, a, b : Owns(cb.zone, k, a, b) => k = "callback" /\ a = cb
  BY <1>1, <1>4 DEF OInv, Owned
<1>7. \A c \in callbacks : c.zone = cb.zone => c = cb
  <2>1. \A c \in callbacks : c.zone = cb.zone => Owns(cb.zone, "callback", c, 0) BY DEF Owns
  <2> QED BY <2>1, <1>6
<1>8. /\ callbacks' \subseteq callbacks
      /\ \A c \in callbacks : c \in callbacks' <=> c.zone # cb.zone
  BY <1>7 DEF RunCallback
<1>9. UNCHANGED <<heap, pending, varZone, futures>> /\ t \notin Workers
  BY ThreadsAssumption DEF RunCallback
<1>10. \A w \in ZoneIds : Open(w)' <=> Open(w) BY <1>9 DEF Open
<1> QED BY <1>1, <1>2, <1>3, <1>5, <1>6, <1>8, <1>9, <1>10, PushOwned

\* A pop of an owned zone that is destroyed, or given to a task.
LEMMA PopOwned ==
  ASSUME OInv, NEW t \in Threads \cup Workers, Running(t), Top(t).kind # "borrowed",
         NEW z \in ZoneIds, z = Top(t).zone, NEW s, BorrowOnly(s, Lent(t)),
         \A d, w : FrameOwns(s, d, w) <=> FrameOwns(stack[t], d, w) /\ d # Len(stack[t]),
         stack' = [stack EXCEPT ![t] = s], UNCHANGED <<callbacks, varZone, futures>>,
         \A w \in ZoneIds \ {z} : Open(w)' <=> Open(w),
         \/ pending' = pending /\ ~ Open(z)'
         \/ pending' = pending \cup {z} /\ Open(z)'
  PROVE  WorkersGood' /\ Owned'
<1>0. PICK n : n = Len(stack[t]) OBVIOUS
<1>1. IInv /\ WorkersGood /\ Owned BY DEF OInv
<1>2. stack[t] # <<>> BY <1>1, TopGood
<1>3. Owns(z, "stack", t, n)
  <2>1. FrameOwns(stack[t], n, z) BY <1>0, TopOwns
  <2> QED BY <2>1 DEF Owns
<1>4. \A k, a, b : Owns(z, k, a, b) => k = "stack" /\ a = t /\ b = n
  BY <1>1, <1>2, <1>3 DEF Owned
<1>5. WorkersGood' BY <1>1, <1>2, WorkersStack
<1>6. stack'[t] = s /\ \A v \in (Threads \cup Workers) \ {t} : stack'[v] = stack[v]
  BY <1>1, StackRead
<1>7. \A w, b : Owns(w, "stack", t, b) <=> FrameOwns(stack[t], b, w) BY DEF Owns
<1>8. \A w, b : Owns(w, "stack", t, b)' <=> FrameOwns(stack[t], b, w) /\ b # n
  BY <1>0, <1>6 DEF Owns
<1>9. \A w, k, a, b : k # "pending" /\ ~ (k = "stack" /\ a = t) =>
                          (Owns(w, k, a, b)' <=> Owns(w, k, a, b))
  <2>1. \A w, b : \A a \in (Threads \cup Workers) \ {t} :
            Owns(w, "stack", a, b)' <=> Owns(w, "stack", a, b)
    BY <1>6 DEF Owns
  <2>2. \A w, a, b : Owns(w, "stack", a, b)' \/ Owns(w, "stack", a, b) => a \in Threads \cup Workers
    BY DEF Owns
  <2>3. \A w, k, a, b : k \notin {"pending", "stack"} => (Owns(w, k, a, b)' <=> Owns(w, k, a, b))
    BY DEF Owns
  <2> QED BY <2>1, <2>2, <2>3
<1>10. \A w, a, b : w # z => (Owns(w, "pending", a, b)' <=> Owns(w, "pending", a, b))
  BY DEF Owns
<1>11. \A b, w : w # z => ~ (FrameOwns(stack[t], b, w) /\ b = n)
  <2>1. FrameOwns(stack[t], n, z) BY <1>3, <1>7
  <2> QED BY <2>1 DEF FrameOwns
<1>12. \A w \in ZoneIds \ {z} : \A k, a, b : Owns(w, k, a, b)' <=> Owns(w, k, a, b)
  BY <1>7, <1>8, <1>9, <1>10, <1>11
<1>13. \A k, a, b : k # "pending" => ~ Owns(z, k, a, b)' BY <1>4, <1>7, <1>8, <1>9
<1>14. CASE pending' = pending /\ ~ Open(z)'
  <2>1. \A a, b : ~ Owns(z, "pending", a, b) BY <1>4
  <2>2. \A a, b : Owns(z, "pending", a, b)' <=> Owns(z, "pending", a, b) BY <1>14 DEF Owns
  <2>3. \A k, a, b : ~ Owns(z, k, a, b)' BY <2>1, <2>2, <1>13
  <2> QED BY <2>3, <1>1, <1>2, <1>5, <1>12, <1>14, OwnedGone
<1>15. CASE pending' = pending \cup {z} /\ Open(z)'
  <2>1. \A a, b : Owns(z, "pending", a, b)' <=> a = z /\ b = 0 BY <1>15 DEF Owns
  <2>2. \A k, a, b : Owns(z, k, a, b)' <=> k = "pending" /\ a = z /\ b = 0 BY <2>1, <1>13
  <2>4. Owned' BY <2>2, <1>1, <1>2, <1>12, <1>15, OwnedOne
  <2> QED BY <2>4, <1>5
<1> QED BY <1>14, <1>15

\* The end of a callback destroys the zone that only its frame owned.
LEMMA EndCallbackOwned ==
  ASSUME OInv, NEW t \in Threads \cup Workers, EndCallback(t)
  PROVE  WorkersGood' /\ Owned'
<1> DEFINE s == Tail(stack[t])
<1>1. Running(t) /\ Top(t).kind = "callback" BY DEF EndCallback
<1>2. /\ stack[t] \in Seq(FrameType) /\ stack[t] # <<>> /\ BorrowOnly(stack[t], Lent(t))
      /\ HeapInv(heap)
  BY <1>1, TopOwns, TopGood DEF OInv, IInv
<1>3. PICK z \in ZoneIds : z = Top(t).zone BY <1>1, TopGood DEF OInv
<1>4. /\ \A d, w : FrameOwns(s, d, w) <=> FrameOwns(stack[t], d, w) /\ d # Len(stack[t])
      /\ BorrowOnly(s, Lent(t))
  BY <1>2, PopOwns
<1>5. stack' = [stack EXCEPT ![t] = s] BY DEF EndCallback
<1> HIDE DEF s
<1>6. OthersSame(heap, heap', z) /\ heap'.zone[z].state = "gone"
  BY <1>2, <1>3, DestroyEffect DEF EndCallback
<1>7. /\ ~ Open(z)'
      /\ \A w \in ZoneIds \ {z} : Open(w)' <=> Open(w)
  BY <1>6 DEF Open, OthersSame
<1>8. UNCHANGED <<callbacks, pending, varZone, futures>> BY DEF EndCallback
<1> QED BY <1>1, <1>4, <1>5, <1>7, <1>8, <1>3, PopOwned

\* What is below the zone of a memzone.
LEMMA BelowGood ==
  ASSUME IInv, NEW t \in Threads \cup Workers, Running(t), Top(t).kind = "memzone"
  PROVE  LET T == Tail(stack[t])
             below == stack[t][2]
         IN  /\ Len(stack[t]) >= 2 /\ T \in Seq(FrameType) /\ T # <<>> /\ T[1] = below
             /\ below \in FrameType /\ below.zone \in ZoneIds /\ Used(heap, below.zone)
<1> DEFINE T == Tail(stack[t])
           below == stack[t][2]
<1>1. /\ StackGood(heap, stack[t]) /\ stack[t] # <<>> /\ Top(t) = stack[t][1]
  BY TopGood
<1>2. stack[t] \in Seq(FrameType) /\ Len(stack[t]) \in Nat /\ Len(stack[t]) >= 2
  BY <1>1 DEF StackGood
<1>3. 2 \in DOMAIN stack[t] /\ below \in FrameType BY <1>2
<1>4. T \in Seq(FrameType) /\ Len(T) = Len(stack[t]) - 1 BY <1>2
<1>5. 1 \in 1 .. Len(stack[t]) - 1 BY <1>2
<1>6. \A i \in 1 .. Len(stack[t]) - 1 : Tail(stack[t])[i] = stack[t][i + 1] BY <1>2
<1>7. Tail(stack[t])[1] = stack[t][1 + 1] /\ 1 + 1 = 2 BY <1>5, <1>6
<1>8. Used(heap, below.zone) /\ below.zone \in ZoneIds BY <1>1, <1>3 DEF StackGood, FrameType
<1> HIDE DEF T, below
<1>9. T = Tail(stack[t]) /\ below = stack[t][2] BY DEF T, below
<1>10. T[1] = below BY <1>7, <1>9, Zenon
<1>11. T # <<>> BY <1>2, <1>4
<1> QED BY <1>2, <1>3, <1>4, <1>8, <1>10, <1>11 DEF T, below

\* The zone of memzone passes to the delayed task, or is destroyed.
LEMMA EndMemzoneOwned ==
  ASSUME OInv, NEW t \in Threads \cup Workers, NEW res \in AtMostOne(AllHeld(t)),
         NEW delayed \in BOOLEAN, EndMemzone(t, res, delayed)
  PROVE  WorkersGood' /\ Owned'
<1> DEFINE below == stack[t][2]
           T == Tail(stack[t])
           H == T[1].held \cup ZCopy(heap, res, Top(t).zone, below.zone)
           s == [T EXCEPT ![1].held = H]
           h == ZCopyHeap(heap, res, Top(t).zone, below.zone)
<1>1. Running(t) /\ Top(t).kind = "memzone" BY DEF EndMemzone
<1>2. PICK z \in ZoneIds : z = Top(t).zone BY <1>1, TopGood DEF OInv
<1>3. /\ stack[t] \in Seq(FrameType) /\ stack[t] # <<>> /\ BorrowOnly(stack[t], Lent(t))
      /\ HeapInv(heap) /\ res \in SUBSET ObjectType /\ Open(z)
  BY <1>1, <1>2, TopOwns, TopGood, AtMostOneGood DEF OInv, IInv
<1>4. T \in Seq(FrameType) /\ T # <<>> /\ below.zone \in ZoneIds /\ Used(heap, below.zone)
  BY <1>1, BelowGood DEF OInv
<1>5. /\ \A d, w : FrameOwns(T, d, w) <=> FrameOwns(stack[t], d, w) /\ d # Len(stack[t])
      /\ BorrowOnly(T, Lent(t))
  BY <1>3, PopOwns
<1>6. stack' = [stack EXCEPT ![t] = s] BY DEF EndMemzone
<1>7. SameZones(heap, h) BY <1>3, <1>4, ZCopyEffect
<1>8. HeapInv(h) BY <1>3, <1>4, ZCopyGood DEF Keeps
<1>9. heap' = (IF delayed THEN h ELSE Destroy(h, z)) BY <1>2 DEF EndMemzone
<1>10. pending' = (IF delayed THEN pending \cup {z} ELSE pending) BY <1>2 DEF EndMemzone
<1>11. UNCHANGED <<callbacks, varZone, futures>> BY DEF EndMemzone
<1> HIDE DEF H, T, h
<1>12. /\ \A d, w : FrameOwns(s, d, w) <=> FrameOwns(stack[t], d, w) /\ d # Len(stack[t])
       /\ BorrowOnly(s, Lent(t))
  BY <1>4, <1>5, HeldOwns
<1> HIDE DEF s
<1>13. CASE delayed
  <2>1. \A w \in ZoneIds : Open(w)' <=> Open(w) BY <1>7, <1>9, <1>13 DEF Open, SameZones
  <2>2. Open(z)' /\ pending' = pending \cup {z} BY <2>1, <1>3, <1>10, <1>13
  <2> QED BY <2>1, <2>2, <1>1, <1>2, <1>6, <1>11, <1>12, PopOwned
<1>14. CASE ~ delayed
  <2>1. heap' = Destroy(h, z) /\ pending' = pending BY <1>9, <1>10, <1>14
  <2>2. OthersSame(h, heap', z) /\ heap'.zone[z].state = "gone" BY <2>1, <1>8, DestroyEffect
  <2>3. \A w \in ZoneIds \ {z} : Open(w)' <=> Open(w)
    BY <2>2, <1>7 DEF Open, OthersSame, SameZones
  <2>4. ~ Open(z)' BY <2>2 DEF Open
  <2> QED BY <2>1, <2>3, <2>4, <1>1, <1>2, <1>6, <1>11, <1>12, PopOwned
<1> QED BY <1>13, <1>14

\* The zone of a call is owned by the callback that waits.
LEMMA ScheduleOwned ==
  ASSUME OInv, NEW t \in Threads \cup Workers, NEW z \in ZoneIds,
         NEW arg \in AtMostOne(AllHeld(t)), Schedule(t, z, arg)
  PROVE  WorkersGood' /\ Owned'
<1> DEFINE made == Create(heap, z, CallSize)
<1>1. Running(t) /\ arg \in SUBSET ObjectType BY TopGood, AtMostOneGood DEF Schedule, OInv
<1>2. Keeps(heap, made) /\ Used(made, z)
  BY CreateGood, ZonesAssumption DEF Schedule, OInv, IInv, Fresh, Used
<1>3. OthersSame(heap, made, z) /\ made.zone[z].state = "open"
  BY CreateEffect, ZonesAssumption DEF OInv, IInv
<1>4. PICK cb : cb.zone = z /\ callbacks' = callbacks \cup {cb} BY DEF Schedule
<1>5. heap' = ZCopyHeap(made, arg, Top(t).zone, z) BY DEF Schedule
<1> HIDE DEF made
<1>6. SameZones(made, heap') BY <1>1, <1>2, <1>5, ZCopyEffect DEF Keeps
<1>7. Open(z)' /\ \A w \in ZoneIds \ {z} : Open(w)' <=> Open(w)
  BY <1>3, <1>6 DEF Open, SameZones, OthersSame
<1>8. \A k, a, b : ~ Owns(z, k, a, b) BY DEF OInv, Owned, Schedule, Fresh, Open
<1>9. UNCHANGED <<stack, pending, varZone, futures>> BY DEF Schedule
<1>10. WorkersGood' BY <1>9 DEF OInv, WorkersGood, Lent
<1>11. \A w, k, a, b : k # "callback" => (Owns(w, k, a, b)' <=> Owns(w, k, a, b))
  BY <1>9 DEF Owns
<1>12. \A w, a, b : Owns(w, "callback", a, b)' <=>
                       Owns(w, "callback", a, b) \/ (w = z /\ a = cb /\ b = 0)
  BY <1>4 DEF Owns
<1>13. \A k, a, b : Owns(z, k, a, b)' <=> k = "callback" /\ a = cb /\ b = 0
  BY <1>8, <1>11, <1>12
<1>14. \A w \in ZoneIds \ {z} : \A k, a, b : Owns(w, k, a, b)' <=> Owns(w, k, a, b)
  BY <1>11, <1>12
<1>15. Owned' BY <1>7, <1>13, <1>14, OwnedOne DEF OInv
<1> QED BY <1>10, <1>15

\* The delayed task was the only owner of its zone.
LEMMA DestroyDelayedOwned ==
  ASSUME OInv, NEW z \in ZoneIds, DestroyDelayed(z)
  PROVE  WorkersGood' /\ Owned'
<1>1. OthersSame(heap, heap', z) /\ heap'.zone[z].state = "gone"
  BY DestroyEffect DEF DestroyDelayed, OInv, IInv
<1>2. ~ Open(z)' /\ \A w \in ZoneIds \ {z} : Open(w)' <=> Open(w) BY <1>1 DEF Open, OthersSame
<1>3. Owns(z, "pending", z, 0) BY DEF Owns, DestroyDelayed
<1>4. \A k, a, b : Owns(z, k, a, b) => k = "pending" BY <1>3 DEF OInv, Owned
<1>5. UNCHANGED <<stack, callbacks, varZone, futures>> /\ pending' = pending \ {z}
  BY DEF DestroyDelayed
<1>6. WorkersGood' BY <1>5 DEF OInv, WorkersGood, Lent
<1>7. \A w, k, a, b : k # "pending" => (Owns(w, k, a, b)' <=> Owns(w, k, a, b))
  BY <1>5 DEF Owns
<1>8. \A w, a, b : Owns(w, "pending", a, b)' <=> Owns(w, "pending", a, b) /\ w # z
  BY <1>5 DEF Owns
<1>9. \A k, a, b : ~ Owns(z, k, a, b)' BY <1>4, <1>7, <1>8
<1>10. \A w \in ZoneIds \ {z} : \A k, a, b : Owns(w, k, a, b)' <=> Owns(w, k, a, b)
  BY <1>7, <1>8
<1>11. Owned' BY <1>2, <1>9, <1>10, OwnedGone DEF OInv
<1> QED BY <1>6, <1>11

\* The heap after a closure was made in a new zone.
LEMMA MadeEffect ==
  ASSUME HeapInv(heap), NEW z \in ZoneIds, Fresh(z), NEW n \in Nat,
         NEW rs \in ClosureShapes, heap' = ClosureHeap(Create(heap, z, n), z, rs)
  PROVE  /\ heap.live \subseteq heap'.live
         /\ OthersSame(heap, heap', z)
         /\ heap'.zone[z].state = "open" /\ heap'.zone[z].hooks = {}
<1> DEFINE made == Create(heap, z, n)
<1>1. HeapInv(made) /\ Used(made, z) BY CreateGood DEF Fresh, Used, Keeps
<1>2. /\ made.live = heap.live /\ OthersSame(heap, made, z)
      /\ made.zone[z].state = "open" /\ made.zone[z].hooks = {}
  BY CreateEffect
<1> HIDE DEF made
<1>3. heap' = ClosureHeap(made, z, rs) BY DEF made
<1>4. /\ made.live \subseteq heap'.live
      /\ \A w \in ZoneIds \ {z} : heap'.zone[w] = made.zone[w]
      /\ heap'.zone[z].state = made.zone[z].state /\ heap'.zone[z].hooks = made.zone[z].hooks
  BY <1>1, <1>3, ClosureEffect
<1> QED BY <1>2, <1>4 DEF OthersSame

\* The old zone of a name passes to a delayed task, the new one to the name.
LEMMA RebindOwned ==
  ASSUME OInv, NEW t \in Threads \cup Workers, NEW f \in Funcs, NEW z \in ZoneIds,
         NEW n \in ZoneSizes, NEW rs \in ClosureShapes, Rebind(t, f, z, n, rs)
  PROVE  WorkersGood' /\ Owned'
<1>1. OthersSame(heap, heap', z) /\ heap'.zone[z].state = "open"
  BY MadeEffect, ZonesAssumption DEF Rebind, OInv, IInv
<1>2. Open(z)' /\ ~ Open(z) /\ \A w \in ZoneIds \ {z} : Open(w)' <=> Open(w)
  BY <1>1 DEF Rebind, Fresh, Open, OthersSame
<1>3. \A k, a, b : ~ Owns(z, k, a, b) BY <1>2 DEF OInv, Owned
<1>4. UNCHANGED <<stack, callbacks, futures>> BY DEF Rebind
<1>5. WorkersGood' BY <1>4 DEF OInv, WorkersGood, Lent
<1>6. PICK y : y = varZone[f] OBVIOUS
<1>7. /\ varZone \in [Funcs -> ZoneIds \cup {None}] /\ varZone' = [varZone EXCEPT ![f] = z]
      /\ pending' = pending \cup ({y} \ {None})
  BY <1>6 DEF Rebind, OInv, IInv, RestGood
<1>8. \A w, k, a, b : k \notin {"pending", "bound"} => (Owns(w, k, a, b)' <=> Owns(w, k, a, b))
  BY <1>4 DEF Owns
<1>9. \A w \in ZoneIds : \A a, b :
          Owns(w, "pending", a, b)' <=> Owns(w, "pending", a, b) \/ (w = y /\ a = y /\ b = 0)
  BY <1>7, ThreadsAssumption DEF Owns
<1>10. varZone'[f] = z /\ \A g \in Funcs \ {f} : varZone'[g] = varZone[g] BY <1>7
<1>11. \A w, a, b : Owns(w, "bound", a, b)' <=>
            IF a = f THEN w = z /\ b = 0 ELSE Owns(w, "bound", a, b)
  BY <1>10 DEF Owns
<1>12. \A w, b : Owns(w, "bound", f, b) <=> w = y /\ b = 0 BY <1>6 DEF Owns
<1>13. z # y BY <1>3, <1>12
<1>14. \A k, a, b : Owns(z, k, a, b)' <=> k = "bound" /\ a = f /\ b = 0
  BY <1>3, <1>8, <1>9, <1>11, <1>13
<1>15. ASSUME y \in ZoneIds
       PROVE  Open(y) /\ \A k, a, b : Owns(y, k, a, b)' <=> k = "pending" /\ a = y /\ b = 0
  <2>1. Owns(y, "bound", f, 0) BY <1>12
  <2>2. Open(y) /\ \A k, a, b : Owns(y, k, a, b) => k = "bound" /\ a = f /\ b = 0
    BY <2>1, <1>15 DEF OInv, Owned
  <2> QED BY <2>2, <1>8, <1>9, <1>11, <1>13, <1>15
<1>16. \A w \in ZoneIds \ {y, z} : \A k, a, b : Owns(w, k, a, b)' <=> Owns(w, k, a, b)
  BY <1>8, <1>9, <1>11, <1>12
<1>17. Owned'
  <2>1. Owns(z, "bound", f, 0)' BY <1>14
  <2>2. y \in ZoneIds => Owns(y, "pending", y, 0)' BY <1>15
  <2>3. \A w \in ZoneIds \ {y, z} : Open(w)' => \E k, a, b : Owns(w, k, a, b)'
    BY <1>2, <1>16 DEF OInv, Owned
  <2>4. \A w \in ZoneIds : Open(w)' => \E k, a, b : Owns(w, k, a, b)' BY <2>1, <2>2, <2>3
  <2>5. \A w \in ZoneIds : \A k, a, b : Owns(w, k, a, b)' => Open(w)'
    BY <1>2, <1>13, <1>15, <1>16 DEF OInv, Owned
  <2>6. \A w \in ZoneIds : \A k, a, b, l, c, d :
           Owns(w, k, a, b)' /\ Owns(w, l, c, d)' => k = l /\ a = c /\ b = d
    BY <1>14, <1>15, <1>16 DEF OInv, Owned
  <2> QED BY <2>4, <2>5, <2>6 DEF Owned
<1> QED BY <1>5, <1>17

\* The zone of async is owned by the future and borrowed by the thread.
LEMMA ForkOwned ==
  ASSUME OInv, NEW t \in Threads \cup Workers, NEW u \in Workers, NEW z \in ZoneIds,
         NEW rs \in ClosureShapes, Fork(t, u, z, rs)
  PROVE  WorkersGood' /\ Owned'
<1> DEFINE f == Frame(z, "borrowed", {})
           d == [state |-> "running", zone |-> z, res |-> {}]
<1>1. OthersSame(heap, heap', z) /\ heap'.zone[z].state = "open"
  BY MadeEffect, ZonesAssumption DEF Fork, OInv, IInv
<1>2. Open(z)' /\ ~ Open(z) /\ \A w \in ZoneIds \ {z} : Open(w)' <=> Open(w)
  BY <1>1 DEF Fork, Fresh, Open, OthersSame
<1>3. \A k, a, b : ~ Owns(z, k, a, b) BY <1>2 DEF OInv, Owned
<1>4. UNCHANGED <<callbacks, pending, varZone>> BY DEF Fork
<1>5. f \in FrameType /\ f.zone = z /\ f.kind = "borrowed" BY FrameGood
<1>6. d.state = "running" /\ d.zone = z /\ d.res = {} OBVIOUS
<1>7. stack' = [stack EXCEPT ![u] = <<f>>] /\ futures' = [futures EXCEPT ![u] = d]
  BY DEF Fork
<1> HIDE DEF f, d
<1>8. stack'[u] = <<f>> /\ \A v \in (Threads \cup Workers) \ {u} : stack'[v] = stack[v]
  BY <1>7, StackRead DEF OInv
<1>9. futures'[u] = d /\ \A v \in Workers \ {u} : futures'[v] = futures[v]
  BY <1>7 DEF OInv, IInv, FuturesGood
<1>10. /\ \A b, w : ~ FrameOwns(<<f>>, b, w)
       /\ \A Z : z \in Z => BorrowOnly(<<f>>, Z)
  BY <1>5, SingleOwns
<1>11. stack[u] = <<>> /\ futures[u].zone = None BY DEF Fork, OInv, WorkersGood
<1>12. WorkersGood'
  <2>1. z \in Lent(u)' /\ \A v \in (Threads \cup Workers) \ {u} : Lent(v)' = Lent(v)
    BY <1>6, <1>9 DEF Lent
  <2>2. \A v \in Threads \cup Workers : BorrowOnly(stack'[v], Lent(v)')
    BY <2>1, <1>8, <1>10 DEF OInv, WorkersGood
  <2>3. <<f>> # <<>> OBVIOUS
  <2>4. \A v \in Workers :
          /\ futures'[v].state = "none" => stack'[v] = <<>>
          /\ futures'[v].state \notin {"running", "finished"} => futures'[v].zone = None
          /\ futures'[v].state # "finished" => futures'[v].res = {}
    BY <1>6, <1>8, <1>9 DEF OInv, WorkersGood
  <2> QED BY <2>2, <2>4 DEF WorkersGood
<1>13. \A w, k, a, b : k \notin {"stack", "future"} => (Owns(w, k, a, b)' <=> Owns(w, k, a, b))
  BY <1>4 DEF Owns
<1>14. \A w, a, b : Owns(w, "stack", a, b)' <=> Owns(w, "stack", a, b)
  <2>1. \A b, w : ~ FrameOwns(stack[u], b, w)
    <3>1. \A b \in 1 .. Len(<<>>) : FALSE OBVIOUS
    <3> QED BY <3>1, <1>11 DEF FrameOwns
  <2> QED BY <2>1, <1>8, <1>10 DEF Owns
<1>15. \A w \in ZoneIds : \A a, b :
          Owns(w, "future", a, b)' <=> Owns(w, "future", a, b) \/ (w = z /\ a = u /\ b = 0)
  BY <1>6, <1>9, <1>11, ThreadsAssumption DEF Owns
<1>16. \A k, a, b : Owns(z, k, a, b)' <=> k = "future" /\ a = u /\ b = 0
  BY <1>3, <1>13, <1>14, <1>15
<1>17. \A w \in ZoneIds \ {z} : \A k, a, b : Owns(w, k, a, b)' <=> Owns(w, k, a, b)
  BY <1>13, <1>14, <1>15
<1>18. Owned' BY <1>2, <1>16, <1>17, OwnedOne DEF OInv
<1> QED BY <1>12, <1>18

\* A thread that ends has the zone it borrowed and no other.
LEMMA BorrowerGood ==
  ASSUME OInv, NEW u \in Threads \cup Workers, Running(u), Top(u).kind = "borrowed"
  PROVE  /\ u \in Workers /\ Len(stack[u]) = 1 /\ stack[u][1].zone = futures[u].zone
         /\ futures[u].state = "running"
<1>1. /\ stack[u] \in Seq(FrameType) /\ stack[u] # <<>> /\ Top(u) = stack[u][1]
      /\ BorrowOnly(stack[u], Lent(u))
  BY TopGood, TopOwns DEF OInv
<1>2. 1 \in DOMAIN stack[u] BY <1>1
<1>3. 1 = Len(stack[u]) /\ stack[u][1].zone \in Lent(u) BY <1>1, <1>2 DEF BorrowOnly
<1>4. u \in Workers /\ stack[u][1].zone = futures[u].zone BY <1>3 DEF Lent
<1>5. Borrowed(stack[u]) BY <1>1, <1>2 DEF Borrowed
<1> QED BY <1>3, <1>4, <1>5 DEF OInv, IInv, FuturesGood

\* The default zone of an ended thread is owned by its stack.
LEMMA WorkerEndOwned ==
  ASSUME OInv, NEW u \in Threads \cup Workers, NEW z \in ZoneIds,
         NEW res \in AtMostOne(AllHeld(u)), WorkerEnd(u, z, res)
  PROVE  WorkersGood' /\ Owned'
<1> DEFINE f == Frame(z, "ended", {})
           d == [futures[u] EXCEPT !.state = "finished", !.res = res]
<1>1. Running(u) /\ Top(u).kind = "borrowed" BY DEF WorkerEnd
<1>2. /\ u \in Workers /\ Len(stack[u]) = 1 /\ futures[u].state = "running"
      /\ futures \in [Workers -> FutureType]
  BY <1>1, BorrowerGood DEF OInv, IInv, FuturesGood
<1>3. OthersSame(heap, heap', z) /\ heap'.zone[z].state = "open"
  BY CreateEffect, ZonesAssumption DEF WorkerEnd, OInv, IInv
<1>4. Open(z)' /\ ~ Open(z) /\ \A w \in ZoneIds \ {z} : Open(w)' <=> Open(w)
  BY <1>3 DEF WorkerEnd, Fresh, Open, OthersSame
<1>5. \A k, a, b : ~ Owns(z, k, a, b) BY <1>4 DEF OInv, Owned
<1>6. UNCHANGED <<callbacks, pending, varZone>> BY DEF WorkerEnd
<1>7. f \in FrameType /\ f.zone = z /\ f.kind = "ended" BY FrameGood
<1>8. d.state = "finished" /\ d.zone = futures[u].zone BY <1>2 DEF FutureType
<1>9. stack' = [stack EXCEPT ![u] = <<f>>] /\ futures' = [futures EXCEPT ![u] = d]
  BY DEF WorkerEnd
<1> HIDE DEF f, d
<1>10. stack'[u] = <<f>> /\ \A v \in (Threads \cup Workers) \ {u} : stack'[v] = stack[v]
  BY <1>9, StackRead DEF OInv
<1>11. futures'[u] = d /\ \A v \in Workers \ {u} : futures'[v] = futures[v] BY <1>2, <1>9
<1>12. /\ \A b, w : FrameOwns(<<f>>, b, w) <=> b = 1 /\ w = z
       /\ \A Z : BorrowOnly(<<f>>, Z)
  BY <1>7, SingleOwns
<1>13. WorkersGood'
  <2>1. \A v \in Threads \cup Workers : Lent(v)' = Lent(v) BY <1>8, <1>11 DEF Lent
  <2>2. \A v \in Threads \cup Workers : BorrowOnly(stack'[v], Lent(v)')
    BY <2>1, <1>10, <1>12 DEF OInv, WorkersGood
  <2>3. \A v \in Workers :
          /\ futures'[v].state = "none" => stack'[v] = <<>>
          /\ futures'[v].state \notin {"running", "finished"} => futures'[v].zone = None
          /\ futures'[v].state # "finished" => futures'[v].res = {}
    BY <1>8, <1>10, <1>11 DEF OInv, WorkersGood
  <2> QED BY <2>2, <2>3 DEF WorkersGood
<1>14. \A w, k, a, b : k # "stack" => (Owns(w, k, a, b)' <=> Owns(w, k, a, b))
  BY <1>6, <1>8, <1>11 DEF Owns
<1>15. \A b, w : ~ FrameOwns(stack[u], b, w)
  <2>1. stack[u][1].kind = "borrowed" BY <1>1, TopGood DEF OInv
  <2>2. \A b \in 1 .. 1 : 1 + 1 - b = 1 OBVIOUS
  <2> QED BY <2>1, <2>2, <1>2 DEF FrameOwns
<1>16. \A w, a, b : Owns(w, "stack", a, b)' <=>
                       Owns(w, "stack", a, b) \/ (w = z /\ a = u /\ b = 1)
  BY <1>10, <1>12, <1>15 DEF Owns
<1>17. \A k, a, b : Owns(z, k, a, b)' <=> k = "stack" /\ a = u /\ b = 1
  BY <1>5, <1>14, <1>16
<1>18. \A w \in ZoneIds \ {z} : \A k, a, b : Owns(w, k, a, b)' <=> Owns(w, k, a, b)
  BY <1>14, <1>16
<1>19. Owned' BY <1>4, <1>17, <1>18, OwnedOne DEF OInv
<1> QED BY <1>13, <1>19

\* The zone is destroyed with the future that owned it.
LEMMA JoinOwned ==
  ASSUME OInv, NEW t \in Threads \cup Workers, NEW u \in Workers, Join(t, u)
  PROVE  WorkersGood' /\ Owned'
<1> DEFINE h == ZCopyHeap(heap, futures[u].res, futures[u].zone, Top(t).zone)
           H == stack[t][1].held \cup ZCopy(heap, futures[u].res, futures[u].zone, Top(t).zone)
           s == [stack[t] EXCEPT ![1].held = H]
           d == [state |-> "joined", zone |-> None, res |-> {}]
<1>1. Running(t) /\ futures[u].state = "finished" /\ t # u
  BY ThreadsAssumption DEF Join
<1>2. /\ futures \in [Workers -> FutureType] /\ futures[u].res \in SUBSET ObjectType
      /\ HeapInv(heap)
  BY DEF OInv, IInv, FuturesGood, FutureType
<1>3. PICK z \in ZoneIds : z = futures[u].zone BY <1>1 DEF OInv, IInv, FuturesGood
<1>4. Owns(z, "future", u, 0) BY <1>3 DEF Owns
<1>5. \A k, a, b : Owns(z, k, a, b) => k = "future" /\ a = u /\ b = 0
  BY <1>4 DEF OInv, Owned
<1>6. /\ heap' = Destroy(h, z) /\ stack' = [stack EXCEPT ![t] = s]
      /\ futures' = [futures EXCEPT ![u] = d]
  BY <1>3 DEF Join
<1>7. Top(t).zone \in ZoneIds /\ Used(heap, Top(t).zone) BY <1>1, TopGood DEF OInv
<1>8. HeapInv(h) /\ SameZones(heap, h) BY <1>2, <1>7, ZCopyGood, ZCopyEffect DEF Keeps
<1>9. d.state = "joined" /\ d.zone = None /\ d.res = {} OBVIOUS
<1> HIDE DEF h, H, d
<1>10. OthersSame(h, heap', z) /\ heap'.zone[z].state = "gone" BY <1>6, <1>8, DestroyEffect
<1>11. ~ Open(z)' /\ \A w \in ZoneIds \ {z} : Open(w)' <=> Open(w)
  BY <1>8, <1>10 DEF Open, OthersSame, SameZones
<1>12. /\ stack[t] \in Seq(FrameType) /\ stack[t] # <<>> /\ BorrowOnly(stack[t], Lent(t))
  BY <1>1, TopOwns
<1>13. /\ \A b, w : FrameOwns(s, b, w) <=> FrameOwns(stack[t], b, w)
       /\ BorrowOnly(s, Lent(t)) /\ Len(s) = Len(stack[t])
  BY <1>12, HeldOwns
<1> HIDE DEF s
<1>14. stack'[t] = s /\ \A v \in (Threads \cup Workers) \ {t} : stack'[v] = stack[v]
  BY <1>6, StackRead DEF OInv
<1>15. futures'[u] = d /\ \A v \in Workers \ {u} : futures'[v] = futures[v] BY <1>2, <1>6
<1>16. WorkersGood'
  <2>1. \A v \in (Threads \cup Workers) \ {u} : Lent(v)' = Lent(v) BY <1>15 DEF Lent
  <2>2. \A v \in (Threads \cup Workers) \ {u} : BorrowOnly(stack'[v], Lent(v)')
    BY <2>1, <1>13, <1>14 DEF OInv, WorkersGood
  <2>3. BorrowOnly(stack'[u], Lent(u)')
    <3>1. ~ Borrowed(stack[u]) BY <1>1 DEF OInv, IInv, FuturesGood
    <3>2. stack'[u] = stack[u] BY <1>1, <1>14
    <3> QED BY <3>1, <3>2 DEF Borrowed, BorrowOnly
  <2>4. \A v \in Workers :
          /\ futures'[v].state = "none" => stack'[v] = <<>>
          /\ futures'[v].state \notin {"running", "finished"} => futures'[v].zone = None
          /\ futures'[v].state # "finished" => futures'[v].res = {}
    <3>1. t \notin Workers BY ThreadsAssumption DEF Join
    <3> QED BY <3>1, <1>9, <1>14, <1>15 DEF OInv, WorkersGood
  <2> QED BY <2>2, <2>3, <2>4 DEF WorkersGood
<1>17. \A w, k, a, b : k \notin {"stack", "future"} => (Owns(w, k, a, b)' <=> Owns(w, k, a, b))
  BY DEF Owns, Join
<1>18. \A w, a, b : Owns(w, "stack", a, b)' <=> Owns(w, "stack", a, b)
  BY <1>13, <1>14 DEF Owns
<1>19. \A w \in ZoneIds : \A a, b :
          Owns(w, "future", a, b)' <=> Owns(w, "future", a, b) /\ a # u
  BY <1>9, <1>15, ThreadsAssumption DEF Owns
<1>20. \A w, b : Owns(w, "future", u, b) => w = z BY <1>3 DEF Owns
<1>21. \A k, a, b : ~ Owns(z, k, a, b)' BY <1>5, <1>17, <1>18, <1>19
<1>22. \A w \in ZoneIds \ {z} : \A k, a, b : Owns(w, k, a, b)' <=> Owns(w, k, a, b)
  BY <1>17, <1>18, <1>19, <1>20
<1>23. Owned' BY <1>11, <1>21, <1>22, OwnedGone DEF OInv
<1> QED BY <1>16, <1>23

\* Nothing is owned at the start.
LEMMA InitOwned == Init => OInv
<1> SUFFICES ASSUME Init PROVE OInv OBVIOUS
<1>1. \A b \in 1 .. Len(<<>>) : FALSE OBVIOUS
<1>2. DOMAIN <<>> = {} OBVIOUS
<1>3. \A z \in ZoneIds : ~ Open(z)
  <2>1. heap.zone = [z \in ZoneIds |-> NoZone] /\ NoZone.state = "none" BY DEF Init, NoZone
  <2> QED BY <2>1 DEF Open
<1>4. \A z \in ZoneIds : \A k, a, b : ~ Owns(z, k, a, b)
  BY <1>1, ThreadsAssumption DEF Init, Owns, FrameOwns
<1>5. Owned BY <1>3, <1>4 DEF Owned
<1>6. WorkersGood BY <1>2 DEF Init, WorkersGood, BorrowOnly
<1> QED BY <1>5, <1>6, InitGood DEF OInv

\* Every operation leaves each zone with one owner.
LEMMA NextOwned == OInv /\ [Next]_vars => OInv'
<1> SUFFICES ASSUME OInv, [Next]_vars PROVE WorkersGood' /\ Owned'
  BY NextGood DEF OInv
<1>1. CASE UNCHANGED vars
  <2>1. \A w, k, a, b : Owns(w, k, a, b)' <=> Owns(w, k, a, b) BY <1>1 DEF vars, Owns
  <2>2. \A w : Open(w)' <=> Open(w) BY <1>1 DEF vars, Open
  <2>3. Owned' BY <2>1, <2>2, OwnedSame DEF OInv
  <2> QED BY <2>3, <1>1 DEF vars, OInv, WorkersGood, Lent
<1>2. ASSUME NEW z \in ZoneIds, DestroyDelayed(z) PROVE WorkersGood' /\ Owned'
  BY <1>2, DestroyDelayedOwned
<1>3. ASSUME NEW t \in Threads \cup Workers, Compiled(t) PROVE WorkersGood' /\ Owned'
  <2>1. CASE \E z \in ZoneIds : PeekEmpty(t, z) BY <2>1, PeekEmptyOwned
  <2>2. CASE \E r \in Requests : Alloc(t, r) BY <2>2, AllocOwned
  <2>3. CASE \E r \in Requests : ZoneCleanup(t, r) BY <2>3, ZoneCleanupOwned
  <2>4. CASE \E rs \in ClosureShapes : MakeClosure(t, rs) BY <2>4, MakeClosureOwned
  <2>5. CASE ResetZone(t) BY <2>5, ResetZoneOwned
  <2>6. CASE \E z \in ZoneIds, s \in ZoneSizes : BeginMemzone(t, z, s) BY <2>6, BeginMemzoneOwned
  <2>7. CASE \E res \in AtMostOne(AllHeld(t)), delayed \in BOOLEAN : EndMemzone(t, res, delayed)
    BY <2>7, EndMemzoneOwned
  <2>8. CASE \E z \in ZoneIds, arg \in AtMostOne(AllHeld(t)) : Schedule(t, z, arg)
    BY <2>8, ScheduleOwned
  <2>9. CASE \E cb \in callbacks : RunCallback(t, cb) BY <2>9, RunCallbackOwned
  <2>10. CASE EndCallback(t) BY <2>10, EndCallbackOwned
  <2>11. CASE \E f \in Funcs, z \in ZoneIds, s \in ZoneSizes, rs \in ClosureShapes :
                 Rebind(t, f, z, s, rs)
    BY <2>11, RebindOwned
  <2>12. CASE \E u \in Workers, z \in ZoneIds, rs \in ClosureShapes : Fork(t, u, z, rs)
    BY <2>12, ForkOwned
  <2>13. CASE \E z \in ZoneIds, res \in AtMostOne(AllHeld(t)) : WorkerEnd(t, z, res)
    BY <2>13, WorkerEndOwned
  <2>14. CASE \E u \in Workers : Join(t, u) BY <2>14, JoinOwned
  <2> QED BY <1>3, <2>1, <2>2, <2>3, <2>4, <2>5, <2>6, <2>7, <2>8, <2>9, <2>10, <2>11, <2>12,
             <2>13, <2>14 DEF Compiled
<1> QED BY <1>1, <1>2, <1>3 DEF Next

\* The frames, tasks, callbacks, names and futures of Owners are those of Owns.
LEMMA OwnersAreOwns ==
  ASSUME IInv, NEW z \in ZoneIds
  PROVE  /\ \A x \in Owners(z) : \E k, a, b : Owns(z, k, a, b)
         /\ \A x, y \in Owners(z) :
               (\A k, a, b, l, c, d :
                    Owns(z, k, a, b) /\ Owns(z, l, c, d) => k = l /\ a = c /\ b = d) => x = y
         /\ \A k, a, b : Owns(z, k, a, b) => Owners(z) # {}
<1> DEFINE T == Threads \cup Workers
<1>1. \A t \in T : stack[t] \in Seq(FrameType) BY DEF IInv, StacksGood
<1>2. ASSUME NEW t \in T, NEW i \in Frames(t, z)
      PROVE  /\ Owns(z, "stack", t, Len(stack[t]) + 1 - i)
             /\ i \in Int /\ Len(stack[t]) \in Int
  <2>1. stack[t] \in Seq(FrameType) /\ DOMAIN stack[t] = 1 .. Len(stack[t]) /\ Len(stack[t]) \in Nat
    BY <1>1
  <2>2. i \in 1 .. Len(stack[t]) /\ stack[t][i].zone = z /\ stack[t][i].kind # "borrowed"
    BY <2>1 DEF Frames
  <2>3. PICK d : d = Len(stack[t]) + 1 - i OBVIOUS
  <2>4. d \in 1 .. Len(stack[t]) /\ Len(stack[t]) + 1 - d = i BY <2>1, <2>2, <2>3
  <2>5. FrameOwns(stack[t], d, z) BY <2>2, <2>4 DEF FrameOwns
  <2> QED BY <2>1, <2>2, <2>3, <2>5 DEF Owns
<1>3. ASSUME NEW x \in Owners(z)
      PROVE  \/ \E t \in T : \E i \in Frames(t, z) : x = <<"stack", t, i>>
             \/ x = <<"pending", z>> /\ z \in pending
             \/ \E cb \in callbacks : x = <<"callback", cb.arg>> /\ cb.zone = z
             \/ \E f \in Funcs : x = <<"bound", f>> /\ varZone[f] = z
             \/ \E u \in Workers : x = <<"future", u>> /\ futures[u].zone = z
  <2>1. ASSUME x \in FrameOwners(z) PROVE \E t \in T : \E i \in Frames(t, z) : x = <<"stack", t, i>>
    BY <2>1 DEF FrameOwners
  <2>2. ASSUME x \in TaskOwners(z) PROVE x = <<"pending", z>> /\ z \in pending
    BY <2>2 DEF TaskOwners
  <2>3. ASSUME x \in CallbackOwners(z)
        PROVE  \E cb \in callbacks : x = <<"callback", cb.arg>> /\ cb.zone = z
    BY <2>3 DEF CallbackOwners
  <2>4. ASSUME x \in NameOwners(z) PROVE \E f \in Funcs : x = <<"bound", f>> /\ varZone[f] = z
    BY <2>4 DEF NameOwners
  <2>5. ASSUME x \in FutureOwners(z)
        PROVE  \E u \in Workers : x = <<"future", u>> /\ futures[u].zone = z
    BY <2>5 DEF FutureOwners
  <2> QED BY <2>1, <2>2, <2>3, <2>4, <2>5 DEF Owners
<1>4. ASSUME NEW x \in Owners(z)
      PROVE  \/ \E t \in T : \E i \in Frames(t, z) :
                    x = <<"stack", t, i>> /\ Owns(z, "stack", t, Len(stack[t]) + 1 - i)
             \/ x = <<"pending", z>> /\ Owns(z, "pending", z, 0)
             \/ \E cb \in callbacks : x = <<"callback", cb.arg>> /\ Owns(z, "callback", cb, 0)
             \/ \E f \in Funcs : x = <<"bound", f>> /\ Owns(z, "bound", f, 0)
             \/ \E u \in Workers : x = <<"future", u>> /\ Owns(z, "future", u, 0)
  <2>1. \A cb \in callbacks : cb.zone = z => Owns(z, "callback", cb, 0) BY DEF Owns
  <2>2. \A f \in Funcs : varZone[f] = z => Owns(z, "bound", f, 0) BY DEF Owns
  <2>3. \A u \in Workers : futures[u].zone = z => Owns(z, "future", u, 0) BY DEF Owns
  <2>4. z \in pending => Owns(z, "pending", z, 0) BY DEF Owns
  <2> QED BY <2>1, <2>2, <2>3, <2>4, <1>2, <1>3
<1>5. \A x \in Owners(z) : \E k, a, b : Owns(z, k, a, b) BY <1>4
<1>6. ASSUME NEW x \in Owners(z), NEW y \in Owners(z),
             \A k, a, b, l, c, d :
                 Owns(z, k, a, b) /\ Owns(z, l, c, d) => k = l /\ a = c /\ b = d
      PROVE  x = y
  <2>1. CASE \E t \in T : \E i \in Frames(t, z) :
                 x = <<"stack", t, i>> /\ Owns(z, "stack", t, Len(stack[t]) + 1 - i)
    <3>1. PICK t \in T : \E i \in Frames(t, z) :
                 x = <<"stack", t, i>> /\ Owns(z, "stack", t, Len(stack[t]) + 1 - i)
      BY <2>1
    <3>2. PICK i \in Frames(t, z) : x = <<"stack", t, i>> /\ Owns(z, "stack", t, Len(stack[t]) + 1 - i)
      BY <3>1
    <3>3. \A k, a, b : Owns(z, k, a, b) => k = "stack" /\ a = t /\ b = Len(stack[t]) + 1 - i
      BY <3>2, <1>6
    <3>4. \E v \in T : \E j \in Frames(v, z) :
                 y = <<"stack", v, j>> /\ Owns(z, "stack", v, Len(stack[v]) + 1 - j)
      BY <3>3, <1>4
    <3>5. PICK j \in Frames(t, z) : y = <<"stack", t, j>> /\ Owns(z, "stack", t, Len(stack[t]) + 1 - j)
      BY <3>3, <3>4
    <3>6. Len(stack[t]) + 1 - j = Len(stack[t]) + 1 - i BY <3>3, <3>5
    <3>7. i = j BY <3>6, <1>2
    <3> QED BY <3>2, <3>5, <3>7
  <2>2. CASE x = <<"pending", z>> /\ Owns(z, "pending", z, 0)
    <3>1. \A k, a, b : Owns(z, k, a, b) => k = "pending" BY <2>2, <1>6
    <3> QED BY <3>1, <2>2, <1>4
  <2>3. CASE \E cb \in callbacks : x = <<"callback", cb.arg>> /\ Owns(z, "callback", cb, 0)
    <3>1. PICK cb \in callbacks : x = <<"callback", cb.arg>> /\ Owns(z, "callback", cb, 0) BY <2>3
    <3>2. \A k, a, b : Owns(z, k, a, b) => k = "callback" /\ a = cb BY <3>1, <1>6
    <3> QED BY <3>1, <3>2, <1>4
  <2>4. CASE \E f \in Funcs : x = <<"bound", f>> /\ Owns(z, "bound", f, 0)
    <3>1. PICK f \in Funcs : x = <<"bound", f>> /\ Owns(z, "bound", f, 0) BY <2>4
    <3>2. \A k, a, b : Owns(z, k, a, b) => k = "bound" /\ a = f BY <3>1, <1>6
    <3> QED BY <3>1, <3>2, <1>4
  <2>5. CASE \E u \in Workers : x = <<"future", u>> /\ Owns(z, "future", u, 0)
    <3>1. PICK u \in Workers : x = <<"future", u>> /\ Owns(z, "future", u, 0) BY <2>5
    <3>2. \A k, a, b : Owns(z, k, a, b) => k = "future" /\ a = u BY <3>1, <1>6
    <3> QED BY <3>1, <3>2, <1>4
  <2> QED BY <1>4, <2>1, <2>2, <2>3, <2>4, <2>5
<1>7. ASSUME NEW k, NEW a, NEW b, Owns(z, k, a, b) PROVE Owners(z) # {}
  <2>1. CASE k = "stack" /\ a \in T /\ FrameOwns(stack[a], b, z)
    <3>1. stack[a] \in Seq(FrameType) /\ DOMAIN stack[a] = 1 .. Len(stack[a]) /\ Len(stack[a]) \in Nat
      BY <1>1, <2>1
    <3>2. b \in 1 .. Len(stack[a]) BY <2>1 DEF FrameOwns
    <3>3. Len(stack[a]) + 1 - b \in DOMAIN stack[a] BY <3>1, <3>2
    <3>4. Len(stack[a]) + 1 - b \in Frames(a, z) BY <3>3, <2>1 DEF FrameOwns, Frames
    <3>5. <<"stack", a, Len(stack[a]) + 1 - b>> \in FrameOwners(z) BY <3>4, <2>1 DEF FrameOwners
    <3> QED BY <3>5 DEF Owners
  <2>2. CASE z \in pending
    <3>1. <<"pending", z>> \in TaskOwners(z) BY <2>2 DEF TaskOwners
    <3> QED BY <3>1 DEF Owners
  <2>3. CASE a \in callbacks /\ a.zone = z
    <3>1. <<"callback", a.arg>> \in CallbackOwners(z) BY <2>3 DEF CallbackOwners
    <3> QED BY <3>1 DEF Owners
  <2>4. CASE a \in Funcs /\ varZone[a] = z
    <3>1. <<"bound", a>> \in NameOwners(z) BY <2>4 DEF NameOwners
    <3> QED BY <3>1 DEF Owners
  <2>5. CASE a \in Workers /\ futures[a].zone = z
    <3>1. <<"future", a>> \in FutureOwners(z) BY <2>5 DEF FutureOwners
    <3> QED BY <3>1 DEF Owners
  <2> QED BY <1>7, <2>1, <2>2, <2>3, <2>4, <2>5 DEF Owns
<1> QED BY <1>5, <1>6, <1>7

\* One owner in the sense of Owned is one element of Owners.
LEMMA OwnedImplies == OInv => OneOwner
<1> SUFFICES ASSUME OInv, NEW z \in ZoneIds
             PROVE  Cardinality(Owners(z)) = IF Open(z) THEN 1 ELSE 0
  BY DEF OneOwner
<1>1. IInv /\ Owned BY DEF OInv
<1>2. CASE Open(z)
  <2>1. Owners(z) # {} BY <1>1, <1>2, OwnersAreOwns DEF Owned
  <2>2. \A x, y \in Owners(z) : x = y BY <1>1, OwnersAreOwns DEF Owned
  <2>3. PICK x : Owners(z) = {x} BY <2>1, <2>2
  <2> QED BY <2>3, <1>2, FS_Singleton
<1>3. CASE ~ Open(z)
  <2>1. Owners(z) = {} BY <1>1, <1>3, OwnersAreOwns DEF Owned
  <2> QED BY <2>1, <1>3, FS_EmptySet
<1> QED BY <1>2, <1>3

\* The invariant of ownership holds of every behaviour of the zones.
THEOREM OwnershipInvariance == Spec => []OInv
BY InitOwned, NextOwned, PTL DEF Spec

\* Every zone that is open is popped and destroyed, or destroyed, by one
\* frame, task, callback, name or future, and no other zone is by any, with any
\* number of zones, threads and workers and all sizes.
THEOREM ZonesOneOwner == Spec => []OneOwner
BY OwnershipInvariance, OwnedImplies, PTL

-----------------------------------------------------------------------------
(* What is held. *)

\* What a frame holds is live, and in its zone or one further down.
HoldsGood(h, s) ==
    \A i \in DOMAIN s : \A o \in s[i].held :
        o \in h.live /\ \E j \in i .. Len(s) : s[j].zone = o.zone

\* The argument of a callback is in the zone of the call, the result of a
\* thread in the zone of the thread, and a hook in its own zone.
Held ==
    /\ \A t \in Threads \cup Workers : HoldsGood(heap, stack[t])
    /\ \A cb \in callbacks : \A o \in cb.arg : o \in heap.live /\ o.zone = cb.zone
    /\ \A u \in Workers : \A o \in futures[u].res : o \in heap.live /\ o.zone = futures[u].zone
    /\ \A z \in ZoneIds : \A o \in heap.zone[z].hooks : o \in heap.live /\ o.zone = z

\* Held says more than HeldLive.
LEMMA HeldImplies == Held => HeldLive
BY DEF Held, HeldLive, HoldsGood, AllHeld

\* The owner of the zone of a frame.
LEMMA FrameOwner ==
  ASSUME OInv, NEW t \in Threads \cup Workers, NEW i \in DOMAIN stack[t]
  PROVE  /\ stack[t][i].zone \in ZoneIds /\ i \in 1 .. Len(stack[t]) /\ Len(stack[t]) \in Nat
         /\ \/ /\ stack[t][i].kind # "borrowed"
               /\ Owns(stack[t][i].zone, "stack", t, Len(stack[t]) + 1 - i)
            \/ /\ stack[t][i].kind = "borrowed" /\ i = Len(stack[t]) /\ t \in Workers
               /\ futures[t].state = "running"
               /\ Owns(stack[t][i].zone, "future", t, 0)
<1>1. stack[t] \in Seq(FrameType) BY DEF OInv, IInv, StacksGood
<1>2. i \in 1 .. Len(stack[t]) /\ Len(stack[t]) \in Nat /\ stack[t][i] \in FrameType BY <1>1
<1>3. stack[t][i].zone \in ZoneIds BY <1>2 DEF FrameType
<1>4. CASE stack[t][i].kind # "borrowed"
  <2>1. PICK d : d = Len(stack[t]) + 1 - i OBVIOUS
  <2>2. d \in 1 .. Len(stack[t]) /\ Len(stack[t]) + 1 - d = i BY <2>1, <1>2
  <2>3. FrameOwns(stack[t], d, stack[t][i].zone) BY <2>2, <1>4 DEF FrameOwns
  <2>4. Owns(stack[t][i].zone, "stack", t, d) BY <2>3 DEF Owns
  <2> QED BY <2>1, <2>4, <1>2, <1>3, <1>4
<1>5. CASE stack[t][i].kind = "borrowed"
  <2>1. i = Len(stack[t]) /\ stack[t][i].zone \in Lent(t)
    BY <1>5 DEF OInv, WorkersGood, BorrowOnly
  <2>2. t \in Workers /\ stack[t][i].zone = futures[t].zone BY <2>1 DEF Lent
  <2>3. Borrowed(stack[t]) BY <1>5 DEF Borrowed
  <2>4. futures[t].state = "running" BY <2>2, <2>3 DEF OInv, IInv, FuturesGood
  <2>5. Owns(stack[t][i].zone, "future", t, 0) BY <2>2 DEF Owns
  <2> QED BY <2>1, <2>2, <2>4, <2>5, <1>2, <1>3, <1>5
<1> QED BY <1>4, <1>5

\* No zone is in two frames, not even the one that a thread borrows.
LEMMA FrameUnique ==
  ASSUME OInv, NEW t \in Threads \cup Workers, NEW v \in Threads \cup Workers,
         NEW i \in DOMAIN stack[t], NEW j \in DOMAIN stack[v], stack[t][i].zone = stack[v][j].zone
  PROVE  t = v /\ i = j
<1> DEFINE z == stack[t][i].zone
<1>1. z \in ZoneIds BY FrameOwner
<1>2. \A k, a, b, l, c, d : Owns(z, k, a, b) /\ Owns(z, l, c, d) => k = l /\ a = c /\ b = d
  BY <1>1 DEF OInv, Owned
<1>3. /\ i \in 1 .. Len(stack[t]) /\ Len(stack[t]) \in Nat
      /\ j \in 1 .. Len(stack[v]) /\ Len(stack[v]) \in Nat
  BY FrameOwner
<1>4. CASE stack[t][i].kind # "borrowed"
  <2>1. Owns(z, "stack", t, Len(stack[t]) + 1 - i) BY <1>4, FrameOwner
  <2>2. stack[v][j].kind # "borrowed"
    <3>1. ASSUME stack[v][j].kind = "borrowed" PROVE FALSE
      <4>1. Owns(stack[v][j].zone, "future", v, 0) BY <3>1, FrameOwner
      <4> QED BY <4>1, <2>1, <1>2
    <3> QED BY <3>1
  <2>3. Owns(z, "stack", v, Len(stack[v]) + 1 - j) BY <2>2, FrameOwner
  <2>4. t = v /\ Len(stack[t]) + 1 - i = Len(stack[v]) + 1 - j BY <2>1, <2>3, <1>2
  <2> QED BY <2>4, <1>3
<1>5. CASE stack[t][i].kind = "borrowed"
  <2>1. Owns(z, "future", t, 0) /\ i = Len(stack[t]) BY <1>5, FrameOwner
  <2>2. stack[v][j].kind = "borrowed"
    <3>1. ASSUME stack[v][j].kind # "borrowed" PROVE FALSE
      <4>1. Owns(stack[v][j].zone, "stack", v, Len(stack[v]) + 1 - j) BY <3>1, FrameOwner
      <4> QED BY <4>1, <2>1, <1>2
    <3> QED BY <3>1
  <2>3. Owns(z, "future", v, 0) /\ j = Len(stack[v]) BY <2>2, FrameOwner
  <2> QED BY <2>1, <2>3, <1>2
<1> QED BY <1>4, <1>5

-----------------------------------------------------------------------------
(* The stacks. *)

\* No object of the stack's zones is lost.
LEMMA HoldsKept ==
  ASSUME NEW h, NEW g, NEW s, HoldsGood(h, s), NEW Z,
         \A o \in h.live : o.zone \notin Z => o \in g.live,
         \A i \in DOMAIN s : s[i].zone \notin Z, DOMAIN s = 1 .. Len(s), Len(s) \in Nat
  PROVE  HoldsGood(g, s)
<1> SUFFICES ASSUME NEW i \in DOMAIN s, NEW o \in s[i].held
             PROVE  o \in g.live /\ \E j \in i .. Len(s) : s[j].zone = o.zone
  BY DEF HoldsGood
<1>1. o \in h.live BY DEF HoldsGood
<1>2. PICK j \in i .. Len(s) : s[j].zone = o.zone BY DEF HoldsGood
<1>3. j \in DOMAIN s BY <1>2
<1> QED BY <1>1, <1>2, <1>3

\* The frame on top may hold objects of the zones below it, if they live.
LEMMA HeldHolds ==
  ASSUME NEW h, NEW s \in Seq(FrameType), s # <<>>, NEW H,
         \A i \in DOMAIN s \ {1} : \A o \in s[i].held :
             o \in h.live /\ \E j \in i .. Len(s) : s[j].zone = o.zone,
         \A o \in H : o \in h.live /\ \E j \in 1 .. Len(s) : s[j].zone = o.zone
  PROVE  HoldsGood(h, [s EXCEPT ![1].held = H])
<1> DEFINE s2 == [s EXCEPT ![1].held = H]
<1>1. Len(s) \in Nat /\ Len(s) >= 1 /\ DOMAIN s = 1 .. Len(s) /\ 1 \in DOMAIN s OBVIOUS
<1>2. s[1] \in FrameType BY <1>1
<1>3. /\ [s[1] EXCEPT !.held = H].zone = s[1].zone
      /\ [s[1] EXCEPT !.held = H].held = H
  BY <1>2 DEF FrameType
<1>4. Len(s2) = Len(s) /\ DOMAIN s2 = DOMAIN s BY <1>1
<1>5. s2[1].held = H BY <1>1, <1>3
<1>6. \A i \in DOMAIN s \ {1} : s2[i] = s[i] BY <1>1
<1>7. \A i \in DOMAIN s : s2[i].zone = s[i].zone BY <1>1, <1>3
<1> HIDE DEF s2
<1>8. \A i \in DOMAIN s : \A j \in i .. Len(s) : j \in DOMAIN s BY <1>1
<1>9. ASSUME NEW i \in DOMAIN s2, NEW o \in s2[i].held
      PROVE  o \in h.live /\ \E j \in i .. Len(s2) : s2[j].zone = o.zone
  <2>1. o \in h.live /\ \E j \in i .. Len(s) : s[j].zone = o.zone
    <3>1. CASE i = 1 BY <3>1, <1>5, <1>9
    <3>2. CASE i # 1 BY <3>2, <1>4, <1>6, <1>9
    <3> QED BY <3>1, <3>2
  <2>2. PICK j \in i .. Len(s) : s[j].zone = o.zone BY <2>1
  <2>3. s2[j].zone = o.zone BY <2>2, <1>4, <1>7, <1>8
  <2> QED BY <2>1, <2>2, <2>3, <1>4
<1> QED BY <1>9 DEF HoldsGood, s2

\* A new frame may hold objects of its own zone.
LEMMA PushHolds ==
  ASSUME NEW h, NEW s \in Seq(FrameType), HoldsGood(h, s), NEW f \in FrameType,
         \A o \in f.held : o \in h.live /\ o.zone = f.zone
  PROVE  HoldsGood(h, <<f>> \o s)
<1> DEFINE s2 == <<f>> \o s
<1>1. Len(s) \in Nat /\ DOMAIN s = 1 .. Len(s) /\ Len(s2) = Len(s) + 1 /\ DOMAIN s2 = 1 .. Len(s) + 1
  OBVIOUS
<1>2. s2[1] = f /\ \A i \in 2 .. Len(s) + 1 : s2[i] = s[i - 1] OBVIOUS
<1> HIDE DEF s2
<1>3. ASSUME NEW i \in DOMAIN s2, NEW o \in s2[i].held
      PROVE  o \in h.live /\ \E j \in i .. Len(s2) : s2[j].zone = o.zone
  <2>1. CASE i = 1
    <3>1. o \in h.live /\ s2[1].zone = o.zone BY <2>1, <1>2, <1>3
    <3>2. 1 \in i .. Len(s2) BY <2>1, <1>1
    <3> QED BY <3>1, <3>2
  <2>2. CASE i # 1
    <3>1. i \in 2 .. Len(s) + 1 /\ i - 1 \in DOMAIN s BY <2>2, <1>1
    <3>2. o \in s[i - 1].held BY <3>1, <1>2, <1>3
    <3>3. o \in h.live BY <3>1, <3>2 DEF HoldsGood
    <3>4. PICK j \in (i - 1) .. Len(s) : s[j].zone = o.zone BY <3>1, <3>2 DEF HoldsGood
    <3>5. j + 1 \in i .. Len(s2) /\ j + 1 \in 2 .. Len(s) + 1 /\ (j + 1) - 1 = j
      BY <3>1, <3>4, <1>1
    <3>6. s2[j + 1].zone = o.zone BY <3>4, <3>5, <1>2
    <3> QED BY <3>3, <3>5, <3>6
  <2> QED BY <2>1, <2>2
<1> QED BY <1>3 DEF HoldsGood, s2

\* The frames below hold nothing that lies above them.
LEMMA PopHolds ==
  ASSUME NEW h, NEW s \in Seq(FrameType), s # <<>>, HoldsGood(h, s)
  PROVE  /\ HoldsGood(h, Tail(s)) /\ Tail(s) \in Seq(FrameType)
         /\ Len(s) \in Nat /\ Len(Tail(s)) = Len(s) - 1
         /\ \A i \in 1 .. Len(s) - 1 : Tail(s)[i] = s[i + 1]
<1> DEFINE s2 == Tail(s)
<1>1. /\ Len(s) \in Nat /\ Len(s) >= 1 /\ DOMAIN s = 1 .. Len(s) /\ s2 \in Seq(FrameType)
      /\ Len(s2) = Len(s) - 1 /\ DOMAIN s2 = 1 .. Len(s) - 1
  OBVIOUS
<1>2. \A i \in 1 .. Len(s) - 1 : s2[i] = s[i + 1] OBVIOUS
<1> HIDE DEF s2
<1>3. ASSUME NEW i \in DOMAIN s2, NEW o \in s2[i].held
      PROVE  o \in h.live /\ \E j \in i .. Len(s2) : s2[j].zone = o.zone
  <2>1. i \in Int /\ i + 1 \in DOMAIN s /\ o \in s[i + 1].held BY <1>1, <1>2, <1>3
  <2>2. o \in h.live BY <2>1 DEF HoldsGood
  <2>3. PICK j \in (i + 1) .. Len(s) : s[j].zone = o.zone BY <2>1 DEF HoldsGood
  <2>4. j - 1 \in i .. Len(s2) /\ j - 1 \in 1 .. Len(s) - 1 /\ (j - 1) + 1 = j
    BY <2>1, <2>3, <1>1
  <2>5. s2[j - 1].zone = o.zone BY <2>3, <2>4, <1>2
  <2> QED BY <2>2, <2>4, <2>5
<1> QED BY <1>1, <1>2, <1>3 DEF HoldsGood, s2

-----------------------------------------------------------------------------
(* What is held, action by action. *)

\* What is held lies in zones that its holder owns: the invariant of what is
\* held needs the one of the owners.
HInv == OInv /\ Held

\* A step that loses only objects of the zones Z: what is held elsewhere is
\* not in Z, or is given anew.
LEMMA HeldStep ==
  ASSUME HInv, NEW Z, \A o \in heap.live : o.zone \notin Z => o \in heap'.live,
         NEW t \in Threads \cup Workers, HoldsGood(heap', stack'[t]),
         \A v \in (Threads \cup Workers) \ {t} :
             stack'[v] = stack[v] /\ \A i \in DOMAIN stack[v] : stack[v][i].zone \notin Z,
         \A cb \in callbacks' :
             \/ cb \in callbacks /\ cb.zone \notin Z
             \/ \A o \in cb.arg : o \in heap'.live /\ o.zone = cb.zone,
         \A u \in Workers :
             \/ futures'[u] = futures[u] /\ futures[u].zone \notin Z
             \/ \A o \in futures'[u].res : o \in heap'.live /\ o.zone = futures'[u].zone,
         \A w \in ZoneIds :
             \/ heap'.zone[w].hooks = heap.zone[w].hooks /\ w \notin Z
             \/ \A o \in heap'.zone[w].hooks : o \in heap'.live /\ o.zone = w
  PROVE  Held'
<1>1. \A v \in Threads \cup Workers : HoldsGood(heap', stack'[v])
  <2> SUFFICES ASSUME NEW v \in (Threads \cup Workers) \ {t} PROVE HoldsGood(heap', stack'[v])
    OBVIOUS
  <2>1. stack[v] \in Seq(FrameType) BY DEF HInv, OInv, IInv, StacksGood
  <2>2. DOMAIN stack[v] = 1 .. Len(stack[v]) /\ Len(stack[v]) \in Nat BY <2>1
  <2>3. HoldsGood(heap, stack[v]) BY DEF HInv, Held
  <2>4. HoldsGood(heap', stack[v]) BY SMTT(30), <2>2, <2>3, HoldsKept
  <2> QED BY <2>4
<1>2. \A cb \in callbacks' : \A o \in cb.arg : o \in heap'.live /\ o.zone = cb.zone
  BY DEF HInv, Held
<1>3. \A u \in Workers : \A o \in futures'[u].res : o \in heap'.live /\ o.zone = futures'[u].zone
  BY DEF HInv, Held
<1>4. \A w \in ZoneIds : \A o \in heap'.zone[w].hooks : o \in heap'.live /\ o.zone = w
  BY DEF HInv, Held
<1> QED BY <1>1, <1>2, <1>3, <1>4 DEF Held

\* A step that loses nothing and changes no more than what one thread holds.
LEMMA HeldGrows ==
  ASSUME HInv, heap.live \subseteq heap'.live, NEW t \in Threads \cup Workers, NEW s,
         stack' = [stack EXCEPT ![t] = s], HoldsGood(heap', s),
         callbacks' \subseteq callbacks, futures' = futures,
         \A w \in ZoneIds : \/ heap'.zone[w].hooks = heap.zone[w].hooks
                            \/ heap'.zone[w].hooks = {}
  PROVE  Held'
<1>1. stack'[t] = s /\ \A v \in (Threads \cup Workers) \ {t} : stack'[v] = stack[v]
  BY StackRead DEF HInv, OInv
<1>2. \A o \in heap.live : o.zone \notin {} => o \in heap'.live OBVIOUS
<1>3. HoldsGood(heap', stack'[t]) BY <1>1
<1>4. \A v \in (Threads \cup Workers) \ {t} :
          stack'[v] = stack[v] /\ \A i \in DOMAIN stack[v] : stack[v][i].zone \notin {}
  BY <1>1
<1>5. \A cb \in callbacks' :
          \/ cb \in callbacks /\ cb.zone \notin {}
          \/ \A o \in cb.arg : o \in heap'.live /\ o.zone = cb.zone
  OBVIOUS
<1>6. \A u \in Workers :
          \/ futures'[u] = futures[u] /\ futures[u].zone \notin {}
          \/ \A o \in futures'[u].res : o \in heap'.live /\ o.zone = futures'[u].zone
  OBVIOUS
<1>7. \A w \in ZoneIds :
          \/ heap'.zone[w].hooks = heap.zone[w].hooks /\ w \notin {}
          \/ \A o \in heap'.zone[w].hooks : o \in heap'.live /\ o.zone = w
  OBVIOUS
<1> QED BY <1>2, <1>3, <1>4, <1>5, <1>6, <1>7, HeldStep

\* What a stack holds is not lost when nothing is.
LEMMA HoldsGrow ==
  ASSUME NEW h, NEW g, NEW s, HoldsGood(h, s), h.live \subseteq g.live
  PROVE  HoldsGood(g, s)
BY DEF HoldsGood

\* The code on top gets a pointer to a live object of its zone.
LEMMA TopHolds ==
  ASSUME HInv, NEW t \in Threads \cup Workers, Running(t), NEW g, heap.live \subseteq g.live,
         NEW C, \A o \in C : o \in g.live /\ o.zone = Top(t).zone
  PROVE  HoldsGood(g, [stack[t] EXCEPT ![1].held = stack[t][1].held \cup C])
<1> DEFINE s == stack[t]
<1>1. s \in Seq(FrameType) /\ s # <<>> /\ Top(t) = s[1]
  BY TopGood DEF HInv, OInv, StackGood
<1>2. HoldsGood(g, s) BY HoldsGrow DEF HInv, Held
<1>3. Len(s) \in Nat /\ 1 \in DOMAIN s /\ 1 \in 1 .. Len(s) BY <1>1
<1>4. s[1].zone = Top(t).zone BY <1>1
<1> HIDE DEF s
<1>5. \A i \in DOMAIN s \ {1} : \A o \in s[i].held :
          o \in g.live /\ \E j \in i .. Len(s) : s[j].zone = o.zone
  BY <1>2 DEF HoldsGood
<1>6. \A o \in s[1].held \cup C : o \in g.live /\ \E j \in 1 .. Len(s) : s[j].zone = o.zone
  BY <1>2, <1>3, <1>4 DEF HoldsGood
<1>7. HoldsGood(g, [s EXCEPT ![1].held = s[1].held \cup C]) BY <1>1, <1>5, <1>6, HeldHolds
<1> QED BY <1>7 DEF s

\* A new zone for an empty stack leaves what is held alone.
LEMMA PeekEmptyHeld ==
  ASSUME HInv, NEW t \in Threads \cup Workers, NEW z \in ZoneIds, PeekEmpty(t, z)
  PROVE  Held'
<1> DEFINE f == Frame(z, "default", {})
<1>1. heap'.live = heap.live /\ OthersSame(heap, heap', z) /\ heap'.zone[z].hooks = {}
  BY CreateEffect, ZonesAssumption DEF PeekEmpty, HInv, OInv, IInv
<1>2. f.held = {} BY DEF Frame
<1>3. stack' = [stack EXCEPT ![t] = <<f>>] BY DEF PeekEmpty
<1> HIDE DEF f
<1>4. DOMAIN <<f>> = {1} /\ <<f>>[1] = f OBVIOUS
<1>5. HoldsGood(heap', <<f>>) BY <1>2, <1>4 DEF HoldsGood
<1>6. UNCHANGED <<callbacks, futures>> BY DEF PeekEmpty
<1> QED BY <1>1, <1>3, <1>5, <1>6, HeldGrows DEF OthersSame

\* The new object is in the zone on top, which lives.
LEMMA AllocHeld ==
  ASSUME HInv, NEW t \in Threads \cup Workers, NEW r \in Requests, Alloc(t, r)
  PROVE  Held'
<1> DEFINE C == {NewObject(heap, Top(t).zone, r)}
           s == [stack[t] EXCEPT ![1].held = stack[t][1].held \cup C]
<1>1. Running(t) BY DEF Alloc
<1>2. Top(t).zone \in ZoneIds /\ Used(heap, Top(t).zone) /\ HeapInv(heap)
  BY <1>1, TopGood DEF HInv, OInv, IInv
<1>3. /\ heap'.live = heap.live \cup C /\ \A o \in C : o.zone = Top(t).zone
      /\ \A w \in ZoneIds : heap'.zone[w].hooks = heap.zone[w].hooks
  BY <1>2, MallocEffect DEF Alloc
<1>4. stack' = [stack EXCEPT ![t] = s] BY DEF Alloc
<1> HIDE DEF C
<1>5. HoldsGood(heap', s) BY <1>1, <1>3, TopHolds
<1> HIDE DEF s
<1>6. UNCHANGED <<callbacks, futures>> BY DEF Alloc
<1> QED BY <1>3, <1>4, <1>5, <1>6, HeldGrows

\* The new closure is in the zone on top, which lives.
LEMMA MakeClosureHeld ==
  ASSUME HInv, NEW t \in Threads \cup Workers, NEW rs \in ClosureShapes, MakeClosure(t, rs)
  PROVE  Held'
<1> DEFINE C == {NewObject(heap, Top(t).zone, rs[1])}
           s == [stack[t] EXCEPT ![1].held = stack[t][1].held \cup C]
<1>1. Running(t) BY DEF MakeClosure
<1>2. Top(t).zone \in ZoneIds /\ Used(heap, Top(t).zone) /\ HeapInv(heap)
  BY <1>1, TopGood DEF HInv, OInv, IInv
<1>3. /\ heap.live \cup C \subseteq heap'.live
      /\ \A w \in ZoneIds : heap'.zone[w].hooks = heap.zone[w].hooks
  BY <1>2, ClosureEffect DEF MakeClosure
<1>4. \A o \in C : o.zone = Top(t).zone
  <2>1. rs[1] \in Requests BY ZonesAssumption
  <2> QED BY <2>1, <1>2, MallocEffect
<1>5. stack' = [stack EXCEPT ![t] = s] BY DEF MakeClosure
<1> HIDE DEF C
<1>6. HoldsGood(heap', s) BY <1>1, <1>3, <1>4, TopHolds
<1> HIDE DEF s
<1>7. UNCHANGED <<callbacks, futures>> BY DEF MakeClosure
<1> QED BY <1>3, <1>5, <1>6, <1>7, HeldGrows

\* The new hook is in the zone on top, and lives.
LEMMA ZoneCleanupHeld ==
  ASSUME HInv, NEW t \in Threads \cup Workers, NEW r \in Requests, ZoneCleanup(t, r)
  PROVE  Held'
<1>1. /\ heap.live \subseteq heap'.live
      /\ \A w \in ZoneIds : \A o \in heap'.zone[w].hooks : o \in heap'.live /\ o.zone = w
  <2>1. PICK z \in ZoneIds : z = Top(t).zone BY CleanupEffect DEF HInv
  <2>2. /\ \A w \in ZoneIds \ {z} : heap'.zone[w] = heap.zone[w]
        /\ heap'.live = heap.live \cup {NewObject(heap, z, r)}
        /\ NewObject(heap, z, r).zone = z
        /\ heap'.zone[z].hooks = heap.zone[z].hooks \cup {NewObject(heap, z, r)}
    BY <2>1, CleanupEffect DEF HInv
  <2> QED BY <2>2 DEF HInv, Held
<1>2. \A v \in Threads \cup Workers : HoldsGood(heap', stack[v])
  BY <1>1, HoldsGrow DEF HInv, Held
<1>3. UNCHANGED <<stack, callbacks, futures>> BY DEF ZoneCleanup
<1> QED BY <1>1, <1>2, <1>3 DEF HInv, Held

\* A new zone leaves what is held alone.
LEMMA BeginMemzoneHeld ==
  ASSUME HInv, NEW t \in Threads \cup Workers, NEW z \in ZoneIds, NEW n \in ZoneSizes,
         BeginMemzone(t, z, n)
  PROVE  Held'
<1> DEFINE f == Frame(z, "memzone", {})
           s == <<f>> \o stack[t]
<1>1. heap'.live = heap.live /\ OthersSame(heap, heap', z) /\ heap'.zone[z].hooks = {}
  BY CreateEffect, ZonesAssumption DEF BeginMemzone, HInv, OInv, IInv
<1>2. f \in FrameType /\ f.held = {} BY FrameGood DEF Frame
<1>3. stack' = [stack EXCEPT ![t] = s] BY DEF BeginMemzone
<1> HIDE DEF f
<1>4. stack[t] \in Seq(FrameType) /\ HoldsGood(heap', stack[t])
  BY <1>1, HoldsGrow DEF HInv, OInv, IInv, StacksGood, Held
<1>5. HoldsGood(heap', s) BY <1>2, <1>4, PushHolds
<1> HIDE DEF s
<1>6. UNCHANGED <<callbacks, futures>> BY DEF BeginMemzone
<1> QED BY <1>1, <1>3, <1>5, <1>6, HeldGrows DEF OthersSame

\* The argument of a callback is in its zone, which is pushed with it.
LEMMA RunCallbackHeld ==
  ASSUME HInv, NEW t \in Threads \cup Workers, NEW cb \in callbacks, RunCallback(t, cb)
  PROVE  Held'
<1> DEFINE f == Frame(cb.zone, "callback", cb.arg)
           s == <<f>> \o stack[t]
<1>1. cb.zone \in ZoneIds /\ cb.arg \in SUBSET ObjectType
  BY DEF HInv, OInv, IInv, CallbacksGood
<1>2. f \in FrameType /\ f.held = cb.arg /\ f.zone = cb.zone BY <1>1, FrameGood DEF Frame
<1>3. stack' = [stack EXCEPT ![t] = s] BY DEF RunCallback
<1> HIDE DEF f
<1>4. UNCHANGED <<heap, futures>> /\ callbacks' \subseteq callbacks BY DEF RunCallback
<1>5. stack[t] \in Seq(FrameType) /\ HoldsGood(heap, stack[t])
  BY DEF HInv, OInv, IInv, StacksGood, Held
<1>6. \A o \in f.held : o \in heap.live /\ o.zone = f.zone BY <1>2 DEF HInv, Held
<1>7. HoldsGood(heap, s) BY <1>2, <1>5, <1>6, PushHolds
<1> HIDE DEF s
<1>8. HoldsGood(heap', s) BY <1>4, <1>7
<1> QED BY <1>3, <1>4, <1>8, HeldGrows

\* A new zone and its closure leave what is held alone.
LEMMA RebindHeld ==
  ASSUME HInv, NEW t \in Threads \cup Workers, NEW f \in Funcs, NEW z \in ZoneIds,
         NEW n \in ZoneSizes, NEW rs \in ClosureShapes, Rebind(t, f, z, n, rs)
  PROVE  Held'
<1>1. /\ heap.live \subseteq heap'.live /\ OthersSame(heap, heap', z)
      /\ heap'.zone[z].hooks = {}
  BY MadeEffect, ZonesAssumption DEF Rebind, HInv, OInv, IInv
<1>2. \A v \in Threads \cup Workers : HoldsGood(heap', stack[v])
  BY <1>1, HoldsGrow DEF HInv, Held
<1>3. UNCHANGED <<stack, callbacks, futures>> BY DEF Rebind
<1> QED BY <1>1, <1>2, <1>3 DEF HInv, Held, OthersSame

\* The argument of a callback is copied into the zone of the call.
LEMMA ScheduleHeld ==
  ASSUME ~ MayOuter, HInv, NEW t \in Threads \cup Workers, NEW z \in ZoneIds,
         NEW arg \in AtMostOne(AllHeld(t)), Schedule(t, z, arg)
  PROVE  Held'
<1> DEFINE made == Create(heap, z, CallSize)
           C == ZCopy(made, arg, Top(t).zone, z)
           cb == [zone |-> z, arg |-> C]
<1>1. Running(t) /\ arg \in SUBSET ObjectType BY TopGood, AtMostOneGood DEF Schedule, HInv, OInv
<1>2. HeapInv(made) /\ Used(made, z)
  BY CreateGood, ZonesAssumption DEF Schedule, HInv, OInv, IInv, Fresh, Used, Keeps
<1>3. /\ OthersSame(heap, made, z) /\ made.live = heap.live /\ made.zone[z].hooks = {}
  BY CreateEffect, ZonesAssumption DEF HInv, OInv, IInv
<1>4. heap' = ZCopyHeap(made, arg, Top(t).zone, z) /\ callbacks' = callbacks \cup {cb}
  BY DEF Schedule
<1>5. \A o \in arg : o \in heap.live /\ o.zone = Top(t).zone BY DEF Schedule, ObjectsOf
<1>6. Top(t).zone \in ZoneIds BY <1>1, TopGood DEF HInv, OInv
<1> HIDE DEF made
<1>7. /\ made.live \subseteq heap'.live /\ SameZones(made, heap')
      /\ ZCopied(made, arg, Top(t).zone) = {} => C = arg
      /\ ZCopied(made, arg, Top(t).zone) # {} => C \subseteq heap'.live /\ \A o \in C : o.zone = z
  BY <1>1, <1>2, <1>4, ZCopyEffect
<1>8. ZCopied(made, arg, Top(t).zone) = {} => arg = {}
  BY <1>2, <1>3, <1>5, <1>6, PtrExact DEF ZCopied
<1> HIDE DEF C
<1>9. \A o \in C : o \in heap'.live /\ o.zone = z BY <1>7, <1>8
<1>10. cb.zone = z /\ cb.arg = C OBVIOUS
<1> HIDE DEF cb
<1>11. \A c \in callbacks' : \A o \in c.arg : o \in heap'.live /\ o.zone = c.zone
  BY <1>3, <1>4, <1>7, <1>9, <1>10 DEF HInv, Held
<1>12. \A v \in Threads \cup Workers : HoldsGood(heap', stack[v])
  BY <1>3, <1>7, HoldsGrow DEF HInv, Held
<1>13. \A w \in ZoneIds : \A o \in heap'.zone[w].hooks : o \in heap'.live /\ o.zone = w
  BY <1>3, <1>7 DEF HInv, Held, OthersSame, SameZones
<1>14. UNCHANGED <<stack, futures>> BY DEF Schedule
<1> QED BY <1>3, <1>7, <1>11, <1>12, <1>13, <1>14 DEF HInv, Held

\* The zone of a frame is no other frame's, no callback's, and no future's
\* that has a result.
LEMMA FrameAlone ==
  ASSUME OInv, NEW t \in Threads \cup Workers, NEW i \in DOMAIN stack[t],
         NEW z, z = stack[t][i].zone
  PROVE  /\ \A v \in (Threads \cup Workers) \ {t} : \A j \in DOMAIN stack[v] : stack[v][j].zone # z
         /\ \A j \in DOMAIN stack[t] \ {i} : stack[t][j].zone # z
         /\ \A cb \in callbacks : cb.zone # z
         /\ \A u \in Workers : futures[u].zone # z \/ futures[u].res = {}
<1>1. z \in ZoneIds BY FrameOwner
<1>2. \A k, a, b, l, c, d : Owns(z, k, a, b) /\ Owns(z, l, c, d) => k = l /\ a = c /\ b = d
  BY <1>1 DEF OInv, Owned
<1>3. \/ \E d : Owns(z, "stack", t, d)
      \/ t \in Workers /\ futures[t].state = "running" /\ Owns(z, "future", t, 0)
  BY FrameOwner
<1>4. \A v \in (Threads \cup Workers) \ {t} : \A j \in DOMAIN stack[v] : stack[v][j].zone # z
  BY FrameUnique
<1>5. \A j \in DOMAIN stack[t] \ {i} : stack[t][j].zone # z BY FrameUnique
<1>6. \A cb \in callbacks : cb.zone # z
  <2>1. \A cb \in callbacks : cb.zone = z => Owns(z, "callback", cb, 0) BY DEF Owns
  <2> QED BY <2>1, <1>2, <1>3
<1>7. ASSUME NEW u \in Workers, futures[u].zone = z PROVE futures[u].res = {}
  <2>1. Owns(z, "future", u, 0) BY <1>7 DEF Owns
  <2>2. futures[u].state = "running" BY <2>1, <1>2, <1>3
  <2> QED BY <2>2 DEF OInv, WorkersGood
<1> QED BY <1>4, <1>5, <1>6, <1>7

\* What was held in the zone on top is given up, and others hold nothing there.
LEMMA ResetZoneHeld ==
  ASSUME ~ MayResetHooked, HInv, NEW t \in Threads \cup Workers, ResetZone(t)
  PROVE  Held'
<1> DEFINE H == {o \in stack[t][1].held : o.zone # Top(t).zone}
           s == [stack[t] EXCEPT ![1].held = H]
<1>1. Running(t) BY DEF ResetZone
<1>2. /\ stack[t] \in Seq(FrameType) /\ stack[t] # <<>> /\ Top(t) = stack[t][1]
      /\ HeapInv(heap)
  BY <1>1, TopGood DEF HInv, OInv, IInv, StackGood
<1>3. PICK z \in ZoneIds : z = Top(t).zone BY <1>1, TopGood DEF HInv, OInv
<1>4. 1 \in DOMAIN stack[t] /\ Len(stack[t]) \in Nat /\ DOMAIN stack[t] = 1 .. Len(stack[t])
  BY <1>2
<1>5. heap'.live = {o \in heap.live : o.zone # z} /\ SameZones(heap, heap')
      /\ heap.zone[z].hooks = {}
  BY <1>2, <1>3, ResetEffect DEF ResetZone
<1>6. stack' = [stack EXCEPT ![t] = s] BY DEF ResetZone
<1>7. z = stack[t][1].zone BY <1>2, <1>3
<1>8. /\ \A v \in (Threads \cup Workers) \ {t} : \A j \in DOMAIN stack[v] : stack[v][j].zone # z
      /\ \A j \in DOMAIN stack[t] \ {1} : stack[t][j].zone # z
      /\ \A cb \in callbacks : cb.zone # z
      /\ \A u \in Workers : futures[u].zone # z \/ futures[u].res = {}
  BY <1>4, <1>7, FrameAlone DEF HInv
<1>9. HoldsGood(heap, stack[t]) BY DEF HInv, Held
<1>10. \A o \in H : o \in heap'.live /\ \E j \in 1 .. Len(stack[t]) : stack[t][j].zone = o.zone
  BY <1>3, <1>4, <1>5, <1>9 DEF HoldsGood
<1>11. ASSUME NEW i \in DOMAIN stack[t] \ {1}, NEW o \in stack[t][i].held
       PROVE  o \in heap'.live /\ \E j \in i .. Len(stack[t]) : stack[t][j].zone = o.zone
  <2>1. o \in heap.live BY <1>9 DEF HoldsGood
  <2>2. PICK j \in i .. Len(stack[t]) : stack[t][j].zone = o.zone BY <1>9 DEF HoldsGood
  <2>3. j \in DOMAIN stack[t] \ {1} BY <2>2, <1>4
  <2>4. o.zone # z BY <2>2, <2>3, <1>8
  <2> QED BY <2>1, <2>2, <2>4, <1>5
<1> HIDE DEF H
<1>12. HoldsGood(heap', s) BY <1>2, <1>10, <1>11, HeldHolds
<1> HIDE DEF s
<1>13. stack'[t] = s /\ \A v \in (Threads \cup Workers) \ {t} : stack'[v] = stack[v]
  BY <1>6, StackRead DEF HInv, OInv
<1>14. UNCHANGED <<callbacks, futures>> BY DEF ResetZone
<1>15. \A o \in heap.live : o.zone \notin {z} => o \in heap'.live BY <1>5
<1>16. \A v \in (Threads \cup Workers) \ {t} :
           stack'[v] = stack[v] /\ \A i \in DOMAIN stack[v] : stack[v][i].zone \notin {z}
  BY <1>8, <1>13
<1>17. \A w \in ZoneIds :
           \/ heap'.zone[w].hooks = heap.zone[w].hooks /\ w \notin {z}
           \/ \A o \in heap'.zone[w].hooks : o \in heap'.live /\ o.zone = w
  BY <1>5 DEF SameZones
<1>18. \A cb \in callbacks' : cb \in callbacks /\ cb.zone \notin {z} BY <1>8, <1>14
<1>19. \A u \in Workers :
           \/ futures'[u] = futures[u] /\ futures[u].zone \notin {z}
           \/ \A o \in futures'[u].res : o \in heap'.live /\ o.zone = futures'[u].zone
  BY <1>8, <1>14
<1>20. HoldsGood(heap', stack'[t]) BY <1>12, <1>13
<1> QED BY <1>15, <1>16, <1>17, <1>18, <1>19, <1>20, HeldStep

\* A pop: the zone of the frame is destroyed, or is not, and what is held
\* further down is not in it.
LEMMA PopHeld ==
  ASSUME HInv, NEW t \in Threads \cup Workers, Running(t), NEW z \in ZoneIds, z = Top(t).zone,
         NEW s, stack' = [stack EXCEPT ![t] = s], HoldsGood(heap', s),
         UNCHANGED <<callbacks, futures>>,
         \A o \in heap.live : o.zone # z => o \in heap'.live,
         \A w \in ZoneIds \ {z} : heap'.zone[w].hooks = heap.zone[w].hooks,
         heap'.zone[z].hooks = {} \/ \A o \in heap'.zone[z].hooks : o \in heap'.live /\ o.zone = z
  PROVE  Held'
<1>1. stack[t] \in Seq(FrameType) /\ stack[t] # <<>> /\ Top(t) = stack[t][1]
  BY TopGood DEF HInv, OInv, StackGood
<1>2. 1 \in DOMAIN stack[t] /\ z = stack[t][1].zone BY <1>1
<1>3. /\ \A v \in (Threads \cup Workers) \ {t} : \A j \in DOMAIN stack[v] : stack[v][j].zone # z
      /\ \A cb \in callbacks : cb.zone # z
      /\ \A u \in Workers : futures[u].zone # z \/ futures[u].res = {}
  BY <1>2, FrameAlone DEF HInv
<1>4. stack'[t] = s /\ \A v \in (Threads \cup Workers) \ {t} : stack'[v] = stack[v]
  BY StackRead DEF HInv, OInv
<1>5. \A o \in heap.live : o.zone \notin {z} => o \in heap'.live OBVIOUS
<1>6. \A v \in (Threads \cup Workers) \ {t} :
          stack'[v] = stack[v] /\ \A i \in DOMAIN stack[v] : stack[v][i].zone \notin {z}
  BY <1>3, <1>4
<1>7. \A w \in ZoneIds :
          \/ heap'.zone[w].hooks = heap.zone[w].hooks /\ w \notin {z}
          \/ \A o \in heap'.zone[w].hooks : o \in heap'.live /\ o.zone = w
  OBVIOUS
<1>8. \A cb \in callbacks' : cb \in callbacks /\ cb.zone \notin {z} BY <1>3
<1>9. \A u \in Workers :
          \/ futures'[u] = futures[u] /\ futures[u].zone \notin {z}
          \/ \A o \in futures'[u].res : o \in heap'.live /\ o.zone = futures'[u].zone
  BY <1>3
<1>10. HoldsGood(heap', stack'[t]) BY <1>4
<1> QED BY <1>5, <1>6, <1>7, <1>8, <1>9, <1>10, HeldStep

\* What the frames below the top hold survives the end of the top's zone.
LEMMA BelowHolds ==
  ASSUME HInv, NEW t \in Threads \cup Workers, Running(t), NEW g,
         \A o \in heap.live : o.zone # Top(t).zone => o \in g.live
  PROVE  /\ HoldsGood(g, Tail(stack[t])) /\ Tail(stack[t]) \in Seq(FrameType)
         /\ \A o \in AllHeld(t) : o.zone # Top(t).zone =>
                \E j \in 1 .. Len(Tail(stack[t])) : Tail(stack[t])[j].zone = o.zone
<1> DEFINE s == stack[t]
<1>1. s \in Seq(FrameType) /\ s # <<>> /\ Top(t) = s[1]
  BY TopGood DEF HInv, OInv, StackGood
<1>2. HoldsGood(heap, s) BY DEF HInv, Held
<1>3. 1 \in DOMAIN s BY <1>1
<1>4. \A j \in DOMAIN s \ {1} : s[j].zone # Top(t).zone BY <1>1, <1>3, FrameAlone DEF HInv
<1>5. AllHeld(t) = UNION {s[i].held : i \in DOMAIN s} BY DEF AllHeld
<1> HIDE DEF s
<1>6. /\ HoldsGood(heap, Tail(s)) /\ Tail(s) \in Seq(FrameType)
      /\ Len(s) \in Nat /\ Len(Tail(s)) = Len(s) - 1
      /\ \A i \in 1 .. Len(s) - 1 : Tail(s)[i] = s[i + 1]
  BY <1>1, <1>2, PopHolds
<1> DEFINE T == Tail(s)
<1>7. DOMAIN T = 1 .. Len(T) /\ Len(T) \in Nat BY <1>6
<1>8. \A i \in DOMAIN T : T[i].zone \notin {Top(t).zone}
  <2> SUFFICES ASSUME NEW i \in DOMAIN T PROVE T[i].zone # Top(t).zone OBVIOUS
  <2>1. i \in 1 .. Len(s) - 1 BY <1>6, <1>7
  <2>2. i + 1 \in DOMAIN s \ {1} BY <2>1, <1>1, <1>6
  <2> QED BY <2>1, <2>2, <1>4, <1>6
<1>9. HoldsGood(g, T)
  <2>1. \A o \in heap.live : o.zone \notin {Top(t).zone} => o \in g.live OBVIOUS
  <2> HIDE DEF T
  <2>2. HoldsGood(heap, T) BY <1>6 DEF T
  <2> QED BY <2>1, <2>2, <1>7, <1>8, HoldsKept
<1>10. ASSUME NEW o \in AllHeld(t), o.zone # Top(t).zone
       PROVE  \E j \in 1 .. Len(T) : T[j].zone = o.zone
  <2>1. PICK i \in DOMAIN s : o \in s[i].held BY <1>5, <1>10
  <2>2. PICK j \in i .. Len(s) : s[j].zone = o.zone BY <2>1, <1>2 DEF HoldsGood
  <2>3. i \in Int /\ 1 <= i /\ i <= Len(s) BY <2>1, <1>1
  <2>4. j # 1 BY <2>2, <1>1, <1>10
  <2>5. j - 1 \in 1 .. Len(s) - 1 /\ (j - 1) + 1 = j BY <2>2, <2>3, <2>4, <1>6
  <2>6. T[j - 1].zone = o.zone BY <2>2, <2>5, <1>6
  <2> QED BY <2>5, <2>6, <1>6
<1> QED BY <1>6, <1>9, <1>10 DEF s

\* Nobody else holds an object of the zone of a call.
LEMMA EndCallbackHeld ==
  ASSUME HInv, NEW t \in Threads \cup Workers, EndCallback(t)
  PROVE  Held'
<1> DEFINE s == Tail(stack[t])
<1>1. Running(t) BY DEF EndCallback
<1>2. PICK z \in ZoneIds : z = Top(t).zone BY <1>1, TopGood DEF HInv, OInv
<1>3. /\ heap'.live = {o \in heap.live : o.zone # z} /\ OthersSame(heap, heap', z)
      /\ heap'.zone[z].hooks = {}
  BY <1>2, DestroyEffect DEF EndCallback, HInv, OInv, IInv
<1>4. stack' = [stack EXCEPT ![t] = s] BY DEF EndCallback
<1>5. HoldsGood(heap', s)
  <2>1. \A o \in heap.live : o.zone # Top(t).zone => o \in heap'.live BY <1>2, <1>3
  <2> QED BY <2>1, <1>1, BelowHolds
<1> HIDE DEF s
<1>6. UNCHANGED <<callbacks, futures>> BY DEF EndCallback
<1> QED BY <1>1, <1>2, <1>3, <1>4, <1>5, <1>6, PopHeld DEF OthersSame

\* The result of memzone is copied out of the zone, and nobody else is in it.
LEMMA EndMemzoneHeld ==
  ASSUME HInv, NEW t \in Threads \cup Workers, NEW res \in AtMostOne(AllHeld(t)),
         NEW delayed \in BOOLEAN, EndMemzone(t, res, delayed)
  PROVE  Held'
<1> DEFINE below == stack[t][2]
           T == Tail(stack[t])
           C == ZCopy(heap, res, Top(t).zone, below.zone)
           H == T[1].held \cup C
           s == [T EXCEPT ![1].held = H]
           h == ZCopyHeap(heap, res, Top(t).zone, below.zone)
<1>1. Running(t) /\ Top(t).kind = "memzone" BY DEF EndMemzone
<1>2. PICK z \in ZoneIds : z = Top(t).zone BY <1>1, TopGood DEF HInv, OInv
<1>3. HeapInv(heap) /\ res \in SUBSET ObjectType /\ \A o \in res : o \in AllHeld(t)
  BY <1>1, TopGood, AtMostOneGood DEF HInv, OInv, IInv, AtMostOne
<1>4. /\ T \in Seq(FrameType) /\ T # <<>> /\ T[1] = below
      /\ below.zone \in ZoneIds /\ Used(heap, below.zone) /\ Len(stack[t]) >= 2
  BY <1>1, BelowGood DEF HInv, OInv
<1>5. below.zone # z
  <2>1. stack[t] \in Seq(FrameType) /\ Top(t) = stack[t][1] BY <1>1, TopGood DEF HInv, OInv, StackGood
  <2>2. 1 \in DOMAIN stack[t] /\ 2 \in DOMAIN stack[t] \ {1} BY <2>1, <1>4
  <2> QED BY <2>1, <2>2, <1>2, FrameAlone DEF HInv
<1>6. /\ heap.live \subseteq h.live /\ SameZones(heap, h)
      /\ ZCopied(heap, res, Top(t).zone) = {} => C = res
      /\ ZCopied(heap, res, Top(t).zone) # {} => C \subseteq h.live /\ \A o \in C : o.zone = below.zone
  <2> DEFINE from == Top(t).zone
             to == below.zone
  <2>1. to \in ZoneIds /\ Used(heap, to) BY <1>4
  <2> HIDE DEF from, to
  <2>2. LET g == ZCopyHeap(heap, res, from, to)
            D == ZCopy(heap, res, from, to)
        IN  /\ heap.live \subseteq g.live /\ SameZones(heap, g)
            /\ ZCopied(heap, res, from) = {} => D = res
            /\ ZCopied(heap, res, from) # {} => D \subseteq g.live /\ \A o \in D : o.zone = to
    BY <1>3, <2>1, ZCopyEffect
  <2> QED BY <2>2 DEF from, to
<1>7. HeapInv(h) BY <1>3, <1>4, ZCopyGood DEF Keeps
<1>8. heap' = (IF delayed THEN h ELSE Destroy(h, z)) BY <1>2 DEF EndMemzone
<1>9. stack' = [stack EXCEPT ![t] = s] BY DEF EndMemzone
<1>10. UNCHANGED <<callbacks, futures>> BY DEF EndMemzone
<1>11. ZCopied(heap, res, Top(t).zone) = {} => \A o \in res : o \in heap.live /\ o.zone # z
  <2>1. \A o \in res : o \in heap.live BY <1>3 DEF HInv, Held, HoldsGood, AllHeld
  <2> QED BY <2>1, <1>2, <1>3, PtrExact DEF ZCopied
<1> HIDE DEF h, C
<1>12. \A o \in h.live : o.zone # z => o \in heap'.live
  BY <1>7, <1>8, DestroyEffect
<1>13. \A o \in heap.live : o.zone # Top(t).zone => o \in heap'.live BY <1>2, <1>6, <1>12
<1>14. /\ HoldsGood(heap', T)
       /\ \A o \in AllHeld(t) : o.zone # Top(t).zone => \E j \in 1 .. Len(T) : T[j].zone = o.zone
  BY <1>1, <1>13, BelowHolds
<1> HIDE DEF below, T
<1>15. 1 \in 1 .. Len(T) /\ 1 \in DOMAIN T BY <1>4
<1>16. \A o \in C : o \in heap'.live /\ \E j \in 1 .. Len(T) : T[j].zone = o.zone
  <2>1. CASE ZCopied(heap, res, Top(t).zone) = {}
    BY <2>1, <1>2, <1>3, <1>6, <1>11, <1>12, <1>14
  <2>2. CASE ZCopied(heap, res, Top(t).zone) # {}
    BY <2>2, <1>4, <1>5, <1>6, <1>12, <1>15
  <2> QED BY <2>1, <2>2
<1>17. \A o \in H : o \in heap'.live /\ \E j \in 1 .. Len(T) : T[j].zone = o.zone
  BY <1>14, <1>15, <1>16 DEF HoldsGood
<1>18. \A i \in DOMAIN T \ {1} : \A o \in T[i].held :
           o \in heap'.live /\ \E j \in i .. Len(T) : T[j].zone = o.zone
  BY <1>14 DEF HoldsGood
<1> HIDE DEF H
<1>19. HoldsGood(heap', s) BY <1>4, <1>17, <1>18, HeldHolds
<1> HIDE DEF s
<1>20. \A w \in ZoneIds \ {z} : heap'.zone[w].hooks = heap.zone[w].hooks
  BY <1>6, <1>7, <1>8, DestroyEffect DEF SameZones, OthersSame
<1>21. heap'.zone[z].hooks = {} \/ \A o \in heap'.zone[z].hooks : o \in heap'.live /\ o.zone = z
  <2>1. CASE delayed BY <2>1, <1>6, <1>8 DEF SameZones, HInv, Held
  <2>2. CASE ~ delayed BY <2>2, <1>7, <1>8, DestroyEffect
  <2> QED BY <2>1, <2>2
<1> QED BY <1>1, <1>2, <1>9, <1>10, <1>13, <1>19, <1>20, <1>21, PopHeld

\* Nobody holds an object of a zone that waits to be destroyed.
LEMMA DestroyDelayedHeld ==
  ASSUME HInv, NEW z \in ZoneIds, DestroyDelayed(z)
  PROVE  Held'
<1>1. /\ heap'.live = {o \in heap.live : o.zone # z} /\ OthersSame(heap, heap', z)
      /\ heap'.zone[z].hooks = {}
  BY DestroyEffect DEF DestroyDelayed, HInv, OInv, IInv
<1>2. Owns(z, "pending", z, 0) BY DEF Owns, DestroyDelayed
<1>3. \A k, a, b : Owns(z, k, a, b) => k = "pending" BY <1>2 DEF HInv, OInv, Owned
<1>4. UNCHANGED <<stack, callbacks, futures>> BY DEF DestroyDelayed
<1>5. ASSUME NEW v \in Threads \cup Workers PROVE HoldsGood(heap', stack'[v])
  <2>1. \A i \in DOMAIN stack[v] : stack[v][i].zone \notin {z}
    BY <1>3, FrameOwner DEF HInv
  <2>2. stack[v] \in Seq(FrameType) /\ HoldsGood(heap, stack[v])
    BY DEF HInv, OInv, IInv, StacksGood, Held
  <2>3. DOMAIN stack[v] = 1 .. Len(stack[v]) /\ Len(stack[v]) \in Nat BY <2>2
  <2>4. \A o \in heap.live : o.zone \notin {z} => o \in heap'.live BY <1>1
  <2>5. HoldsGood(heap', stack[v]) BY <2>1, <2>2, <2>3, <2>4, HoldsKept
  <2> QED BY <2>5, <1>4
<1>6. \A cb \in callbacks' : \A o \in cb.arg : o \in heap'.live /\ o.zone = cb.zone
  <2>1. \A cb \in callbacks : cb.zone = z => Owns(z, "callback", cb, 0) BY DEF Owns
  <2> QED BY <2>1, <1>1, <1>3, <1>4 DEF HInv, Held
<1>7. \A u \in Workers : \A o \in futures'[u].res : o \in heap'.live /\ o.zone = futures'[u].zone
  <2>1. \A u \in Workers : futures[u].zone = z => Owns(z, "future", u, 0) BY DEF Owns
  <2> QED BY <2>1, <1>1, <1>3, <1>4 DEF HInv, Held
<1>8. \A w \in ZoneIds : \A o \in heap'.zone[w].hooks : o \in heap'.live /\ o.zone = w
  BY <1>1 DEF HInv, Held, OthersSame
<1> QED BY <1>5, <1>6, <1>7, <1>8 DEF Held

\* A thread starts with nothing held.
LEMMA ForkHeld ==
  ASSUME HInv, NEW t \in Threads \cup Workers, NEW u \in Workers, NEW z \in ZoneIds,
         NEW rs \in ClosureShapes, Fork(t, u, z, rs)
  PROVE  Held'
<1> DEFINE f == Frame(z, "borrowed", {})
           d == [state |-> "running", zone |-> z, res |-> {}]
<1>1. /\ heap.live \subseteq heap'.live /\ OthersSame(heap, heap', z)
      /\ heap'.zone[z].hooks = {}
  BY MadeEffect, ZonesAssumption DEF Fork, HInv, OInv, IInv
<1>2. f.held = {} /\ d.res = {} BY DEF Frame
<1>3. stack' = [stack EXCEPT ![u] = <<f>>] /\ futures' = [futures EXCEPT ![u] = d]
      /\ callbacks' = callbacks
  BY DEF Fork
<1> HIDE DEF f, d
<1>4. stack'[u] = <<f>> /\ \A v \in (Threads \cup Workers) \ {u} : stack'[v] = stack[v]
  BY <1>3, StackRead DEF HInv, OInv
<1>5. futures'[u] = d /\ \A v \in Workers \ {u} : futures'[v] = futures[v]
  BY <1>3 DEF HInv, OInv, IInv, FuturesGood
<1>6. DOMAIN <<f>> = {1} /\ <<f>>[1] = f OBVIOUS
<1>7. HoldsGood(heap', <<f>>) BY <1>2, <1>6 DEF HoldsGood
<1>8. \A v \in Threads \cup Workers : HoldsGood(heap', stack'[v])
  BY <1>1, <1>4, <1>7, HoldsGrow DEF HInv, Held
<1>9. \A cb \in callbacks' : \A o \in cb.arg : o \in heap'.live /\ o.zone = cb.zone
  BY <1>1, <1>3 DEF HInv, Held
<1>10. \A v \in Workers : \A o \in futures'[v].res : o \in heap'.live /\ o.zone = futures'[v].zone
  BY <1>1, <1>2, <1>5 DEF HInv, Held
<1>11. \A w \in ZoneIds : \A o \in heap'.zone[w].hooks : o \in heap'.live /\ o.zone = w
  BY <1>1 DEF HInv, Held, OthersSame
<1> QED BY <1>8, <1>9, <1>10, <1>11 DEF Held

\* The result of a thread is in the zone of its future.
LEMMA WorkerEndHeld ==
  ASSUME HInv, NEW u \in Threads \cup Workers, NEW z \in ZoneIds,
         NEW res \in AtMostOne(AllHeld(u)), WorkerEnd(u, z, res)
  PROVE  Held'
<1> DEFINE f == Frame(z, "ended", {})
           d == [futures[u] EXCEPT !.state = "finished", !.res = res]
<1>1. Running(u) /\ Top(u).kind = "borrowed" BY DEF WorkerEnd
<1>2. /\ u \in Workers /\ Len(stack[u]) = 1 /\ stack[u][1].zone = futures[u].zone
      /\ futures \in [Workers -> FutureType]
  BY <1>1, BorrowerGood DEF HInv, OInv, IInv, FuturesGood
<1>3. /\ heap'.live = heap.live /\ OthersSame(heap, heap', z) /\ heap'.zone[z].hooks = {}
  BY CreateEffect, ZonesAssumption DEF WorkerEnd, HInv, OInv, IInv
<1>4. \A o \in res : o \in heap.live /\ o.zone = futures[u].zone
  <2>1. stack[u] \in Seq(FrameType) /\ HoldsGood(heap, stack[u])
    BY DEF HInv, OInv, IInv, StacksGood, Held
  <2>2. DOMAIN stack[u] = 1 .. 1 BY <2>1, <1>2
  <2>3. \A i \in 1 .. 1 : i = 1 OBVIOUS
  <2>4. \A o \in AllHeld(u) : o \in stack[u][1].held BY <2>2, <2>3 DEF AllHeld
  <2>5. 1 \in DOMAIN stack[u] BY <2>2
  <2>6. \A o \in stack[u][1].held : o \in heap.live /\ \E j \in 1 .. 1 : stack[u][j].zone = o.zone
    BY <2>1, <2>5, <1>2 DEF HoldsGood
  <2>7. \A o \in stack[u][1].held : o.zone = stack[u][1].zone BY <2>3, <2>6
  <2>8. \A o \in res : o \in AllHeld(u) BY DEF AtMostOne
  <2> QED BY <2>4, <2>6, <2>7, <2>8, <1>2
<1>5. f.held = {} BY DEF Frame
<1>6. d.res = res /\ d.zone = futures[u].zone BY <1>2 DEF FutureType
<1>7. stack' = [stack EXCEPT ![u] = <<f>>] /\ futures' = [futures EXCEPT ![u] = d]
      /\ callbacks' = callbacks
  BY DEF WorkerEnd
<1> HIDE DEF f, d
<1>8. stack'[u] = <<f>> /\ \A v \in (Threads \cup Workers) \ {u} : stack'[v] = stack[v]
  BY <1>7, StackRead DEF HInv, OInv
<1>9. futures'[u] = d /\ \A v \in Workers \ {u} : futures'[v] = futures[v] BY <1>2, <1>7
<1>10. DOMAIN <<f>> = {1} /\ <<f>>[1] = f OBVIOUS
<1>11. HoldsGood(heap', <<f>>) BY <1>5, <1>10 DEF HoldsGood
<1>12. \A v \in Threads \cup Workers : HoldsGood(heap', stack'[v])
  BY <1>3, <1>8, <1>11, HoldsGrow DEF HInv, Held
<1>13. \A cb \in callbacks' : \A o \in cb.arg : o \in heap'.live /\ o.zone = cb.zone
  BY <1>3, <1>7 DEF HInv, Held
<1>14. \A v \in Workers : \A o \in futures'[v].res : o \in heap'.live /\ o.zone = futures'[v].zone
  BY <1>3, <1>4, <1>6, <1>9 DEF HInv, Held
<1>15. \A w \in ZoneIds : \A o \in heap'.zone[w].hooks : o \in heap'.live /\ o.zone = w
  BY <1>3 DEF HInv, Held, OthersSame
<1> QED BY <1>12, <1>13, <1>14, <1>15 DEF Held

\* The result is copied before the zone of the future is destroyed.
LEMMA JoinHeld ==
  ASSUME HInv, NEW t \in Threads \cup Workers, NEW u \in Workers, Join(t, u)
  PROVE  Held'
<1> DEFINE h == ZCopyHeap(heap, futures[u].res, futures[u].zone, Top(t).zone)
           C == ZCopy(heap, futures[u].res, futures[u].zone, Top(t).zone)
           H == stack[t][1].held \cup C
           s == [stack[t] EXCEPT ![1].held = H]
           d == [state |-> "joined", zone |-> None, res |-> {}]
<1>1. Running(t) /\ futures[u].state = "finished" BY DEF Join
<1>2. /\ futures \in [Workers -> FutureType] /\ futures[u].res \in SUBSET ObjectType
      /\ HeapInv(heap)
  BY DEF HInv, OInv, IInv, FuturesGood, FutureType
<1>3. PICK z \in ZoneIds : z = futures[u].zone BY <1>1 DEF HInv, OInv, IInv, FuturesGood
<1>4. \A k, a, b : Owns(z, k, a, b) => k = "future" /\ a = u
  <2>1. Owns(z, "future", u, 0) BY <1>3 DEF Owns
  <2> QED BY <2>1 DEF HInv, OInv, Owned
<1>5. \A v \in Threads \cup Workers : \A i \in DOMAIN stack[v] : stack[v][i].zone # z
  BY <1>1, <1>4, FrameOwner DEF HInv
<1>6. /\ stack[t] \in Seq(FrameType) /\ stack[t] # <<>> /\ Top(t) = stack[t][1]
      /\ Top(t).zone \in ZoneIds /\ Used(heap, Top(t).zone)
  BY <1>1, TopGood DEF HInv, OInv, StackGood
<1>7. Len(stack[t]) \in Nat /\ DOMAIN stack[t] = 1 .. Len(stack[t]) /\ 1 \in DOMAIN stack[t]
  BY <1>6
<1>8. Top(t).zone # z BY <1>5, <1>6, <1>7
<1>9. /\ heap.live \subseteq h.live /\ SameZones(heap, h)
      /\ ZCopied(heap, futures[u].res, futures[u].zone) = {} => C = futures[u].res
      /\ ZCopied(heap, futures[u].res, futures[u].zone) # {} =>
             C \subseteq h.live /\ \A o \in C : o.zone = Top(t).zone
  BY <1>2, <1>6, ZCopyEffect
<1>10. HeapInv(h) BY <1>2, <1>6, ZCopyGood DEF Keeps
<1>11. ZCopied(heap, futures[u].res, futures[u].zone) = {} => futures[u].res = {}
  <2>1. \A o \in futures[u].res : o \in heap.live /\ o.zone = z BY <1>3 DEF HInv, Held
  <2> QED BY <2>1, <1>2, <1>3, PtrExact DEF ZCopied
<1>12. /\ heap' = Destroy(h, z) /\ stack' = [stack EXCEPT ![t] = s]
       /\ futures' = [futures EXCEPT ![u] = d] /\ callbacks' = callbacks
  BY <1>3 DEF Join
<1>13. d.res = {} OBVIOUS
<1> HIDE DEF h, C, d
<1>14. /\ heap'.live = {o \in h.live : o.zone # z} /\ OthersSame(h, heap', z)
       /\ heap'.zone[z].hooks = {}
  BY <1>10, <1>12, DestroyEffect
<1>15. \A o \in heap.live : o.zone \notin {z} => o \in heap'.live BY <1>9, <1>14
<1>16. \A o \in C : o \in heap'.live /\ o.zone = Top(t).zone BY <1>8, <1>9, <1>11, <1>14
<1>17. HoldsGood(heap', stack[t])
  <2>1. HoldsGood(heap, stack[t]) BY DEF HInv, Held
  <2>2. \A i \in DOMAIN stack[t] : stack[t][i].zone \notin {z} BY <1>5
  <2> QED BY <2>1, <2>2, <1>7, <1>15, HoldsKept
<1>18. HoldsGood(heap', s)
  <2>1. \A i \in DOMAIN stack[t] \ {1} : \A o \in stack[t][i].held :
            o \in heap'.live /\ \E j \in i .. Len(stack[t]) : stack[t][j].zone = o.zone
    BY <1>17 DEF HoldsGood
  <2>2. 1 \in 1 .. Len(stack[t]) BY <1>7
  <2>3. \A o \in H : o \in heap'.live /\ \E j \in 1 .. Len(stack[t]) : stack[t][j].zone = o.zone
    BY <2>2, <1>6, <1>7, <1>16, <1>17 DEF HoldsGood
  <2> HIDE DEF H
  <2> QED BY <2>1, <2>3, <1>6, HeldHolds
<1> HIDE DEF s
<1>19. stack'[t] = s /\ \A v \in (Threads \cup Workers) \ {t} : stack'[v] = stack[v]
  BY <1>12, StackRead DEF HInv, OInv
<1>20. futures'[u] = d /\ \A v \in Workers \ {u} : futures'[v] = futures[v] BY <1>2, <1>12
<1>21. HoldsGood(heap', stack'[t]) BY <1>18, <1>19
<1>22. \A v \in (Threads \cup Workers) \ {t} :
           stack'[v] = stack[v] /\ \A i \in DOMAIN stack[v] : stack[v][i].zone \notin {z}
  BY <1>5, <1>19
<1>23. \A cb \in callbacks' : cb \in callbacks /\ cb.zone \notin {z}
  <2>1. \A cb \in callbacks : cb.zone = z => Owns(z, "callback", cb, 0) BY DEF Owns
  <2> QED BY <2>1, <1>4, <1>12
<1>24. \A v \in Workers :
           \/ futures'[v] = futures[v] /\ futures[v].zone \notin {z}
           \/ \A o \in futures'[v].res : o \in heap'.live /\ o.zone = futures'[v].zone
  <2>1. \A v \in Workers : futures[v].zone = z => Owns(z, "future", v, 0) BY DEF Owns
  <2> QED BY <2>1, <1>4, <1>13, <1>20
<1>25. \A w \in ZoneIds :
           \/ heap'.zone[w].hooks = heap.zone[w].hooks /\ w \notin {z}
           \/ \A o \in heap'.zone[w].hooks : o \in heap'.live /\ o.zone = w
  BY <1>9, <1>14 DEF SameZones, OthersSame
<1> QED BY <1>15, <1>21, <1>22, <1>23, <1>24, <1>25, HeldStep

\* Nothing is held at the start.
LEMMA InitHeld == Init => HInv
<1> SUFFICES ASSUME Init PROVE Held BY InitOwned DEF HInv
<1>1. DOMAIN <<>> = {} OBVIOUS
<1>2. \A t \in Threads \cup Workers : HoldsGood(heap, stack[t]) BY <1>1 DEF Init, HoldsGood
<1>3. \A z \in ZoneIds : heap.zone[z].hooks = {}
  <2>1. heap.zone = [z \in ZoneIds |-> NoZone] /\ NoZone.hooks = {} BY DEF Init, NoZone
  <2> QED BY <2>1
<1>4. \A u \in Workers : futures[u].res = {} BY DEF Init
<1> QED BY <1>2, <1>3, <1>4 DEF Init, Held

\* Every operation keeps what is held in zones that live.
LEMMA NextHeld ==
  ASSUME ~ MayOuter, ~ MayResetHooked
  PROVE  HInv /\ [Next]_vars => HInv'
<1> SUFFICES ASSUME HInv, [Next]_vars PROVE Held'
  BY NextOwned DEF HInv
<1>1. CASE UNCHANGED vars BY <1>1 DEF vars, HInv, Held
<1>2. ASSUME NEW z \in ZoneIds, DestroyDelayed(z) PROVE Held' BY <1>2, DestroyDelayedHeld
<1>3. ASSUME NEW t \in Threads \cup Workers, Compiled(t) PROVE Held'
  <2>1. CASE \E z \in ZoneIds : PeekEmpty(t, z) BY <2>1, PeekEmptyHeld
  <2>2. CASE \E r \in Requests : Alloc(t, r) BY <2>2, AllocHeld
  <2>3. CASE \E r \in Requests : ZoneCleanup(t, r) BY <2>3, ZoneCleanupHeld
  <2>4. CASE \E rs \in ClosureShapes : MakeClosure(t, rs) BY <2>4, MakeClosureHeld
  <2>5. CASE ResetZone(t) BY <2>5, ResetZoneHeld
  <2>6. CASE \E z \in ZoneIds, s \in ZoneSizes : BeginMemzone(t, z, s) BY <2>6, BeginMemzoneHeld
  <2>7. CASE \E res \in AtMostOne(AllHeld(t)), delayed \in BOOLEAN : EndMemzone(t, res, delayed)
    BY <2>7, EndMemzoneHeld
  <2>8. CASE \E z \in ZoneIds, arg \in AtMostOne(AllHeld(t)) : Schedule(t, z, arg)
    BY <2>8, ScheduleHeld
  <2>9. CASE \E cb \in callbacks : RunCallback(t, cb) BY <2>9, RunCallbackHeld
  <2>10. CASE EndCallback(t) BY <2>10, EndCallbackHeld
  <2>11. CASE \E f \in Funcs, z \in ZoneIds, s \in ZoneSizes, rs \in ClosureShapes :
                 Rebind(t, f, z, s, rs)
    BY <2>11, RebindHeld
  <2>12. CASE \E u \in Workers, z \in ZoneIds, rs \in ClosureShapes : Fork(t, u, z, rs)
    BY <2>12, ForkHeld
  <2>13. CASE \E z \in ZoneIds, res \in AtMostOne(AllHeld(t)) : WorkerEnd(t, z, res)
    BY <2>13, WorkerEndHeld
  <2>14. CASE \E u \in Workers : Join(t, u) BY <2>14, JoinHeld
  <2> QED BY <1>3, <2>1, <2>2, <2>3, <2>4, <2>5, <2>6, <2>7, <2>8, <2>9, <2>10, <2>11, <2>12,
             <2>13, <2>14 DEF Compiled
<1> QED BY <1>1, <1>2, <1>3 DEF Next

\* Every pointer that running code, a waiting callback or an unread future has
\* is to an object that is still there, and so is every cleanup hook, with any
\* number of zones, threads and workers and all sizes: as long as a callback is
\* given data of the innermost zone only, and reset_zone is not called on a
\* zone with hooks.
THEOREM HeldObjectsLive ==
  ASSUME ~ MayOuter, ~ MayResetHooked
  PROVE  Spec => []HeldLive
<1>1. HInv /\ [Next]_vars => HInv' BY NextHeld
<1>2. HInv => HeldLive BY HeldImplies DEF HInv
<1> QED BY <1>1, <1>2, InitHeld, PTL DEF Spec
=============================================================================
