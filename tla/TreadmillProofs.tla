--------------------------- MODULE TreadmillProofs ---------------------------
(***************************************************************************)
(* The treadmill is a correct collector, for every size of the heap, any   *)
(* number of registers and of fields: its ring stays well formed, it       *)
(* implements the abstract collector and its threads the handshake.        *)
(*                                                                         *)
(* The proof has three parts.  A ring is described by the list q of its    *)
(* cells, clockwise from treadmill_free, and the lengths w, e and g of the *)
(* white, ecru and grey lists; each operation on the ring is shown to give *)
(* another such list, found explicitly.  The invariant adds to this where  *)
(* every operation of the mutator stands, and that some ecru cell is       *)
(* garbage.  Last, every action keeps the invariant, and its effect on the *)
(* colours, the registers and the flags is an action of the two abstract   *)
(* specifications, whose own invariants are used on the way.               *)
(***************************************************************************)
EXTENDS Treadmill, TLAPS, FiniteSetTheorems, WellFoundedInduction

-----------------------------------------------------------------------------
(* Well-formed treadmills. *)

(* The fields of the ring, with _list_colour in lc.                        *)
RingType ==
    [cw : [Cells -> Cells], ccw : [Cells -> Cells], colour : [Cells -> BOOLEAN],
     lc : [Cells -> 0 .. 3], dark : BOOLEAN, inserts : Nat,
     free : Cells, bottom : Cells, top : Cells, scan : Cells]

(* The position clockwise of i in a cycle of n cells.                      *)
After(i, n) == IF i = n THEN 1 ELSE i + 1

(* q lists the n cells of B clockwise, each once; the links say the same.  *)
Chain(r, B, n, q) ==
    /\ n \in Nat /\ q \in [1 .. n -> B]
    /\ \A c \in B : \E i \in 1 .. n : q[i] = c
    /\ \A i, j \in 1 .. n : q[i] = q[j] => i = j
    /\ \A i \in 1 .. n : r.cw[q[i]] = q[After(i, n)] /\ r.ccw[q[After(i, n)]] = q[i]

(* The list at position i: w white cells, then e ecru and g grey ones, the *)
(* rest is black.                                                          *)
ColourAt(i, w, e, g) ==
    IF i <= w THEN White ELSE IF i <= w + e THEN Ecru ELSE IF i <= w + e + g THEN Grey ELSE Black

(* treadmill_free is the first cell, and the other pointers are where the  *)
(* lists end. The ecru list is never empty: it is what keeps top and       *)
(* bottom apart.                                                           *)
Parts(r, n, q, w, e, g) ==
    /\ w \in Nat /\ e \in Nat /\ g \in Nat
    /\ e >= 1 /\ e < n /\ w + e + g <= n
    /\ r.free = q[1] /\ r.bottom = q[w + 1] /\ r.top = q[w + e] /\ r.scan = q[w + e + g]
    /\ \A i \in 1 .. n : r.lc[q[i]] = ColourAt(i, w, e, g)

(* What insert_treadmill does to each field, when it moves a cell.         *)
LEMMA InsertFields ==
  ASSUME NEW r \in RingType, NEW p \in Cells, r.colour[p] # r.dark,
         p = r.top \/ p = r.bottom \/ p # r.free
  PROVE  LET s == insert_treadmill(r, p)
             at == IF p = r.top THEN r.ccw[p] ELSE r.top
             b == r.cw[p]
             a == r.ccw[p]
             u == IF at = a THEN b ELSE r.cw[at]
         IN  /\ s \in RingType
             /\ s.cw = [[r.cw EXCEPT ![a] = b] EXCEPT ![p] = u, ![at] = p]
             /\ s.ccw = [[r.ccw EXCEPT ![b] = a] EXCEPT ![p] = at, ![u] = p]
             /\ s.colour = [r.colour EXCEPT ![p] = r.dark]
             /\ s.lc = [r.lc EXCEPT ![p] = Grey]
             /\ s.dark = r.dark
             /\ s.top = at
             /\ s.scan = IF r.scan = at THEN p ELSE r.scan
             /\ s.bottom = IF p # r.top /\ p = r.bottom THEN b ELSE r.bottom
             /\ s.free = IF p # r.top /\ p = r.bottom /\ p = r.free THEN b ELSE r.free
<1> DEFINE at == IF p = r.top THEN r.ccw[p] ELSE r.top
           b == r.cw[p]
           a == r.ccw[p]
           u == IF at = a THEN b ELSE r.cw[at]
           isBot == p # r.top /\ p = r.bottom
           m == [r EXCEPT !.top = at,
                           !.bottom = IF isBot THEN r.cw[p] ELSE @,
                           !.free = IF isBot /\ p = @ THEN r.cw[p] ELSE @,
                           !.scan = IF @ = at THEN p ELSE @,
                           !.inserts = @ + 1,
                           !.lc[p] = Grey]
           k == unlink(m, p)
           v == splice(k, p, at)
<1>1. insert_treadmill(r, p) = [v EXCEPT !.colour[p] = r.dark]
  BY DEF insert_treadmill
<1>2. /\ r.cw \in [Cells -> Cells] /\ r.ccw \in [Cells -> Cells] /\ r.colour \in [Cells -> BOOLEAN]
      /\ r.lc \in [Cells -> 0 .. 3] /\ r.dark \in BOOLEAN /\ r.inserts \in Nat
      /\ r.free \in Cells /\ r.bottom \in Cells /\ r.top \in Cells /\ r.scan \in Cells
  BY DEF RingType
<1>3. at \in Cells /\ b \in Cells /\ a \in Cells /\ u \in Cells
  BY <1>2
<1>4. /\ m \in RingType /\ m.cw = r.cw /\ m.ccw = r.ccw /\ m.colour = r.colour
      /\ m.lc = [r.lc EXCEPT ![p] = Grey] /\ m.dark = r.dark
      /\ m.top = at /\ m.scan = (IF r.scan = at THEN p ELSE r.scan)
      /\ m.bottom = (IF isBot THEN b ELSE r.bottom)
      /\ m.free = (IF isBot /\ p = r.free THEN b ELSE r.free)
  <2>1. r = [cw |-> r.cw, ccw |-> r.ccw, colour |-> r.colour, lc |-> r.lc, dark |-> r.dark,
             inserts |-> r.inserts, free |-> r.free, bottom |-> r.bottom, top |-> r.top,
             scan |-> r.scan]
    BY DEF RingType
  <2> DEFINE lc2 == [r.lc EXCEPT ![p] = Grey]
             bot2 == IF isBot THEN b ELSE r.bottom
             free2 == IF isBot /\ p = r.free THEN b ELSE r.free
             scan2 == IF r.scan = at THEN p ELSE r.scan
  <2>2. m = [r EXCEPT !.top = at, !.bottom = bot2, !.free = free2, !.scan = scan2,
                      !.inserts = r.inserts + 1, !.lc = lc2]
    OBVIOUS
  <2>3. lc2 \in [Cells -> 0 .. 3] /\ bot2 \in Cells /\ free2 \in Cells /\ scan2 \in Cells
    BY <1>2, <1>3 DEF Grey
  <2> HIDE DEF m, lc2, bot2, free2, scan2, at
  <2>4. m = [cw |-> r.cw, ccw |-> r.ccw, colour |-> r.colour, lc |-> lc2, dark |-> r.dark,
             inserts |-> r.inserts + 1, free |-> free2, bottom |-> bot2, top |-> at,
             scan |-> scan2]
    BY <2>1, <2>2
  <2>5. m \in RingType
    BY <2>3, <2>4, <1>2, <1>3 DEF RingType
  <2>6. QED
    BY <2>4, <2>5 DEF lc2, bot2, free2, scan2
<1> HIDE DEF m
<1>5. /\ k \in RingType /\ k.cw = [r.cw EXCEPT ![a] = b] /\ k.ccw = [r.ccw EXCEPT ![b] = a]
      /\ k.colour = m.colour /\ k.lc = m.lc /\ k.dark = m.dark /\ k.top = m.top
      /\ k.scan = m.scan /\ k.bottom = m.bottom /\ k.free = m.free
  BY <1>2, <1>3, <1>4 DEF RingType, unlink
<1> HIDE DEF k
<1>6. k.cw[at] = u
  BY <1>5, <1>2, <1>3
<1>7. /\ v \in RingType
      /\ v.cw = [k.cw EXCEPT ![p] = u, ![at] = p]
      /\ v.ccw = [k.ccw EXCEPT ![p] = at, ![u] = p]
      /\ v.colour = m.colour /\ v.lc = m.lc /\ v.dark = m.dark /\ v.top = m.top
      /\ v.scan = m.scan /\ v.bottom = m.bottom /\ v.free = m.free
  BY <1>2, <1>3, <1>5, <1>6 DEF RingType, splice
<1> HIDE DEF v
<1>8. /\ insert_treadmill(r, p) \in RingType
      /\ insert_treadmill(r, p).cw = v.cw /\ insert_treadmill(r, p).ccw = v.ccw
      /\ insert_treadmill(r, p).lc = v.lc /\ insert_treadmill(r, p).dark = v.dark
      /\ insert_treadmill(r, p).top = v.top /\ insert_treadmill(r, p).scan = v.scan
      /\ insert_treadmill(r, p).bottom = v.bottom /\ insert_treadmill(r, p).free = v.free
      /\ insert_treadmill(r, p).colour = [v.colour EXCEPT ![p] = r.dark]
  BY <1>1, <1>2, <1>7 DEF RingType
<1> HIDE DEF at, a, b, u
<1>9. QED
  BY <1>4, <1>5, <1>7, <1>8 DEF at, a, b, u

(* The cells that are grey or black have the dark colour, the ecru ones    *)
(* have not; nothing is said of the white ones, whose colour get_cell      *)
(* sets.                                                                   *)
Coloured(r, B) ==
    \A c \in B : /\ r.lc[c] \in {Grey, Black} => r.colour[c] = r.dark
                 /\ r.lc[c] = Ecru => r.colour[c] # r.dark

(* A well-formed treadmill on the cells of B.                              *)
Ring(r, B, n, q, w, e, g) ==
    r \in RingType /\ Chain(r, B, n, q) /\ Parts(r, n, q, w, e, g) /\ Coloured(r, B)

(* s is r with the ecru cell p moved to the end of the grey list.          *)
Moved(s, r, B, n, w, e, g, p) ==
    /\ \E x : Ring(s, B, n, x, w, e - 1, g + 1)
    /\ s.lc = [r.lc EXCEPT ![p] = Grey] /\ s.dark = r.dark
    /\ g >= 1 => s.scan = r.scan

(* insert_treadmill keeps the treadmill well formed. The cases are where   *)
(* the cell is: at top, at bottom (and with no white cells at free too),   *)
(* next to top, or between. Two ecru cells are needed: with one, top and   *)
(* bottom would meet.                                                      *)
LEMMA InsertMoves ==
  ASSUME NEW B \in SUBSET Cells, NEW r, NEW n, NEW q, NEW w, NEW e, NEW g,
         Ring(r, B, n, q, w, e, g), e >= 2,
         NEW p \in B, r.lc[p] = Ecru
  PROVE  Moved(insert_treadmill(r, p), r, B, n, w, e, g, p)
<1> DEFINE s == insert_treadmill(r, p)
           last == w + e
<1>1. /\ r \in RingType /\ n \in Nat /\ q \in [1 .. n -> B]
      /\ w \in Nat /\ e \in Nat /\ g \in Nat /\ e < n /\ w + e + g <= n
      /\ p \in Cells /\ r.cw \in [Cells -> Cells] /\ r.ccw \in [Cells -> Cells]
      /\ r.lc \in [Cells -> 0 .. 3] /\ r.colour \in [Cells -> BOOLEAN] /\ r.dark \in BOOLEAN
  BY DEF Ring, Chain, Parts, RingType
<1>2. /\ \A i, j \in 1 .. n : q[i] = q[j] => i = j
      /\ \A i \in 1 .. n : r.cw[q[i]] = q[After(i, n)] /\ r.ccw[q[After(i, n)]] = q[i]
      /\ \A i \in 1 .. n : q[i] \in Cells
  BY <1>1 DEF Ring, Chain
<1>3. /\ r.free = q[1] /\ r.bottom = q[w + 1] /\ r.top = q[last] /\ r.scan = q[last + g]
      /\ \A i \in 1 .. n : r.lc[q[i]] = ColourAt(i, w, e, g)
  BY DEF Ring, Parts
<1>4. PICK i \in 1 .. n : q[i] = p
  BY DEF Ring, Chain
<1>5. w + 1 <= i /\ i <= last /\ last \in 1 .. n /\ w + 1 \in 1 .. n /\ last + g \in 1 .. n
      /\ 1 \in 1 .. n
  BY <1>1, <1>3, <1>4 DEF ColourAt, White, Ecru, Grey, Black
<1>6. r.colour[p] # r.dark
  BY DEF Ring, Coloured
<1>7. p = r.top \/ p = r.bottom \/ p # r.free
  BY <1>1, <1>2, <1>3, <1>4, <1>5
<1> DEFINE at == IF p = r.top THEN r.ccw[p] ELSE r.top
           b == r.cw[p]
           a == r.ccw[p]
           u == IF at = a THEN b ELSE r.cw[at]
<1>8. /\ s \in RingType
      /\ s.cw = [[r.cw EXCEPT ![a] = b] EXCEPT ![p] = u, ![at] = p]
      /\ s.ccw = [[r.ccw EXCEPT ![b] = a] EXCEPT ![p] = at, ![u] = p]
      /\ s.colour = [r.colour EXCEPT ![p] = r.dark]
      /\ s.lc = [r.lc EXCEPT ![p] = Grey]
      /\ s.dark = r.dark
      /\ s.top = at
      /\ s.scan = IF r.scan = at THEN p ELSE r.scan
      /\ s.bottom = IF p # r.top /\ p = r.bottom THEN b ELSE r.bottom
      /\ s.free = IF p # r.top /\ p = r.bottom /\ p = r.free THEN b ELSE r.free
  BY <1>1, <1>6, <1>7, InsertFields
<1> HIDE DEF s
<1> DEFINE before == IF i = 1 THEN n ELSE i - 1
<1>9. before \in 1 .. n /\ After(before, n) = i /\ a = q[before] /\ b = q[After(i, n)]
      /\ After(i, n) \in 1 .. n
  <2>1. before \in 1 .. n /\ After(before, n) = i
    BY <1>1 DEF After
  <2>2. After(i, n) \in 1 .. n
    BY <1>1 DEF After
  <2>3. QED
    BY <2>1, <2>2, <1>2, <1>4
<1>10. Coloured(s, B)
  BY <1>1, <1>8 DEF Ring, Coloured, Ecru, Grey, Black
<1>11. CASE i = last
  <2>1. before = i - 1 /\ at = q[before] /\ at = a /\ u = b /\ p = r.top
    BY <1>1, <1>3, <1>4, <1>5, <1>9, <1>11
  <2>2. s.cw = r.cw /\ s.ccw = r.ccw
    <3>1. a \in Cells /\ b \in Cells /\ r.cw[a] = p /\ r.ccw[b] = p
      BY <1>1, <1>2, <1>4, <1>9
    <3>2. QED
      BY <3>1, <2>1, <1>1, <1>8
  <2>3. Chain(s, B, n, q)
    BY <2>2 DEF Ring, Chain
  <2>4. r.scan # at /\ s.scan = r.scan /\ s.bottom = r.bottom /\ s.free = r.free
    BY <1>1, <1>2, <1>3, <1>4, <1>5, <1>8, <1>9, <1>11, <2>1
  <2>5. ASSUME NEW j \in 1 .. n PROVE s.lc[q[j]] = ColourAt(j, w, e - 1, g + 1)
    BY <1>1, <1>2, <1>3, <1>4, <1>8, <1>11 DEF ColourAt
  <2>6. Parts(s, n, q, w, e - 1, g + 1)
    BY <1>1, <1>3, <1>4, <1>5, <1>8, <1>11, <2>1, <2>4, <2>5 DEF Parts
  <2>7. QED
    BY <2>3, <2>4, <2>6, <1>8, <1>10 DEF Ring, Moved, s
<1>12. CASE i # last
  <2>1. /\ p # r.top /\ at = q[last] /\ i < last
        /\ b = q[i + 1] /\ i + 1 \in 1 .. n
    BY <1>1, <1>2, <1>3, <1>4, <1>5, <1>9, <1>12 DEF After
  <2>2. before # last /\ (i = 1 => last < n) /\ After(last, n) \in 1 .. n /\ After(last, n) # i
    BY <1>1, <1>5, <1>12 DEF After
  <2>3. at # a /\ u = q[After(last, n)] /\ u # p /\ a # p
    <3>1. at # a /\ a # p
      BY <1>1, <1>2, <1>4, <1>5, <1>9, <2>1, <2>2
    <3>2. u = q[After(last, n)]
      BY <3>1, <2>1, <1>2, <1>5
    <3>3. QED
      BY <3>1, <3>2, <2>2, <1>2, <1>4
  <2> DEFINE x == [j \in 1 .. n |-> IF j < i \/ j > last THEN q[j]
                                    ELSE IF j = last THEN p ELSE q[j + 1]]
  <2>4. x \in [1 .. n -> B]
    BY <1>1, <1>5
  <2>5. ASSUME NEW c \in B PROVE \E j \in 1 .. n : x[j] = c
    <3>1. PICK j \in 1 .. n : q[j] = c
      BY DEF Ring, Chain
    <3>2. CASE j < i \/ j > last
      BY <3>1, <3>2
    <3>3. CASE j = i
      BY <3>1, <3>3, <1>4, <1>5
    <3>4. CASE j > i /\ j <= last
      <4>1. j - 1 \in 1 .. n /\ x[j - 1] = q[j]
        BY <3>4, <1>5, <1>1
      <4>2. QED
        BY <4>1, <3>1
    <3>5. QED
      BY <3>2, <3>3, <3>4, <1>1, <1>5
  <2>6. ASSUME NEW j \in 1 .. n, NEW k \in 1 .. n, x[j] = x[k] PROVE j = k
    BY <2>6, <1>1, <1>2, <1>4, <1>5
  <2>7. \A c \in Cells : /\ s.cw[c] = IF c = at THEN p ELSE IF c = p THEN u
                                      ELSE IF c = a THEN b ELSE r.cw[c]
                         /\ s.ccw[c] = IF c = u THEN p ELSE IF c = p THEN at
                                       ELSE IF c = b THEN a ELSE r.ccw[c]
    BY <1>1, <1>2, <1>5, <1>8, <1>9, <2>1, <2>2, <2>3
  <2>8. ASSUME NEW j \in 1 .. n
        PROVE  s.cw[x[j]] = x[After(j, n)] /\ s.ccw[x[After(j, n)]] = x[j]
    <3>1. /\ \A k \in 1 .. n : x[k] = IF k < i \/ k > last THEN q[k]
                                      ELSE IF k = last THEN p ELSE q[k + 1]
          /\ After(j, n) \in 1 .. n /\ j \in Nat /\ i \in Nat /\ last \in Nat
      BY <1>1 DEF After
    <3>2. \A k \in 1 .. n : q[k] \in Cells /\ (q[k] = p <=> k = i) /\ (q[k] = at <=> k = last)
                          /\ (q[k] = a <=> k = before) /\ (q[k] = b <=> k = i + 1)
                          /\ (q[k] = u <=> k = After(last, n))
      BY <1>2, <1>4, <1>5, <1>9, <2>1, <2>2, <2>3
    <3> HIDE DEF x, a, b, u, at, s
    <3>3. CASE j = before
      <4>1. x[j] = a /\ x[After(j, n)] = b
        BY <3>1, <3>2, <3>3, <1>1, <1>5, <1>9, <2>1, <2>2 DEF After
      <4>2. i + 1 # After(last, n)
        BY <1>1, <2>1, <1>5 DEF After
      <4>3. a \in Cells /\ b \in Cells /\ a # at /\ a # p /\ b # u /\ b # p
        BY <4>2, <3>2, <1>9, <2>1, <2>2, <2>3, <3>1
      <4>4. QED
        BY <4>1, <4>3, <2>7
    <3>4. CASE j = last
      <4>1. x[j] = p /\ p \in Cells /\ p # at /\ u \in Cells
        BY <3>1, <3>2, <3>4, <1>1, <1>3, <1>5, <2>1, <2>2, <2>3
      <4>2. x[After(j, n)] = u
        <5>1. After(last, n) < i \/ After(last, n) > last
          BY <1>1, <1>5, <2>1, <2>2 DEF After
        <5>2. QED
          BY <5>1, <3>1, <3>4, <2>2, <2>3
      <4>3. QED
        BY <4>1, <4>2, <2>7
    <3>5. CASE j = last - 1 /\ j # before
      <4>1. After(j, n) = last /\ i <= j /\ j + 1 = last
        BY <3>1, <3>5, <1>1, <1>5, <2>1 DEF After
      <4>2. x[j] = at /\ x[After(j, n)] = p /\ at \in Cells /\ p \in Cells /\ p # u
        BY <4>1, <3>1, <3>2, <3>5, <1>1, <1>5, <2>1, <2>3
      <4>3. QED
        BY <4>2, <2>7
    <3>6. CASE i <= j /\ j < last - 1
      <4>1. After(j, n) = j + 1 /\ j + 1 \in 1 .. n /\ j + 2 \in 1 .. n /\ j + 1 + 1 = j + 2
            /\ After(j + 1, n) = j + 2
        BY <3>1, <3>6, <1>1, <1>5 DEF After
      <4>2. x[j] = q[j + 1] /\ x[After(j, n)] = q[j + 2]
        BY <4>1, <3>1, <3>6
      <4>3. j + 1 # i /\ j + 1 # last /\ j + 1 # before /\ j + 2 # i /\ j + 2 # i + 1 
            /\ j + 2 # After(last, n)
        BY <3>1, <3>6, <1>1, <1>5 DEF After
      <4>4. s.cw[q[j + 1]] = r.cw[q[j + 1]] /\ s.ccw[q[j + 2]] = r.ccw[q[j + 2]]
        BY <4>1, <4>3, <2>7, <3>2
      <4>5. QED
        BY <4>1, <4>2, <4>4, <1>2
    <3>7. CASE j # before /\ (j < i \/ j > last)
      <4>1. After(j, n) < i \/ After(j, n) > last
        BY <3>1, <3>7, <1>1, <1>5 DEF After
      <4>2. x[j] = q[j] /\ x[After(j, n)] = q[After(j, n)]
        BY <4>1, <3>1, <3>7
      <4>3. j # i /\ j # last /\ j # before /\ After(j, n) # i /\ After(j, n) # i + 1 
            /\ After(j, n) # After(last, n)
        BY <4>1, <3>1, <3>7, <1>1, <1>5, <2>1 DEF After
      <4>4. s.cw[q[j]] = r.cw[q[j]] /\ s.ccw[q[After(j, n)]] = r.ccw[q[After(j, n)]]
        BY <4>3, <2>7, <3>1, <3>2
      <4>5. QED
        BY <4>2, <4>4, <1>2
    <3>8. QED
      BY <3>3, <3>4, <3>5, <3>6, <3>7, <3>1
  <2>9. Chain(s, B, n, x)
    <3> HIDE DEF x
    <3>1. QED
      BY <2>4, <2>5, <2>6, <2>8, <1>1 DEF Chain
  <2>10. /\ s.free = x[1] /\ s.bottom = x[w + 1] /\ s.top = x[w + (e - 1)]
         /\ s.scan = x[w + (e - 1) + (g + 1)] /\ (g >= 1 => s.scan = r.scan)
    <3>1. w + (e - 1) = last - 1 /\ w + (e - 1) + (g + 1) = last + g
      BY <1>1
    <3>2. s.free = x[1]
      <4>1. CASE i = 1
        BY <4>1, <1>1, <1>2, <1>3, <1>4, <1>5, <1>8, <2>1
      <4>2. CASE i # 1
        BY <4>2, <1>1, <1>2, <1>3, <1>4, <1>5, <1>8, <2>1
      <4>3. QED
        BY <4>1, <4>2
    <3>3. s.bottom = x[w + 1]
      <4>1. CASE i = w + 1
        BY <4>1, <1>1, <1>2, <1>3, <1>4, <1>5, <1>8, <2>1
      <4>2. CASE i # w + 1
        BY <4>2, <1>1, <1>2, <1>3, <1>4, <1>5, <1>8, <2>1
      <4>3. QED
        BY <4>1, <4>2
    <3>4. s.top = x[last - 1]
      <4>1. last - 1 \in 1 .. n /\ i <= last - 1 /\ last - 1 + 1 = last
        BY <1>1, <1>5, <2>1
      <4>2. QED
        BY <4>1, <1>1, <1>5, <1>8, <2>1
    <3>5. s.scan = x[last + g] /\ (g >= 1 => s.scan = r.scan)
      <4>1. r.scan = at <=> g = 0
        BY <1>1, <1>2, <1>3, <1>5, <2>1
      <4>2. g # 0 => last + g > last
        BY <1>1
      <4>3. g = 0 => last + g = last
        BY <1>1
      <4>4. QED
        BY <4>1, <4>2, <4>3, <1>1, <1>3, <1>4, <1>5, <1>8
    <3>6. QED
      BY <3>1, <3>2, <3>3, <3>4, <3>5
  <2>11. ASSUME NEW j \in 1 .. n PROVE s.lc[x[j]] = ColourAt(j, w, e - 1, g + 1)
    <3>1. \A c \in Cells : s.lc[c] = IF c = p THEN Grey ELSE r.lc[c]
      BY <1>1, <1>8
    <3>2. CASE j < i \/ j > last
      BY <3>1, <3>2, <1>1, <1>2, <1>3, <1>4, <1>5 DEF ColourAt
    <3>3. CASE j = last
      BY <3>1, <3>3, <1>1, <1>4, <1>5 DEF ColourAt
    <3>4. CASE j >= i /\ j < last
      <4>1. j + 1 \in 1 .. n /\ x[j] = q[j + 1] /\ q[j + 1] # p
        BY <3>4, <1>1, <1>2, <1>4, <1>5
      <4>2. QED
        BY <3>1, <3>4, <4>1, <1>1, <1>2, <1>3, <1>5 DEF ColourAt
    <3>5. QED
      BY <3>2, <3>3, <3>4, <1>1, <1>5
  <2>12. Parts(s, n, x, w, e - 1, g + 1)
    <3> HIDE DEF x
    <3>1. QED
      BY <2>10, <2>11, <1>1 DEF Parts
  <2>13. QED
    <3> HIDE DEF x
    <3>1. QED
      BY <2>9, <2>10, <2>12, <1>8, <1>10 DEF Ring, Moved, s
<1>13. QED
  BY <1>11, <1>12

\* Induction over the natural numbers, of a set.

-----------------------------------------------------------------------------
(* Sequences of insertions. *)

(* Induction, for a set of numbers.                                        *)
LEMMA NatSetInduction ==
  ASSUME NEW S, 0 \in S, \A n \in Nat : n \in S => n + 1 \in S
  PROVE  Nat \subseteq S
<1> DEFINE R == {ss \in Nat \X Nat : ss[1] < ss[2]}
           T == Nat \ S
<1>1. IsWellFoundedOn(R, Nat) BY NatLessThanWellFounded DEF OpToRel
<1> SUFFICES ASSUME T # {} PROVE FALSE OBVIOUS
<1>2. T \subseteq Nat OBVIOUS
<1> HIDE DEF R, T
<1>3. PICK x \in T : \A y \in T : ~ (<<y, x>> \in R) BY <1>1, <1>2, WFMin
<1>4. x \in Nat /\ x # 0 /\ x - 1 \in Nat BY <1>3 DEF T
<1>5. x - 1 \in T
  <2>1. (x - 1) + 1 = x BY <1>4
  <2>2. x \notin S BY <1>3 DEF T
  <2> QED BY <1>4, <2>1, <2>2 DEF T
<1>6. <<x - 1, x>> \in R BY <1>4 DEF R
<1> QED BY <1>3, <1>5, <1>6

(* v holds the results of applying F[1], F[2] ... F[n] to a.               *)
Iterates(v, R, a, n, F) ==
    v \in [0 .. n -> R] /\ v[0] = a /\ \A i \in 1 .. n : v[i] = F[i][v[i - 1]]

(* Functions can be applied one after the other.                           *)
LEMMA Iteration ==
  ASSUME NEW R, NEW a \in R, NEW n \in Nat, NEW F \in [1 .. n -> [R -> R]]
  PROVE  \E v : Iterates(v, R, a, n, F)
<1> DEFINE Good(m) == \E v \in [0 .. m -> R] :
                         v[0] = a /\ \A i \in 1 .. m : v[i] = F[i][v[i - 1]]
           S == {m \in Nat : m <= n => Good(m)}
<1>1. 0 \in S
  <2>1. [i \in 0 .. 0 |-> a] \in [0 .. 0 -> R] /\ [i \in 0 .. 0 |-> a][0] = a /\ 1 .. 0 = {}
    OBVIOUS
  <2>2. Good(0)
    BY <2>1
  <2>3. QED
    BY <2>2
<1>2. ASSUME NEW m \in Nat, m \in S PROVE m + 1 \in S
  <2> SUFFICES ASSUME m + 1 <= n PROVE Good(m + 1)
    OBVIOUS
  <2>1. PICK v \in [0 .. m -> R] : v[0] = a /\ \A i \in 1 .. m : v[i] = F[i][v[i - 1]]
    BY <1>2
  <2> DEFINE x == [i \in 0 .. m + 1 |-> IF i = m + 1 THEN F[m + 1][v[m]] ELSE v[i]]
  <2>2. x \in [0 .. m + 1 -> R]
    <3>1. m + 1 \in 1 .. n /\ v[m] \in R
      BY <2>1
    <3>2. F[m + 1] \in [R -> R]
      BY <3>1
    <3>3. \A i \in 0 .. m + 1 : i # m + 1 => i \in 0 .. m
      OBVIOUS
    <3>4. QED
      BY <3>1, <3>2, <3>3
  <2>3. x[0] = a
    BY <2>1
  <2>4. ASSUME NEW i \in 1 .. m + 1 PROVE x[i] = F[i][x[i - 1]]
    <3>1. i - 1 \in 0 .. m + 1 /\ i - 1 # m + 1 /\ i \in 0 .. m + 1
      OBVIOUS
    <3>2. x[i - 1] = v[i - 1]
      BY <3>1
    <3>3. CASE i = m + 1
      BY <3>2, <3>3
    <3>4. CASE i # m + 1
      BY <3>1, <3>2, <3>4, <2>1
    <3>5. QED
      BY <3>3, <3>4
  <2> HIDE DEF x
  <2>5. QED
    BY <2>2, <2>3, <2>4
<1>3. n \in S
  <2> HIDE DEF S
  <2>1. QED
    BY <1>1, <1>2, NatSetInduction
<1>4. QED
  BY <1>3 DEF Iterates

(* insert_treadmill returns a ring.                                        *)
LEMMA InsertType ==
  ASSUME NEW r \in RingType, NEW p \in Cells
  PROVE  insert_treadmill(r, p) \in RingType
<1>1. CASE r.colour[p] # r.dark /\ (p = r.top \/ p = r.bottom \/ p # r.free)
  BY <1>1, InsertFields
<1>2. CASE ~(r.colour[p] # r.dark /\ (p = r.top \/ p = r.bottom \/ p # r.free))
  BY <1>2 DEF insert_treadmill
<1>3. QED
  BY <1>1, <1>2

(* insert_all applies insert_treadmill to the cells in turn.               *)
LEMMA InsertAllSteps ==
  ASSUME NEW r \in RingType, NEW ps \in Seq(Cells)
  PROVE  \E v : /\ insert_all(r, ps) = v[Len(ps)] /\ v[0] = r
                /\ \A i \in 1 .. Len(ps) : v[i] = insert_treadmill(v[i - 1], ps[i])
<1> DEFINE n == Len(ps)
           Defines(f) == f = [i \in 0 .. n |-> IF i = 0 THEN r ELSE insert_treadmill(f[i - 1], ps[i])]
           F == [i \in 1 .. n |-> [x \in RingType |-> insert_treadmill(x, ps[i])]]
<1>1. n \in Nat /\ \A i \in 1 .. n : ps[i] \in Cells
  OBVIOUS
<1>2. F \in [1 .. n -> [RingType -> RingType]]
  BY <1>1, InsertType
<1>3. PICK v \in [0 .. n -> RingType] : v[0] = r /\ \A i \in 1 .. n : v[i] = F[i][v[i - 1]]
  <2> HIDE DEF F, n
  <2>1. \E v : Iterates(v, RingType, r, n, F)
    BY <1>1, <1>2, Iteration
  <2>2. QED
    BY <2>1 DEF Iterates
<1>4. \A i \in 0 .. n : v[i] = IF i = 0 THEN r ELSE insert_treadmill(v[i - 1], ps[i])
  <2> SUFFICES ASSUME NEW i \in 0 .. n, i # 0
               PROVE  v[i] = insert_treadmill(v[i - 1], ps[i])
    BY <1>3
  <2>1. i \in 1 .. n /\ i - 1 \in 0 .. n
    BY <1>1
  <2>2. F[i] = [x \in RingType |-> insert_treadmill(x, ps[i])] /\ v[i - 1] \in RingType
    BY <2>1, <1>3
  <2>3. QED
    BY <2>1, <2>2, <1>3
<1>5. Defines(v)
  <2>1. v = [i \in 0 .. n |-> v[i]]
    BY <1>3
  <2>2. QED
    BY <2>1, <1>4
<1> DEFINE f == CHOOSE h : h = [i \in 0 .. n |-> IF i = 0 THEN r ELSE insert_treadmill(h[i - 1], ps[i])]
<1>6. Defines(f)
  BY <1>5
<1>7. insert_all(r, ps) = f[n]
  BY DEF insert_all
<1> HIDE DEF f
<1>8. f[0] = r /\ \A i \in 1 .. n : f[i] = insert_treadmill(f[i - 1], ps[i])
  BY <1>1, <1>6
<1>9. QED
  BY <1>7, <1>8

(* The lists after the ecru cells of P have been moved to the grey one.    *)
Greyed(lc, P) == [c \in Cells |-> IF c \in P /\ lc[c] = Ecru THEN Grey ELSE lc[c]]

(* The cells of a sequence.                                                *)
Elements(ps) == {ps[i] : i \in 1 .. Len(ps)}

(* s is r with its ecru cells in P, k of them, moved to the grey list;     *)
(* scan stays when it was on a grey cell.                                  *)
ShadesRing(s, r, B, n, w, e, g, P) ==
    /\ \E x, k : k \in 0 .. e /\ Ring(s, B, n, x, w, e - k, g + k)
    /\ s.lc = Greyed(r.lc, P)
    /\ s.dark = r.dark
    /\ g >= 1 => s.scan = r.scan

(* Shading several cells keeps the treadmill well formed, as long as none  *)
(* is white and some ecru cell is not among them.                          *)
LEMMA InsertAllMoves ==
  ASSUME NEW B \in SUBSET Cells, NEW r, NEW n, NEW q, NEW w, NEW e, NEW g,
         Ring(r, B, n, q, w, e, g),
         NEW ps \in Seq(B), \A i \in 1 .. Len(ps) : r.lc[ps[i]] # White,
         \E d \in B : r.lc[d] = Ecru /\ \A i \in 1 .. Len(ps) : ps[i] # d
  PROVE  ShadesRing(insert_all(r, ps), r, B, n, w, e, g, Elements(ps))
<1> DEFINE len == Len(ps)
           Upto(i) == {ps[j] : j \in 1 .. i}
           Good(s, i) == /\ \E x, k : k \in 0 .. e /\ Ring(s, B, n, x, w, e - k, g + k)
                         /\ s.lc = Greyed(r.lc, Upto(i))
                         /\ s.dark = r.dark
                         /\ g >= 1 => s.scan = r.scan
<1>1. /\ len \in Nat /\ ps \in Seq(Cells) /\ \A i \in 1 .. len : ps[i] \in B /\ ps[i] \in Cells
      /\ r \in RingType /\ r.lc \in [Cells -> 0 .. 3]
      /\ n \in Nat /\ w \in Nat /\ e \in Nat /\ g \in Nat
  BY DEF Ring, RingType, Parts, Chain
<1>2. PICK v : /\ insert_all(r, ps) = v[len] /\ v[0] = r
               /\ \A i \in 1 .. len : v[i] = insert_treadmill(v[i - 1], ps[i])
  BY <1>1, InsertAllSteps
<1>3. PICK d \in B : r.lc[d] = Ecru /\ \A i \in 1 .. len : ps[i] # d
  OBVIOUS
<1>4. Good(v[0], 0)
  <2>1. Upto(0) = {}
    OBVIOUS
  <2>2. Greyed(r.lc, {}) = r.lc
    BY <1>1 DEF Greyed
  <2>3. Ring(v[0], B, n, q, w, e - 0, g + 0) /\ 0 \in 0 .. e
    BY <1>1, <1>2
  <2>4. QED
    BY <1>2, <2>1, <2>2, <2>3
<1>5. ASSUME NEW i \in 1 .. len, Good(v[i - 1], i - 1) PROVE Good(v[i], i)
  <2> DEFINE s == v[i - 1]
             p == ps[i]
  <2>1. v[i] = insert_treadmill(s, p) /\ p \in B /\ p \in Cells /\ d \in Cells /\ i - 1 \in Nat
    BY <1>1, <1>2
  <2>2. PICK x, k : k \in 0 .. e /\ Ring(s, B, n, x, w, e - k, g + k)
    BY <1>5
  <2>3. s.lc = Greyed(r.lc, Upto(i - 1)) /\ s.dark = r.dark /\ (g >= 1 => s.scan = r.scan)
    BY <1>5
  <2>4. Upto(i) = Upto(i - 1) \cup {p}
    BY <1>1
  <2>5. d \notin Upto(i - 1) /\ d # p
    BY <1>3, <1>1
  <2> HIDE DEF s, Upto
  <2>6. s.lc[d] = Ecru
    BY <2>1, <2>3, <2>5, <1>3 DEF Greyed
  <2>7. s.lc[p] # White /\ r.lc[p] # White
    BY <2>1, <2>3 DEF Greyed, Grey, White, p
  <2>8. CASE s.lc[p] = Ecru
    <3>1. e - k >= 2
      <4>1. PICK a \in 1 .. n : x[a] = d
        BY <2>2 DEF Ring, Chain
      <4>2. PICK b \in 1 .. n : x[b] = p
        BY <2>1, <2>2 DEF Ring, Chain
      <4>3. a # b
        BY <4>1, <4>2, <2>5
      <4>4. ColourAt(a, w, e - k, g + k) = Ecru /\ ColourAt(b, w, e - k, g + k) = Ecru
        BY <4>1, <4>2, <2>2, <2>6, <2>8 DEF Ring, Parts
      <4>5. e - k \in Nat /\ g + k \in Nat
        BY <2>2 DEF Ring, Parts
      <4>6. QED
        BY <4>3, <4>4, <4>5, <1>1 DEF ColourAt, White, Ecru, Grey, Black
    <3> DEFINE e1 == e - k
               g1 == g + k
    <3>2. k \in Nat /\ k + 1 \in 0 .. e /\ e1 - 1 = e - (k + 1) /\ g1 + 1 = g + (k + 1)
          /\ (g >= 1 => g1 >= 1) /\ e1 >= 2
      <4>1. k \in 0 .. e
        BY <2>2
      <4>2. QED
        BY <4>1, <3>1, <1>1
    <3> HIDE DEF e1, g1
    <3>3. /\ \E y : Ring(v[i], B, n, y, w, e1 - 1, g1 + 1)
          /\ v[i].lc = [s.lc EXCEPT ![p] = Grey] /\ v[i].dark = s.dark
          /\ g1 >= 1 => v[i].scan = s.scan
      <4>1. Ring(s, B, n, x, w, e1, g1)
        BY <2>2 DEF e1, g1
      <4>2. p \in B /\ s.lc[p] = Ecru /\ e1 >= 2
        BY <2>1, <2>8, <3>2
      <4> HIDE DEF p
      <4>3. Moved(insert_treadmill(s, p), s, B, n, w, e1, g1, p)
        BY <4>1, <4>2, InsertMoves
      <4>4. QED
        BY <4>3, <2>1 DEF Moved
    <3>4. \E y, l : l \in 0 .. e /\ Ring(v[i], B, n, y, w, e - l, g + l)
      BY <3>2, <3>3
    <3>5. v[i].lc = Greyed(r.lc, Upto(i))
      BY <3>3, <2>1, <2>3, <2>4, <2>8, <1>1 DEF Greyed, Ecru, Grey
    <3>6. QED
      BY <3>2, <3>3, <3>4, <3>5, <2>3
  <2>9. CASE s.lc[p] # Ecru
    <3>1. s.lc[p] \in {Grey, Black}
      BY <2>1, <2>2, <2>7, <2>9 DEF Ring, RingType, White, Grey, Black, Ecru
    <3>2. s.colour[p] = s.dark
      BY <3>1, <2>1, <2>2 DEF Ring, Coloured
    <3>3. v[i] = s
      BY <3>2, <2>1 DEF insert_treadmill
    <3>4. s.lc = Greyed(r.lc, Upto(i))
      BY <2>1, <2>3, <2>4, <2>9, <1>1 DEF Greyed, Ecru, Grey
    <3>5. QED
      BY <3>3, <3>4, <2>2, <2>3
  <2>10. QED
    BY <2>8, <2>9
<1> HIDE DEF Good
<1>6. Good(v[len], len)
  <2> DEFINE S == {m \in Nat : m <= len => Good(v[m], m)}
  <2>1. 0 \in S
    BY <1>4
  <2>2. ASSUME NEW m \in Nat, m \in S PROVE m + 1 \in S
    <3>1. m + 1 <= len => m + 1 \in 1 .. len /\ m + 1 - 1 = m
      BY <1>1
    <3>2. QED
      BY <3>1, <2>2, <1>5
  <2> HIDE DEF S
  <2>3. len \in S
    BY <2>1, <2>2, <1>1, NatSetInduction
  <2>4. QED
    BY <2>3, <1>1 DEF S
<1>7. QED
  BY <1>6, <1>2 DEF Good, ShadesRing, Elements

-----------------------------------------------------------------------------
(* Walks along the ring. *)

(* A treadmill has no more cells than there is memory for.                 *)
LEMMA RingFits ==
  ASSUME NEW B \in SUBSET Cells, NEW r, NEW n, NEW q, Chain(r, B, n, q)
  PROVE  MaxCells \in Nat /\ n <= MaxCells /\ IsFiniteSet(B)
<1>1. IsFiniteSet(Cells) /\ IsFiniteSet(B) /\ Cardinality(B) <= MaxCells
  BY TreadmillAssumption, FS_Subset DEF MaxCells
<1>2. MaxCells \in Nat
  BY <1>1, FS_CardinalityType DEF MaxCells
<1>3. q \in Injection(1 .. n, B) /\ n \in Nat
  BY DEF Chain, Injection, IsInjective
<1>4. Cardinality(1 .. n) <= Cardinality(B)
  BY <1>1, <1>3, FS_Injection
<1>5. Cardinality(1 .. n) = n
  BY <1>3, FS_Interval
<1>6. Cardinality(B) \in Nat
  BY <1>1, FS_CardinalityType
<1>7. QED
  BY <1>1, <1>2, <1>3, <1>4, <1>5, <1>6

(* The cells at the positions x to y.                                      *)
Segment(q, x, y) == {q[i] : i \in x .. y}

(* The walk of Arc from one position to another finds the cells between    *)
(* them.                                                                   *)
LEMMA ArcCells ==
  ASSUME NEW B \in SUBSET Cells, NEW r \in RingType, NEW n, NEW q, Chain(r, B, n, q),
         NEW x \in 1 .. n, NEW y \in x - 1 .. n, ~(x = 1 /\ y = n)
  PROVE  Arc(r, q[x], q[After(y, n)]) = Segment(q, x, y)
<1> DEFINE z == y + 1
           a == q[x]
           b == q[After(y, n)]
           Defines(f) == f = [i \in 0 .. MaxCells |-> IF i = 0 THEN a ELSE r.cw[f[i - 1]]]
           F == [i \in 1 .. MaxCells |-> r.cw]
<1>1. /\ MaxCells \in Nat /\ n <= MaxCells /\ n \in Nat /\ q \in [1 .. n -> B] /\ n >= 1
      /\ z \in x .. n + 1 /\ ~(x = 1 /\ z = n + 1) /\ z - 1 = y
      /\ a \in Cells /\ r.cw \in [Cells -> Cells]
  <2>1. MaxCells \in Nat /\ n <= MaxCells
    BY RingFits
  <2>2. QED
    BY <2>1 DEF Chain, RingType
<1>2. PICK v : Iterates(v, Cells, a, MaxCells, F)
  <2>1. F \in [1 .. MaxCells -> [Cells -> Cells]]
    BY <1>1
  <2> HIDE DEF F, a
  <2>2. QED
    BY <2>1, <1>1, Iteration
<1>3. Defines(v)
  <2>1. \A i \in 0 .. MaxCells : v[i] = IF i = 0 THEN a ELSE r.cw[v[i - 1]]
    BY <1>1, <1>2 DEF Iterates
  <2>2. v = [i \in 0 .. MaxCells |-> v[i]]
    BY <1>2 DEF Iterates
  <2>3. QED
    BY <2>1, <2>2
<1> DEFINE walk == CHOOSE f : f = [i \in 0 .. MaxCells |-> IF i = 0 THEN a ELSE r.cw[f[i - 1]]]
           seen == {j \in 0 .. MaxCells - 1 : \A k \in 0 .. j : walk[k] # b}
<1>4. Defines(walk)
  BY <1>3
<1>5. Arc(r, a, b) = {walk[i] : i \in seen}
  BY DEF Arc
<1> HIDE DEF walk
<1>6. walk[0] = a /\ \A i \in 1 .. MaxCells : walk[i] = r.cw[walk[i - 1]]
  BY <1>1, <1>4
<1>0. b = q[IF z = n + 1 THEN 1 ELSE z]
  BY <1>1 DEF After
<1> HIDE DEF a, b, z
<1>7. ASSUME NEW i \in 0 .. n - x PROVE walk[i] = q[x + i]
  <2> DEFINE S == {m \in Nat : m <= n - x => walk[m] = q[x + m]}
  <2>1. 0 \in S
    BY <1>6 DEF a
  <2>2. ASSUME NEW m \in Nat, m \in S PROVE m + 1 \in S
    <3> SUFFICES ASSUME m + 1 <= n - x PROVE walk[m + 1] = q[x + (m + 1)]
      OBVIOUS
    <3>1. /\ walk[m] = q[x + m] /\ x + m \in 1 .. n /\ After(x + m, n) = x + (m + 1)
          /\ m + 1 \in 1 .. MaxCells /\ m + 1 - 1 = m
      <4>1. walk[m] = q[x + m]
        BY <2>2, <1>1
      <4>2. x + m \in 1 .. n /\ x + m # n /\ x + m + 1 = x + (m + 1) /\ m + 1 \in 1 .. MaxCells
        BY <1>1
      <4>3. QED
        BY <4>1, <4>2 DEF After
    <3>2. r.cw[q[x + m]] = q[x + (m + 1)]
      BY <3>1 DEF Chain
    <3>3. QED
      BY <3>1, <3>2, <1>6
  <2> HIDE DEF S
  <2>3. i \in S /\ i \in Nat /\ i <= n - x
    <3>1. i \in Nat
      OBVIOUS
    <3>2. QED
      BY <3>1, <2>1, <2>2, NatSetInduction
  <2>4. QED
    BY <2>3 DEF S
<1>8. walk[z - x] = b
  <2>1. CASE z # n + 1
    <3>1. z - x \in 0 .. n - x /\ x + (z - x) = z
      BY <2>1, <1>1
    <3>2. QED
      BY <3>1, <2>1, <1>0, <1>7
  <2>2. CASE z = n + 1
    <3>1. /\ n - x \in 0 .. n - x /\ x + (n - x) = n /\ n - x + 1 \in 1 .. MaxCells
          /\ n - x + 1 - 1 = n - x /\ n \in 1 .. n /\ z - x = n - x + 1
      BY <2>2, <1>1
    <3>2. walk[n - x] = q[n]
      BY <3>1, <1>7
    <3>3. r.cw[q[n]] = q[1]
      BY <3>1 DEF Chain, After
    <3>4. QED
      BY <3>1, <3>2, <3>3, <2>2, <1>0, <1>6
  <2>3. QED
    BY <2>1, <2>2
<1>9. ASSUME NEW k \in 0 .. z - x - 1 PROVE walk[k] = q[x + k] /\ q[x + k] # b
  <2>1. k \in 0 .. n - x /\ x + k \in 1 .. n /\ 1 \in 1 .. n
    BY <1>1
  <2>2. walk[k] = q[x + k]
    BY <2>1, <1>7
  <2>3. (IF z = n + 1 THEN 1 ELSE z) # x + k /\ (IF z = n + 1 THEN 1 ELSE z) \in 1 .. n
    BY <1>1
  <2>4. QED
    BY <2>1, <2>2, <2>3, <1>0 DEF Chain
<1>10. seen = 0 .. z - x - 1
  <2>1. ASSUME NEW j \in seen PROVE j \in 0 .. z - x - 1
    <3>1. z - x \in Nat
      BY <1>1
    <3>2. QED
      BY <3>1, <1>8
  <2>2. ASSUME NEW j \in 0 .. z - x - 1 PROVE j \in seen
    <3>1. j \in 0 .. MaxCells - 1
      BY <1>1
    <3>2. \A k \in 0 .. j : k \in 0 .. z - x - 1
      BY <1>1
    <3>3. QED
      BY <3>1, <3>2, <1>9
  <2> HIDE DEF seen
  <2>3. QED
    BY <2>1, <2>2
<1>11. {walk[i] : i \in 0 .. z - x - 1} = {q[i] : i \in x .. z - 1}
  <2>1. ASSUME NEW i \in 0 .. z - x - 1 PROVE walk[i] \in {q[j] : j \in x .. z - 1}
    <3>1. x + i \in x .. z - 1
      BY <1>1
    <3>2. QED
      BY <3>1, <1>9
  <2>2. ASSUME NEW j \in x .. z - 1 PROVE q[j] \in {walk[i] : i \in 0 .. z - x - 1}
    <3>1. j - x \in 0 .. z - x - 1 /\ x + (j - x) = j
      BY <1>1
    <3>2. QED
      BY <3>1, <1>9
  <2>3. QED
    BY <2>1, <2>2
<1>12. QED
  BY <1>1, <1>5, <1>10, <1>11 DEF a, b, Segment

(* The lists by colour are segments of the cycle.                          *)
Lists(r, B, n, q, w, e, g) ==
    /\ {c \in B : r.lc[c] = White} = Segment(q, 1, w)
    /\ {c \in B : r.lc[c] = Ecru} = Segment(q, w + 1, w + e)
    /\ {c \in B : r.lc[c] = Grey} = Segment(q, w + e + 1, w + e + g)
    /\ {c \in B : r.lc[c] = Black} = Segment(q, w + e + g + 1, n)

(* In a well-formed treadmill they are.                                    *)
LEMMA RingListed ==
  ASSUME NEW B \in SUBSET Cells, NEW r, NEW n, NEW q, NEW w, NEW e, NEW g,
         Ring(r, B, n, q, w, e, g)
  PROVE  Lists(r, B, n, q, w, e, g)
<1>1. /\ n \in Nat /\ w \in Nat /\ e \in Nat /\ g \in Nat /\ w + e + g <= n
      /\ \A i \in 1 .. n : q[i] \in B /\ r.lc[q[i]] = ColourAt(i, w, e, g)
      /\ \A c \in B : \E i \in 1 .. n : q[i] = c
  BY DEF Ring, Chain, Parts
<1>2. QED
  BY <1>1 DEF Lists, Segment, ColourAt, White, Ecru, Grey, Black

(* A well-formed treadmill passes the checks of treadmill_flip.            *)
LEMMA RingImpliesIntact ==
  ASSUME born \in SUBSET Cells, NEW n, NEW q, NEW w, NEW e, NEW g,
         Ring(ring, born, n, q, w, e, g)
  PROVE  RingIntact /\ ColoursMatch
<1>1. /\ n \in Nat /\ w \in Nat /\ e \in Nat /\ g \in Nat
      /\ e >= 1 /\ e < n /\ w + e + g <= n
      /\ ring \in RingType /\ Chain(ring, born, n, q)
      /\ ring.free = q[1] /\ ring.bottom = q[w + 1]
      /\ ring.top = q[w + e] /\ ring.scan = q[w + e + g]
  BY DEF Ring, Parts, Chain
<1>2. \A c \in born : ring.ccw[ring.cw[c]] = c /\ ring.cw[ring.ccw[c]] = c
  <2>1. ASSUME NEW c \in born PROVE ring.ccw[ring.cw[c]] = c /\ ring.cw[ring.ccw[c]] = c
    <3>1. PICK i \in 1 .. n : q[i] = c
      BY <1>1 DEF Chain
    <3>2. PICK j \in 1 .. n : After(j, n) = i
      <4>1. (IF i = 1 THEN n ELSE i - 1) \in 1 .. n /\ After(IF i = 1 THEN n ELSE i - 1, n) = i
        BY <1>1 DEF After
      <4>2. QED
        BY <4>1
    <3>3. QED
      BY <3>1, <3>2, <1>1 DEF Chain
  <2>2. QED
    BY <2>1
<1> DEFINE t == w + e
           s == w + e + g
           t1 == t + 1
           s1 == s + 1
           w1 == w + 1
<1>3. /\ 1 \in 1 .. n /\ w \in 0 .. n /\ w # n /\ After(w, n) = w1 /\ After(0, n) = 1 /\ 0 \in 0 .. n
      /\ w1 \in 1 .. n /\ t \in w1 - 1 .. n /\ ~(w1 = 1 /\ t = n)
      /\ t # n => After(t, n) = t1 /\ t1 \in 1 .. n /\ s \in t1 - 1 .. n /\ t1 # 1
      /\ s # n => After(s, n) = s1 /\ s1 \in 1 .. n /\ n \in s1 - 1 .. n /\ s1 # 1
      /\ After(n, n) = 1 /\ t \in 1 .. n /\ s \in 1 .. n
      /\ t = n => s = n
      /\ t1 > n <=> t = n
      /\ s1 > n <=> s = n
      /\ ring.bottom = q[w1] /\ ring.top = q[t] /\ ring.scan = q[s]
      /\ n # 0
  BY <1>1 DEF After
<1>4. /\ {c \in born : ring.lc[c] = White} = Segment(q, 1, w)
      /\ {c \in born : ring.lc[c] = Ecru} = Segment(q, w1, t)
      /\ {c \in born : ring.lc[c] = Grey} = Segment(q, t1, s)
      /\ {c \in born : ring.lc[c] = Black} = Segment(q, s1, n)
  <2>1. Lists(ring, born, n, q, w, e, g)
    BY RingListed
  <2>2. QED
    BY <2>1 DEF Lists
<1> HIDE DEF t, s, t1, s1, w1
<1>5. ring.cw[ring.top] = q[After(t, n)] /\ ring.cw[ring.scan] = q[After(s, n)]
  BY <1>1, <1>3 DEF Chain
<1>6. ASSUME NEW x \in 1 .. n, NEW y \in x - 1 .. n, ~(x = 1 /\ y = n)
      PROVE  Arc(ring, q[x], q[After(y, n)]) = Segment(q, x, y)
  BY <1>1, <1>6, ArcCells
<1>7. Segment(q, 1, 0) = {} /\ (t = n => Segment(q, t1, s) = {}) /\ (s = n => Segment(q, s1, n) = {})
  <2>1. 1 .. 0 = {} /\ (t = n => t1 .. s = {}) /\ (s = n => s1 .. n = {})
    BY <1>1 DEF t, s, t1, s1
  <2>2. QED
    BY <2>1 DEF Segment
<1>8. Arc(ring, ring.free, ring.bottom) = Segment(q, 1, w)
  <2>1. Arc(ring, q[1], q[After(w, n)]) = Segment(q, 1, w)
    BY <1>3, <1>6
  <2>2. QED
    BY <2>1, <1>1, <1>3
<1>9. Arc(ring, ring.bottom, ring.cw[ring.top]) = Segment(q, w1, t)
  BY <1>1, <1>3, <1>5, <1>6
<1>10. Arc(ring, q[1], q[1]) = {}
  <2>1. Arc(ring, q[1], q[After(0, n)]) = Segment(q, 1, 0)
    BY <1>1, <1>3, <1>6
  <2>2. QED
    BY <2>1, <1>3, <1>7
<1>11. Arc(ring, ring.cw[ring.top], ring.cw[ring.scan]) = Segment(q, t1, s)
  <2>1. CASE t = n
    BY <2>1, <1>3, <1>5, <1>7, <1>10
  <2>2. CASE t # n
    <3>1. Arc(ring, q[t1], q[After(s, n)]) = Segment(q, t1, s)
      BY <2>2, <1>3, <1>6
    <3>2. QED
      BY <3>1, <2>2, <1>3, <1>5
  <2>3. QED
    BY <2>1, <2>2
<1>12. Arc(ring, ring.cw[ring.scan], ring.free) = Segment(q, s1, n)
  <2>1. CASE s = n
    BY <2>1, <1>1, <1>3, <1>5, <1>7, <1>10
  <2>2. CASE s # n
    <3>1. Arc(ring, q[s1], q[After(n, n)]) = Segment(q, s1, n)
      BY <2>2, <1>3, <1>6
    <3>2. QED
      BY <3>1, <2>2, <1>1, <1>3, <1>5
  <2>3. QED
    BY <2>1, <2>2
<1>13. ColoursMatch
  BY DEF Ring, Coloured, ColoursMatch
<1>14. QED
  BY <1>2, <1>4, <1>8, <1>9, <1>11, <1>12, <1>13 DEF RingIntact, Whites, Ecrus, Greys, Blacks

-----------------------------------------------------------------------------
(* The other operations on the ring. *)

(* s is r without its first white cell.                                    *)
Taken(s, r, B, n, w, e, g) ==
    /\ \E x : Ring(s, B, n, x, w - 1, e, g)
    /\ r.free \in B /\ r.lc[r.free] = White
    /\ s.lc = [r.lc EXCEPT ![r.free] = Black]

(* get_cell keeps the treadmill well formed: free steps over the cell,     *)
(* which is then the last of the black ones.                               *)
LEMMA TakeRing ==
  ASSUME NEW B \in SUBSET Cells, NEW r, NEW n, NEW q, NEW w, NEW e, NEW g,
         Ring(r, B, n, q, w, e, g), w >= 1,
         NEW s, s = [r EXCEPT !.free = r.cw[r.free], !.colour[r.free] = r.dark,
                              !.lc[r.free] = Black]
  PROVE  Taken(s, r, B, n, w, e, g)
<1>1. /\ r \in RingType /\ n \in Nat /\ q \in [1 .. n -> B]
      /\ w \in Nat /\ e \in Nat /\ g \in Nat /\ e >= 1 /\ e < n /\ w + e + g <= n
      /\ r.free = q[1] /\ r.bottom = q[w + 1] /\ r.top = q[w + e] /\ r.scan = q[w + e + g]
      /\ \A i \in 1 .. n : r.lc[q[i]] = ColourAt(i, w, e, g)
  BY DEF Ring, Chain, Parts
<1>2. /\ \A c \in B : \E i \in 1 .. n : q[i] = c
      /\ \A i, j \in 1 .. n : q[i] = q[j] => i = j
      /\ \A i \in 1 .. n : r.cw[q[i]] = q[After(i, n)] /\ r.ccw[q[After(i, n)]] = q[i]
      /\ \A i \in 1 .. n : q[i] \in Cells /\ After(i, n) \in 1 .. n
      /\ 1 \in 1 .. n
  BY <1>1 DEF Ring, Chain, After
<1>3. /\ r.cw \in [Cells -> Cells] /\ r.ccw \in [Cells -> Cells] /\ r.dark \in BOOLEAN
      /\ r.colour \in [Cells -> BOOLEAN] /\ r.lc \in [Cells -> 0 .. 3]
      /\ r.free \in Cells
  BY <1>1 DEF RingType
<1>4. /\ s \in RingType /\ s.cw = r.cw /\ s.ccw = r.ccw /\ s.dark = r.dark
      /\ s.free = r.cw[r.free] /\ s.bottom = r.bottom /\ s.top = r.top /\ s.scan = r.scan
      /\ s.colour = [r.colour EXCEPT ![r.free] = r.dark]
      /\ s.lc = [r.lc EXCEPT ![r.free] = Black]
  <2> DEFINE free2 == r.cw[r.free]
             colour2 == [r.colour EXCEPT ![r.free] = r.dark]
             lc2 == [r.lc EXCEPT ![r.free] = Black]
  <2>1. s = [r EXCEPT !.free = free2, !.colour = colour2, !.lc = lc2]
    OBVIOUS
  <2>2. free2 \in Cells /\ colour2 \in [Cells -> BOOLEAN] /\ lc2 \in [Cells -> 0 .. 3]
    BY <1>3 DEF Black
  <2> HIDE DEF free2, colour2, lc2
  <2>3. /\ s \in RingType /\ s.cw = r.cw /\ s.ccw = r.ccw /\ s.dark = r.dark
        /\ s.free = free2 /\ s.bottom = r.bottom /\ s.top = r.top /\ s.scan = r.scan
        /\ s.colour = colour2 /\ s.lc = lc2
    BY <2>1, <2>2, <1>1 DEF RingType
  <2>4. QED
    BY <2>3 DEF free2, colour2, lc2
<1> DEFINE x == [i \in 1 .. n |-> q[After(i, n)]]
<1>5. x \in [1 .. n -> B] /\ \A i \in 1 .. n : x[i] = q[After(i, n)]
  BY <1>1, <1>2
<1> HIDE DEF x
<1>6. \A c \in B : \E i \in 1 .. n : x[i] = c
  <2>1. ASSUME NEW c \in B PROVE \E i \in 1 .. n : x[i] = c
    <3>1. PICK i \in 1 .. n : q[i] = c
      BY <1>2
    <3> DEFINE j == IF i = 1 THEN n ELSE i - 1
    <3>2. j \in 1 .. n /\ After(j, n) = i
      BY <1>1 DEF After
    <3>3. QED
      BY <3>1, <3>2, <1>5
  <2>2. QED
    BY <2>1
<1>7. \A i, j \in 1 .. n : x[i] = x[j] => i = j
  <2>1. \A i, j \in 1 .. n : After(i, n) = After(j, n) => i = j
    BY <1>1 DEF After
  <2>2. ASSUME NEW i \in 1 .. n, NEW j \in 1 .. n, x[i] = x[j] PROVE i = j
    <3>1. q[After(i, n)] = q[After(j, n)] /\ After(i, n) \in 1 .. n /\ After(j, n) \in 1 .. n
      BY <2>2, <1>2, <1>5
    <3>2. After(i, n) = After(j, n)
      BY <3>1, <1>2
    <3>3. QED
      BY <3>2, <2>1
  <2>3. QED
    BY <2>2
<1>8. Chain(s, B, n, x)
  <2>1. ASSUME NEW i \in 1 .. n
        PROVE  s.cw[x[i]] = x[After(i, n)] /\ s.ccw[x[After(i, n)]] = x[i]
    <3> DEFINE j == After(i, n)
    <3>1. j \in 1 .. n /\ x[i] = q[j] /\ x[j] = q[After(j, n)]
      BY <1>2, <1>5
    <3> HIDE DEF j
    <3>2. s.cw[x[i]] = x[j] /\ s.ccw[x[j]] = x[i]
      BY <3>1, <1>2, <1>4
    <3>3. QED
      BY <3>2 DEF j
  <2>2. QED
    BY <2>1, <1>1, <1>5, <1>6, <1>7 DEF Chain
<1>9. ASSUME NEW i \in 1 .. n PROVE s.lc[x[i]] = ColourAt(i, w - 1, e, g)
  <2>1. CASE i = n
    <3>1. x[i] = r.free /\ r.free \in Cells
      BY <2>1, <1>1, <1>2, <1>5 DEF After
    <3>2. s.lc[x[i]] = Black
      BY <3>1, <1>3, <1>4
    <3>3. w - 1 + e + g < n
      BY <1>1
    <3>4. QED
      BY <3>2, <3>3, <2>1, <1>1 DEF ColourAt
  <2>2. CASE i # n
    <3> DEFINE k == i + 1
    <3>0. k \in 1 .. n /\ After(i, n) = k /\ k # 1
      BY <2>2, <1>1 DEF After
    <3>1. x[i] = q[k] /\ q[k] # r.free /\ q[k] \in Cells
      <4> HIDE DEF k
      <4>1. x[i] = q[k] /\ q[k] \in Cells
        BY <3>0, <1>2, <1>5
      <4>2. q[k] # q[1]
        BY <3>0, <1>2
      <4>3. QED
        BY <4>1, <4>2, <1>1
    <3>2. s.lc[x[i]] = ColourAt(k, w, e, g)
      <4> HIDE DEF k
      <4>1. s.lc[q[k]] = r.lc[q[k]]
        BY <3>1, <1>3, <1>4
      <4>2. QED
        BY <3>0, <3>1, <4>1, <1>1
    <3>3. QED
      BY <3>2, <1>1 DEF ColourAt
  <2>3. QED
    BY <2>1, <2>2
<1>10. /\ s.free = x[1] /\ s.bottom = x[w - 1 + 1] /\ s.top = x[w - 1 + e]
       /\ s.scan = x[w - 1 + e + g]
  <2> DEFINE w0 == w - 1 + 1
             t0 == w - 1 + e
             s0 == w - 1 + e + g
  <2>1. /\ w0 \in 1 .. n /\ After(w0, n) = w + 1
        /\ t0 \in 1 .. n /\ After(t0, n) = w + e
        /\ s0 \in 1 .. n /\ After(s0, n) = w + e + g
    BY <1>1 DEF After
  <2> HIDE DEF w0, t0, s0
  <2>2. s.free = x[1] /\ s.bottom = x[w0] /\ s.top = x[t0] /\ s.scan = x[s0]
    <3>1. x[1] = q[After(1, n)] /\ x[w0] = q[w + 1] /\ x[t0] = q[w + e] /\ x[s0] = q[w + e + g]
      BY <2>1, <1>2, <1>5
    <3>2. r.cw[r.free] = q[After(1, n)]
      BY <1>1, <1>2
    <3>3. QED
      BY <3>1, <3>2, <1>1, <1>4
  <2>3. QED
    BY <2>2 DEF w0, t0, s0
<1>11. Parts(s, n, x, w - 1, e, g)
  BY <1>1, <1>9, <1>10 DEF Parts
<1>12. r.free \in B /\ r.lc[r.free] = White
  BY <1>1, <1>2 DEF ColourAt
<1>13. Coloured(s, B)
  BY <1>3, <1>4, <1>12 DEF Ring, Coloured, Ecru, Grey, Black
<1>14. QED
  BY <1>4, <1>8, <1>11, <1>12, <1>13 DEF Ring, Taken

(* s is r with its last grey cell black.                                   *)
Scanned(s, r, B, n, q, w, e, g) ==
    /\ Ring(s, B, n, q, w, e, g - 1)
    /\ r.scan \in B /\ r.lc[r.scan] = Grey
    /\ s.lc = [r.lc EXCEPT ![r.scan] = Black] /\ s.dark = r.dark

(* A step of the scanner's pointer keeps the treadmill well formed.        *)
LEMMA ScanRing ==
  ASSUME NEW B \in SUBSET Cells, NEW r, NEW n, NEW q, NEW w, NEW e, NEW g,
         Ring(r, B, n, q, w, e, g), g >= 1,
         NEW s, s = [r EXCEPT !.scan = r.ccw[r.scan], !.lc[r.scan] = Black]
  PROVE  Scanned(s, r, B, n, q, w, e, g)
<1>1. /\ r \in RingType /\ n \in Nat /\ q \in [1 .. n -> B]
      /\ w \in Nat /\ e \in Nat /\ g \in Nat /\ e >= 1 /\ e < n /\ w + e + g <= n
      /\ r.free = q[1] /\ r.bottom = q[w + 1] /\ r.top = q[w + e] /\ r.scan = q[w + e + g]
      /\ \A i \in 1 .. n : r.lc[q[i]] = ColourAt(i, w, e, g)
  BY DEF Ring, Chain, Parts
<1>2. /\ \A i, j \in 1 .. n : q[i] = q[j] => i = j
      /\ \A i \in 1 .. n : q[i] \in Cells /\ q[i] \in B
      /\ w + e + g \in 1 .. n
  BY <1>1 DEF Ring, Chain
<1>3. r.ccw[r.scan] = q[w + e + g - 1]
  <2>1. w + e + g - 1 \in 1 .. n /\ After(w + e + g - 1, n) = w + e + g
    BY <1>1 DEF After
  <2>2. QED
    BY <2>1, <1>1 DEF Ring, Chain
<1>4. /\ r.cw \in [Cells -> Cells] /\ r.ccw \in [Cells -> Cells] /\ r.dark \in BOOLEAN
      /\ r.colour \in [Cells -> BOOLEAN] /\ r.lc \in [Cells -> 0 .. 3]
      /\ r.scan \in Cells
  BY <1>1 DEF RingType
<1>5. /\ s \in RingType /\ s.cw = r.cw /\ s.ccw = r.ccw /\ s.dark = r.dark
      /\ s.free = r.free /\ s.bottom = r.bottom /\ s.top = r.top /\ s.scan = r.ccw[r.scan]
      /\ s.colour = r.colour
      /\ s.lc = [r.lc EXCEPT ![r.scan] = Black]
  <2> DEFINE scan2 == r.ccw[r.scan]
             lc2 == [r.lc EXCEPT ![r.scan] = Black]
  <2>1. s = [r EXCEPT !.scan = scan2, !.lc = lc2]
    OBVIOUS
  <2>2. scan2 \in Cells /\ lc2 \in [Cells -> 0 .. 3]
    BY <1>4 DEF Black
  <2> HIDE DEF scan2, lc2
  <2>3. /\ s \in RingType /\ s.cw = r.cw /\ s.ccw = r.ccw /\ s.dark = r.dark
        /\ s.free = r.free /\ s.bottom = r.bottom /\ s.top = r.top /\ s.scan = scan2
        /\ s.colour = r.colour /\ s.lc = lc2
    BY <2>1, <2>2, <1>1 DEF RingType
  <2>4. QED
    BY <2>3 DEF scan2, lc2
<1>6. Chain(s, B, n, q)
  BY <1>5 DEF Ring, Chain
<1>7. ASSUME NEW i \in 1 .. n PROVE s.lc[q[i]] = ColourAt(i, w, e, g - 1)
  <2>1. CASE i = w + e + g
    BY <2>1, <1>1, <1>2, <1>4, <1>5 DEF ColourAt
  <2>2. CASE i # w + e + g
    <3>1. s.lc[q[i]] = ColourAt(i, w, e, g)
      BY <2>2, <1>1, <1>2, <1>4, <1>5
    <3>2. QED
      BY <3>1, <2>2, <1>1 DEF ColourAt
  <2>3. QED
    BY <2>1, <2>2
<1>8. Parts(s, n, q, w, e, g - 1)
  <2>1. w + e + (g - 1) = w + e + g - 1
    BY <1>1
  <2>2. QED
    BY <2>1, <1>1, <1>3, <1>5, <1>7 DEF Parts
<1>9. r.scan \in B /\ r.lc[r.scan] = Grey
  BY <1>1, <1>2 DEF ColourAt
<1>10. Coloured(s, B)
  BY <1>4, <1>5, <1>9 DEF Ring, Coloured, Ecru, Grey, Black
<1>11. QED
  BY <1>5, <1>6, <1>8, <1>9, <1>10 DEF Ring, Scanned

(* s is r with the ecru cells white and the black ones ecru.               *)
Swapped(s, r, B, n, q, e) ==
    /\ Ring(s, B, n, q, e, n - e, 0)
    /\ \A c \in B : s.lc[c] = IF r.lc[c] = Ecru THEN White ELSE Ecru

(* Swapping the pointers and the dark bit keeps the treadmill well formed, *)
(* when the white and the grey list are empty. No cell changes its colour. *)
LEMMA SwapRing ==
  ASSUME NEW B \in SUBSET Cells, NEW r, NEW n, NEW q, NEW e, Ring(r, B, n, q, 0, e, 0)
  PROVE  Swapped(swap(r), r, B, n, q, e)
<1>1. /\ r \in RingType /\ n \in Nat /\ q \in [1 .. n -> B]
      /\ e \in Nat /\ e >= 1 /\ e < n
      /\ r.free = q[1] /\ r.bottom = q[1] /\ r.top = q[e]
      /\ \A i \in 1 .. n : r.lc[q[i]] = ColourAt(i, 0, e, 0)
  BY DEF Ring, Chain, Parts
<1>2. /\ \A i, j \in 1 .. n : q[i] = q[j] => i = j
      /\ \A c \in B : \E i \in 1 .. n : q[i] = c
      /\ \A i \in 1 .. n : q[i] \in Cells /\ q[i] \in B
      /\ 1 \in 1 .. n /\ n \in 1 .. n /\ e \in 1 .. n /\ e + 1 \in 1 .. n
      /\ After(e, n) = e + 1 /\ After(n, n) = 1
  BY <1>1 DEF Ring, Chain, After
<1>3. r.cw[r.top] = q[e + 1] /\ r.ccw[r.free] = q[n]
  BY <1>1, <1>2 DEF Ring, Chain
<1>4. /\ r.cw \in [Cells -> Cells] /\ r.ccw \in [Cells -> Cells] /\ r.dark \in BOOLEAN
      /\ r.colour \in [Cells -> BOOLEAN] /\ r.lc \in [Cells -> 0 .. 3]
  BY <1>1 DEF RingType
<1> DEFINE s == [r EXCEPT !.dark = ~@, !.bottom = r.cw[r.top],
                          !.top = r.ccw[r.free], !.scan = r.ccw[r.free]]
           white == Arc(s, s.free, s.bottom)
           lc2 == [c \in Cells |-> IF c \in white THEN White ELSE Ecru]
<1>5. swap(r) = [s EXCEPT !.lc = lc2]
  BY DEF swap
<1>6. /\ s \in RingType /\ s.cw = r.cw /\ s.ccw = r.ccw /\ s.dark = ~r.dark
      /\ s.colour = r.colour /\ s.free = q[1] /\ s.bottom = q[e + 1]
      /\ s.top = q[n] /\ s.scan = q[n]
  BY <1>1, <1>2, <1>3, <1>4 DEF RingType
<1> HIDE DEF s
<1>7. Chain(s, B, n, q)
  BY <1>6 DEF Ring, Chain
<1>8. white = Segment(q, 1, e)
  <2>1. Arc(s, q[1], q[After(e, n)]) = Segment(q, 1, e)
    <3>1. e \in 1 - 1 .. n /\ ~(1 = 1 /\ e = n)
      BY <1>1
    <3>2. QED
      BY <3>1, <1>2, <1>6, <1>7, ArcCells
  <2>2. QED
    BY <2>1, <1>2, <1>6
<1>9. lc2 \in [Cells -> 0 .. 3] /\ \A c \in Cells : lc2[c] = IF c \in white THEN White ELSE Ecru
  BY DEF White, Ecru
<1> HIDE DEF lc2, white
<1>10. /\ swap(r) \in RingType /\ swap(r).cw = r.cw /\ swap(r).ccw = r.ccw
       /\ swap(r).dark = ~r.dark /\ swap(r).colour = r.colour /\ swap(r).lc = lc2
       /\ swap(r).free = q[1] /\ swap(r).bottom = q[e + 1]
       /\ swap(r).top = q[n] /\ swap(r).scan = q[n]
  BY <1>5, <1>6, <1>9 DEF RingType
<1>11. ASSUME NEW i \in 1 .. n
       PROVE  /\ lc2[q[i]] = IF i <= e THEN White ELSE Ecru
              /\ r.lc[q[i]] = IF i <= e THEN Ecru ELSE Black
  <2>1. q[i] \in white <=> i <= e
    BY <1>1, <1>2, <1>8 DEF Segment
  <2>2. QED
    BY <2>1, <1>1, <1>2, <1>9 DEF ColourAt
<1>12. Parts(swap(r), n, q, e, n - e, 0)
  <2>1. \A i \in 1 .. n : lc2[q[i]] = ColourAt(i, e, n - e, 0)
    BY <1>11, <1>1 DEF ColourAt
  <2>2. e + (n - e) = n /\ e + (n - e) + 0 = n /\ n - e \in Nat /\ n - e >= 1 /\ n - e < n
    BY <1>1
  <2>3. QED
    BY <2>1, <2>2, <1>1, <1>10 DEF Parts
<1>13. \A c \in B : lc2[c] = IF r.lc[c] = Ecru THEN White ELSE Ecru
  BY <1>2, <1>11 DEF Ecru, Black
<1>14. Coloured(swap(r), B)
  <2>1. ASSUME NEW c \in B PROVE lc2[c] = Ecru => r.colour[c] = r.dark
    <3>1. PICK i \in 1 .. n : q[i] = c
      BY <1>2
    <3>2. lc2[c] = Ecru => r.lc[c] = Black
      BY <3>1, <1>11 DEF White, Ecru
    <3>3. QED
      BY <3>2 DEF Ring, Coloured
  <2>2. ASSUME NEW c \in B PROVE lc2[c] \notin {Grey, Black}
    BY <2>2, <1>13 DEF White, Ecru, Grey, Black
  <2>3. r.dark # ~r.dark
    BY <1>4
  <2>4. QED
    BY <2>1, <2>2, <2>3, <1>10 DEF Coloured
<1>15. Chain(swap(r), B, n, q)
  BY <1>10 DEF Ring, Chain
<1>16. QED
  BY <1>10, <1>12, <1>13, <1>14, <1>15 DEF Ring, Swapped

(* s is r with the m cells of N at the end of the white list.              *)
Grown(s, r, B, n, w, e, g, m, N) ==
    /\ \E x : Ring(s, B \cup N, n + m, x, w + m, e, g)
    /\ \A c \in B : s.lc[c] = r.lc[c]
    /\ \A c \in N : s.lc[c] = White

(* Growth keeps the treadmill well formed, if there are at least two new   *)
(* cells and the white list is not empty.                                  *)
LEMMA GrowRing ==
  ASSUME NEW B \in SUBSET Cells, NEW r, NEW n, NEW q, NEW w, NEW e, NEW g,
         Ring(r, B, n, q, w, e, g), w >= 1,
         NEW m \in Nat, m >= 2, NEW new \in Orders(m, Cells \ B)
  PROVE  Grown(grow(r, new), r, B, n, w, e, g, m, Range(new))
<1>1. /\ r \in RingType /\ n \in Nat /\ q \in [1 .. n -> B]
      /\ w \in Nat /\ e \in Nat /\ g \in Nat /\ e >= 1 /\ e < n /\ w + e + g <= n
      /\ r.free = q[1] /\ r.bottom = q[w + 1] /\ r.top = q[w + e] /\ r.scan = q[w + e + g]
      /\ \A i \in 1 .. n : r.lc[q[i]] = ColourAt(i, w, e, g)
  BY DEF Ring, Chain, Parts
<1>2. /\ \A c \in B : \E i \in 1 .. n : q[i] = c
      /\ \A i, j \in 1 .. n : q[i] = q[j] => i = j
      /\ \A i \in 1 .. n : r.cw[q[i]] = q[After(i, n)] /\ r.ccw[q[After(i, n)]] = q[i]
      /\ \A i \in 1 .. n : q[i] \in Cells /\ q[i] \in B /\ After(i, n) \in 1 .. n
  BY <1>1 DEF Ring, Chain, After
<1>3. /\ r.cw \in [Cells -> Cells] /\ r.ccw \in [Cells -> Cells] /\ r.dark \in BOOLEAN
      /\ r.colour \in [Cells -> BOOLEAN] /\ r.lc \in [Cells -> 0 .. 3]
      /\ r.free \in Cells /\ r.bottom \in Cells /\ r.scan \in Cells /\ r.top \in Cells
  BY <1>1 DEF RingType
<1>4. /\ new \in [1 .. m -> Cells \ B] /\ Len(new) = m
      /\ \A i, j \in 1 .. m : new[i] = new[j] => i = j
      /\ \A i \in 1 .. m : new[i] \in Cells /\ new[i] \notin B
      /\ Range(new) = {new[i] : i \in 1 .. m}
  <2>1. new \in [1 .. m -> Cells \ B] /\ \A i, j \in 1 .. m : new[i] = new[j] => i = j
    BY DEF Orders
  <2>2. new \in Seq(Cells \ B) /\ Len(new) = m /\ DOMAIN new = 1 .. m
    BY <2>1
  <2>3. QED
    BY <2>1, <2>2 DEF Range
<1>5. /\ w \in 1 .. n /\ w + 1 \in 1 .. n /\ w \in 1 .. w /\ r.ccw[r.bottom] = q[w]
      /\ \A i \in 1 .. w : i \in 1 .. n
      /\ \A i \in w + 1 .. n : i \in 1 .. n /\ i \notin 1 .. w
      /\ \A i \in 1 .. n : (q[i] = q[w] <=> i = w) /\ (q[i] = r.bottom <=> i = w + 1)
  <2> DEFINE w1 == w + 1
  <2>1. w \in 1 .. n /\ w1 \in 1 .. n /\ After(w, n) = w1 /\ r.bottom = q[w1]
    BY <1>1 DEF After
  <2> HIDE DEF w1
  <2>2. r.ccw[r.bottom] = q[w]
    BY <2>1, <1>2
  <2>3. \A i \in 1 .. n : (q[i] = q[w] <=> i = w) /\ (q[i] = r.bottom <=> i = w1)
    BY <2>1, <1>2
  <2>4. QED
    BY <2>1, <2>2, <2>3, <1>1 DEF w1
<1> DEFINE at(c) == CHOOSE i \in 1 .. m : new[i] = c
           isNew(c) == c \in Range(new)
           cw2 == [c \in Cells |->
                     IF isNew(c) THEN IF at(c) = m THEN r.bottom ELSE new[at(c) + 1]
                     ELSE IF c = q[w] THEN new[1] ELSE r.cw[c]]
           ccw2 == [c \in Cells |->
                      IF isNew(c) THEN IF at(c) = 1 THEN q[w] ELSE new[at(c) - 1]
                      ELSE IF c = r.bottom THEN new[m] ELSE r.ccw[c]]
           light == ~r.dark
           colour2 == [c \in Cells |-> IF isNew(c) THEN light ELSE r.colour[c]]
           lc2 == [c \in Cells |-> IF isNew(c) THEN White ELSE r.lc[c]]
<1>6. grow(r, new) = [r EXCEPT !.cw = cw2, !.ccw = ccw2, !.colour = colour2, !.lc = lc2]
  <2>1. m # 1
    OBVIOUS
  <2>2. QED
    BY <2>1, <1>4, <1>5 DEF grow
<1>7. \A i \in 1 .. m : at(new[i]) = i
  BY <1>4
<1>8. \A c \in Range(new) : at(c) \in 1 .. m
  BY <1>4, <1>7
<1> HIDE DEF at
<1>9. cw2 \in [Cells -> Cells] /\ ccw2 \in [Cells -> Cells]
  <2>1. \A c \in Range(new) : /\ at(c) # m => at(c) + 1 \in 1 .. m
                              /\ at(c) # 1 => at(c) - 1 \in 1 .. m
    BY <1>8
  <2>2. 1 \in 1 .. m /\ m \in 1 .. m
    OBVIOUS
  <2>3. QED
    BY <2>1, <2>2, <1>2, <1>3, <1>4, <1>5
<1>10. colour2 \in [Cells -> BOOLEAN] /\ lc2 \in [Cells -> 0 .. 3]
  <2>1. light \in BOOLEAN /\ White \in 0 .. 3
    BY DEF White
  <2> HIDE DEF isNew, light
  <2>2. QED
    BY <2>1, <1>3
<1>11. /\ \A i \in 1 .. m : /\ cw2[new[i]] = IF i = m THEN r.bottom ELSE new[i + 1]
                            /\ ccw2[new[i]] = IF i = 1 THEN q[w] ELSE new[i - 1]
                            /\ lc2[new[i]] = White
       /\ \A c \in Cells : c \notin Range(new) =>
            /\ cw2[c] = IF c = q[w] THEN new[1] ELSE r.cw[c]
            /\ ccw2[c] = IF c = r.bottom THEN new[m] ELSE r.ccw[c]
            /\ lc2[c] = r.lc[c] /\ colour2[c] = r.colour[c]
       /\ \A c \in Range(new) : lc2[c] = White
  BY <1>4, <1>7
<1> HIDE DEF cw2, ccw2, colour2, lc2, isNew
<1> DEFINE s == grow(r, new)
<1>12. /\ s \in RingType /\ s.cw = cw2 /\ s.ccw = ccw2 /\ s.colour = colour2 /\ s.lc = lc2
       /\ s.free = r.free /\ s.bottom = r.bottom /\ s.top = r.top /\ s.scan = r.scan
       /\ s.dark = r.dark
  BY <1>1, <1>6, <1>9, <1>10 DEF RingType
<1> HIDE DEF s
<1> DEFINE N == n + m
           D == B \cup Range(new)
           x == [j \in 1 .. N |-> IF j <= w THEN q[j] ELSE IF j <= w + m THEN new[j - w]
                                  ELSE q[j - m]]
<1>13. /\ \A i \in 1 .. w : x[i] = q[i] /\ i \in 1 .. n /\ i \in 1 .. N
       /\ \A i \in 1 .. m : x[w + i] = new[i] /\ w + i \in 1 .. N
       /\ \A i \in w + 1 .. n : x[m + i] = q[i] /\ i \in 1 .. n /\ m + i \in 1 .. N
       /\ N \in Nat
       /\ \A j \in 1 .. N : \/ j \in 1 .. w
                            \/ j - w \in 1 .. m /\ j = w + (j - w)
                            \/ j - m \in w + 1 .. n /\ j = m + (j - m)
  BY <1>1
<1>14. ASSUME NEW j \in 1 .. N
       PROVE  \/ j \in 1 .. w /\ x[j] = q[j]
              \/ \E i \in 1 .. m : j = w + i /\ x[j] = new[i]
              \/ \E i \in w + 1 .. n : j = m + i /\ x[j] = q[i]
  <2> HIDE DEF x, N
  <2>1. QED
    BY <1>13
<1>15. x \in [1 .. N -> D]
  <2>1. \A j \in 1 .. N : x[j] \in D
    <3> HIDE DEF x, N
    <3>1. ASSUME NEW j \in 1 .. N PROVE x[j] \in D
      <4>1. CASE j \in 1 .. w /\ x[j] = q[j]
        BY <4>1, <1>2, <1>5
      <4>2. CASE \E i \in 1 .. m : j = w + i /\ x[j] = new[i]
        BY <4>2, <1>4
      <4>3. CASE \E i \in w + 1 .. n : j = m + i /\ x[j] = q[i]
        BY <4>3, <1>2, <1>5
      <4>4. QED
        BY <4>1, <4>2, <4>3, <1>14
    <3>2. QED
      BY <3>1
  <2>2. QED
    BY <2>1
<1> HIDE DEF x
<1>16. \A c \in D : \E j \in 1 .. N : x[j] = c
  <2>1. ASSUME NEW c \in B PROVE \E j \in 1 .. N : x[j] = c
    <3>1. PICK i \in 1 .. n : q[i] = c
      BY <1>2
    <3>2. i \in 1 .. w \/ i \in w + 1 .. n
      BY <1>1
    <3> HIDE DEF N
    <3>3. QED
      BY <3>1, <3>2, <1>13
  <2>2. ASSUME NEW c \in Range(new) PROVE \E j \in 1 .. N : x[j] = c
    <3> HIDE DEF N
    <3>1. QED
      BY <1>4, <1>13
  <2>3. QED
    BY <2>1, <2>2
<1>17. ASSUME NEW j \in 1 .. N, NEW k \in 1 .. N, x[j] = x[k] PROVE j = k
  <2>1. \A i \in w + 1 .. n : \A l \in 1 .. w : q[i] # q[l]
    BY <1>2, <1>5
  <2>2. \A i \in w + 1 .. n : \A l \in w + 1 .. n : q[i] = q[l] => i = l
    BY <1>2, <1>5
  <2>3. \A i \in 1 .. w : \A l \in 1 .. w : q[i] = q[l] => i = l
    BY <1>2, <1>5
  <2>4. \A l \in 1 .. m : /\ \A i \in 1 .. w : q[i] # new[l]
                          /\ \A i \in w + 1 .. n : q[i] # new[l]
    BY <1>2, <1>4, <1>5
  <2> HIDE DEF N
  <2>5. CASE j \in 1 .. w /\ x[j] = q[j]
    <3>1. k \in 1 .. w /\ x[k] = q[k]
      BY <2>5, <2>1, <2>4, <1>17, <1>14
    <3>2. QED
      BY <3>1, <2>3, <2>5, <1>17
  <2>6. CASE \E i \in 1 .. m : j = w + i /\ x[j] = new[i]
    <3>1. PICK i \in 1 .. m : j = w + i /\ x[j] = new[i]
      BY <2>6
    <3>2. PICK l \in 1 .. m : k = w + l /\ x[k] = new[l]
      BY <3>1, <2>4, <1>17, <1>14
    <3>3. QED
      BY <3>1, <3>2, <1>4, <1>17
  <2>7. CASE \E i \in w + 1 .. n : j = m + i /\ x[j] = q[i]
    <3>1. PICK i \in w + 1 .. n : j = m + i /\ x[j] = q[i]
      BY <2>7
    <3>2. PICK l \in w + 1 .. n : k = m + l /\ x[k] = q[l]
      BY <3>1, <2>1, <2>4, <1>17, <1>14
    <3>3. QED
      BY <3>1, <3>2, <2>2, <1>17
  <2>8. QED
    BY <2>5, <2>6, <2>7, <1>14
<1>18. \A i \in 1 .. n : q[i] \notin Range(new)
  BY <1>2, <1>4
<1>19. ASSUME NEW j \in 1 .. N
       PROVE  s.cw[x[j]] = x[After(j, N)] /\ s.ccw[x[After(j, N)]] = x[j]
  <2>1. CASE j \in 1 .. w /\ j # w
    <3> DEFINE k == j + 1
    <3>1. After(j, N) = k /\ k \in 1 .. w /\ After(j, n) = k /\ k # w + 1 /\ k \in 1 .. n /\ j \in 1 .. n
      BY <2>1, <1>1 DEF After
    <3> HIDE DEF k
    <3>2. x[j] = q[j] /\ x[After(j, N)] = q[k] /\ q[j] # q[w] /\ q[k] # r.bottom
      <4>1. x[j] = q[j] /\ x[k] = q[k]
        BY <3>1, <2>1, <1>13
      <4>2. QED
        BY <3>1, <4>1, <2>1, <1>5
    <3>3. r.cw[q[j]] = q[k] /\ r.ccw[q[k]] = q[j] /\ q[j] \in Cells /\ q[k] \in Cells
      BY <3>1, <1>2
    <3>4. QED
      BY <3>1, <3>2, <3>3, <1>11, <1>12, <1>18
  <2>2. CASE j = w
    <3>1. After(j, N) = w + 1 /\ 1 \in 1 .. m /\ w \in 1 .. w
      BY <2>2, <1>1 DEF After
    <3>2. x[j] = q[w] /\ x[After(j, N)] = new[1] /\ q[w] \in Cells
      BY <3>1, <2>2, <1>2, <1>5, <1>13
    <3>3. QED
      BY <3>1, <3>2, <1>5, <1>11, <1>12, <1>18
  <2>3. CASE \E i \in 1 .. m : j = w + i
    <3>1. PICK i \in 1 .. m : j = w + i
      BY <2>3
    <3>2. x[j] = new[i]
      BY <3>1, <1>13
    <3>3. CASE i # m
      <4> DEFINE k == i + 1
      <4>1. After(j, N) = w + k /\ k \in 1 .. m /\ k # 1 /\ k - 1 = i
        BY <3>1, <3>3, <1>1 DEF After
      <4> HIDE DEF k
      <4>2. x[After(j, N)] = new[k]
        BY <4>1, <1>13
      <4>3. s.cw[new[i]] = new[k] /\ s.ccw[new[k]] = new[i]
        BY <4>1, <3>3, <1>11, <1>12 DEF k
      <4>4. QED
        BY <3>2, <4>2, <4>3
    <3>4. CASE i = m
      <4>1. After(j, N) = m + (w + 1) /\ w + 1 \in w + 1 .. n
        BY <3>1, <3>4, <1>1 DEF After
      <4>2. x[After(j, N)] = r.bottom
        BY <4>1, <1>1, <1>13
      <4>3. r.bottom \in Cells /\ r.bottom \notin Range(new)
        BY <1>1, <1>3, <1>5, <1>18
      <4>4. QED
        BY <3>2, <3>4, <4>2, <4>3, <1>11, <1>12
    <3>5. QED
      BY <3>3, <3>4
  <2>4. CASE \E i \in w + 1 .. n : j = m + i
    <3>1. PICK i \in w + 1 .. n : j = m + i
      BY <2>4
    <3> DEFINE k == After(i, n)
    <3>2. x[j] = q[i] /\ i \in 1 .. n /\ i # w /\ k \in 1 .. n /\ k # w + 1
      <4>1. x[j] = q[i] /\ i \in 1 .. n
        BY <3>1, <1>13
      <4>2. i # w /\ k \in 1 .. n /\ k # w + 1
        BY <3>1, <1>1 DEF After
      <4>3. QED
        BY <4>1, <4>2
    <3>3. x[After(j, N)] = q[k]
      <4>1. CASE i = n
        <5>1. j = N /\ After(j, N) = 1 /\ k = 1 /\ 1 \in 1 .. w
          BY <4>1, <3>1, <1>1 DEF After
        <5>2. QED
          BY <5>1, <1>13
      <4>2. CASE i # n
        <5>1. k = i + 1 /\ i + 1 \in w + 1 .. n /\ After(j, N) = m + (i + 1)
          BY <4>2, <3>1, <1>1 DEF After
        <5>2. QED
          BY <5>1, <1>13
      <4>3. QED
        BY <4>1, <4>2
    <3> HIDE DEF k
    <3>4. q[i] # q[w] /\ q[k] # r.bottom /\ q[i] \in Cells /\ q[k] \in Cells
      BY <3>2, <1>2, <1>5
    <3>5. r.cw[q[i]] = q[k] /\ r.ccw[q[k]] = q[i]
      BY <3>2, <1>2 DEF k
    <3>6. QED
      BY <3>2, <3>3, <3>4, <3>5, <1>11, <1>12, <1>18
  <2>5. QED
    BY <2>1, <2>2, <2>3, <2>4, <1>13
<1>20. Chain(s, D, N, x)
  <2> HIDE DEF N, D
  <2>1. QED
    BY <1>13, <1>15, <1>16, <1>17, <1>19 DEF Chain
<1>21. ASSUME NEW j \in 1 .. N PROVE s.lc[x[j]] = ColourAt(j, w + m, e, g)
  <2>1. CASE j \in 1 .. w
    <3>1. x[j] = q[j] /\ j \in 1 .. n
      BY <2>1, <1>13
    <3>2. s.lc[x[j]] = ColourAt(j, w, e, g)
      <4>1. s.lc[q[j]] = r.lc[q[j]]
        BY <3>1, <1>2, <1>11, <1>12, <1>18
      <4>2. QED
        BY <3>1, <4>1, <1>1
    <3>3. QED
      BY <3>2, <2>1, <1>1 DEF ColourAt
  <2>2. CASE \E i \in 1 .. m : j = w + i
    <3>1. s.lc[x[j]] = White
      BY <2>2, <1>11, <1>12, <1>13
    <3>2. QED
      BY <3>1, <2>2, <1>1 DEF ColourAt
  <2>3. CASE \E i \in w + 1 .. n : j = m + i
    <3>1. PICK i \in w + 1 .. n : j = m + i
      BY <2>3
    <3>2. s.lc[x[j]] = ColourAt(i, w, e, g)
      <4>1. x[j] = q[i] /\ i \in 1 .. n
        BY <3>1, <1>13
      <4>2. s.lc[q[i]] = r.lc[q[i]]
        BY <4>1, <1>2, <1>11, <1>12, <1>18
      <4>3. QED
        BY <4>1, <4>2, <1>1
    <3>3. QED
      BY <3>1, <3>2, <1>1 DEF ColourAt
  <2>4. QED
    BY <2>1, <2>2, <2>3, <1>13
<1>22. Parts(s, N, x, w + m, e, g)
  <2> DEFINE a == w + m + 1
             b == w + m + e
             c == w + m + e + g
  <2>0. /\ w \in Nat /\ e \in Nat /\ g \in Nat /\ n \in Nat /\ m \in Nat
        /\ w >= 1 /\ e >= 1 /\ e < n /\ w + e + g <= n
    BY <1>1
  <2>1. /\ w + 1 \in w + 1 .. n /\ a = m + (w + 1)
        /\ w + e \in w + 1 .. n /\ b = m + (w + e)
        /\ w + e + g \in w + 1 .. n /\ c = m + (w + e + g)
        /\ 1 \in 1 .. w /\ w + m \in Nat /\ e < N /\ c <= N
    BY <2>0
  <2> HIDE DEF a, b, c, N
  <2>2. s.free = x[1] /\ s.bottom = x[a] /\ s.top = x[b] /\ s.scan = x[c]
    BY <2>1, <1>1, <1>12, <1>13
  <2>3. QED
    BY <2>1, <2>2, <1>1, <1>21 DEF Parts, a, b, c
<1>23. Coloured(s, D)
  <2>1. ASSUME NEW c \in D PROVE \/ s.lc[c] = White
                                 \/ c \in B /\ s.lc[c] = r.lc[c] /\ s.colour[c] = r.colour[c]
    <3>1. CASE c \in Range(new)
      BY <3>1, <1>11, <1>12
    <3>2. CASE c \notin Range(new)
      BY <3>2, <1>11, <1>12
    <3>3. QED
      BY <3>1, <3>2
  <2>2. QED
    BY <2>1, <1>12 DEF Ring, Coloured, White, Ecru, Grey, Black
<1>24. D \in SUBSET Cells
  BY <1>4
<1>25. \A c \in B : s.lc[c] = r.lc[c]
  BY <1>4, <1>11, <1>12
<1>26. QED
  BY <1>11, <1>12, <1>20, <1>22, <1>23, <1>25 DEF Ring, s, Grown

(* The arithmetic of positions in InitRing.                                *)
LEMMA Positions ==
  ASSUME NEW n \in Nat, n >= 4
  PROVE  /\ \A i \in 1 .. n : (i % n) + 1 = After(i, n)
         /\ \A i \in 1 .. n : ((i - 2) % n) + 1 = IF i = 1 THEN n ELSE i - 1
         /\ \A i \in Int : (i % n) + 1 \in 1 .. n
         /\ n \div 2 \in 2 .. n - 2
<1>1. \A i \in 0 .. n - 1 : i % n = i
  OBVIOUS
<1>2. n % n = 0
  OBVIOUS
<1>3. (-1) % n = n - 1
  OBVIOUS
<1>4. \A i \in Int : i % n \in 0 .. n - 1
  OBVIOUS
<1>5. n \div 2 \in 2 .. n - 2
  OBVIOUS
<1>6. \A i \in 1 .. n : (i % n) + 1 = After(i, n)
  BY <1>1, <1>2 DEF After
<1>7. \A i \in 1 .. n : ((i - 2) % n) + 1 = IF i = 1 THEN n ELSE i - 1
  BY <1>1, <1>3
<1>8. QED
  BY <1>4, <1>5, <1>6, <1>7

(* alloc_cellseg and the allocation of sc->NIL make a well-formed          *)
(* treadmill: sc->NIL is black, every other cell is white or ecru.         *)
LEMMA FirstRing ==
  ASSUME NEW n \in Nat, n >= 4, NEW seg \in Orders(n, Cells), seg[1] = Nil
  PROVE  /\ \E x, w, e : w >= 1 /\ Ring(InitRing(seg), Range(seg), n, x, w, e, 0)
         /\ \A c \in Range(seg) : InitRing(seg).lc[c] = Black <=> c = Nil
         /\ \A c \in Range(seg) : InitRing(seg).lc[c] # Grey
         /\ Range(seg) \in SUBSET Cells /\ Nil \in Range(seg)
<1> DEFINE at(c) == IF c \in Range(seg) THEN CHOOSE i \in 1 .. n : seg[i] = c ELSE 0
           half == n \div 2
           B == Range(seg)
           r == InitRing(seg)
           cw2 == [c \in Cells |-> seg[(at(c) % n) + 1]]
           ccw2 == [c \in Cells |-> seg[((at(c) - 2) % n) + 1]]
           colour2 == [c \in Cells |-> c = Nil]
           lc2 == [c \in Cells |-> IF c = Nil THEN Black
                                   ELSE IF at(c) <= half THEN White ELSE Ecru]
<1>1. /\ seg \in [1 .. n -> Cells] /\ \A i, j \in 1 .. n : seg[i] = seg[j] => i = j
      /\ Len(seg) = n /\ B = {seg[i] : i \in 1 .. n}
  <2>1. seg \in [1 .. n -> Cells] /\ \A i, j \in 1 .. n : seg[i] = seg[j] => i = j
    BY DEF Orders
  <2>2. seg \in Seq(Cells) /\ Len(seg) = n /\ DOMAIN seg = 1 .. n
    BY <2>1
  <2>3. QED
    BY <2>1, <2>2 DEF Range
<1>2. /\ half \in 2 .. n - 2 /\ 2 \in 1 .. n /\ half + 1 \in 1 .. n /\ n \in 1 .. n /\ 1 \in 1 .. n
      /\ half \in Nat
  <2>1. half \in 2 .. n - 2
    BY Positions
  <2> HIDE DEF half
  <2>2. QED
    BY <2>1
<1>3. r = [cw |-> cw2, ccw |-> ccw2, colour |-> colour2, lc |-> lc2,
           dark |-> TRUE, inserts |-> 0, free |-> seg[2],
           bottom |-> seg[half + 1], top |-> seg[n], scan |-> seg[n]]
  BY <1>1 DEF InitRing
<1>4. \A i \in 1 .. n : at(seg[i]) = i
  BY <1>1
<1>5. \A c \in Cells : at(c) \in Int
  <2>1. \A c \in B : at(c) \in 1 .. n
    BY <1>1, <1>4
  <2>2. QED
    BY <2>1
<1> HIDE DEF at, half, B
<1>6. /\ \A c \in Cells : (at(c) % n) + 1 \in 1 .. n /\ ((at(c) - 2) % n) + 1 \in 1 .. n
  <2>1. \A c \in Cells : at(c) - 2 \in Int
    BY <1>5
  <2>2. QED
    BY <1>5, <2>1, Positions
<1>7. cw2 \in [Cells -> Cells] /\ ccw2 \in [Cells -> Cells] /\ colour2 \in [Cells -> BOOLEAN]
      /\ lc2 \in [Cells -> 0 .. 3]
  <2>1. colour2 \in [Cells -> BOOLEAN]
    OBVIOUS
  <2>2. lc2 \in [Cells -> 0 .. 3]
    BY DEF White, Ecru, Black
  <2>3. cw2 \in [Cells -> Cells] /\ ccw2 \in [Cells -> Cells]
    BY <1>1, <1>6
  <2>4. QED
    BY <2>1, <2>2, <2>3
<1>8. ASSUME NEW i \in 1 .. n
      PROVE  /\ cw2[seg[i]] = seg[After(i, n)]
             /\ ccw2[seg[i]] = seg[IF i = 1 THEN n ELSE i - 1]
             /\ lc2[seg[i]] = IF i = 1 THEN Black ELSE IF i <= half THEN White ELSE Ecru
             /\ colour2[seg[i]] = (i = 1)
  <2>1. seg[i] \in Cells /\ at(seg[i]) = i /\ (seg[i] = Nil <=> i = 1)
    BY <1>1, <1>2, <1>4
  <2>2. (i % n) + 1 = After(i, n) /\ ((i - 2) % n) + 1 = IF i = 1 THEN n ELSE i - 1
    BY Positions
  <2>3. QED
    BY <2>1, <2>2
<1> HIDE DEF cw2, ccw2, colour2, lc2, r
<1>9. r \in RingType
  <2>1. seg[2] \in Cells /\ seg[half + 1] \in Cells /\ seg[n] \in Cells
    BY <1>1, <1>2
  <2>2. QED
    BY <2>1, <1>3, <1>7 DEF RingType
<1> DEFINE x == [j \in 1 .. n |-> seg[After(j, n)]]
<1>10. \A j \in 1 .. n : After(j, n) \in 1 .. n
  BY DEF After
<1>11. x \in [1 .. n -> B] /\ \A j \in 1 .. n : x[j] = seg[After(j, n)]
  BY <1>1, <1>10
<1> HIDE DEF x
<1>12. Chain(r, B, n, x)
  <2>1. ASSUME NEW c \in B PROVE \E j \in 1 .. n : x[j] = c
    <3>1. PICK i \in 1 .. n : seg[i] = c
      BY <1>1
    <3> DEFINE j == IF i = 1 THEN n ELSE i - 1
    <3>2. j \in 1 .. n /\ After(j, n) = i
      BY DEF After
    <3>3. QED
      BY <3>1, <3>2, <1>11
  <2>2. ASSUME NEW i \in 1 .. n, NEW j \in 1 .. n, x[i] = x[j] PROVE i = j
    <3>1. After(i, n) = After(j, n)
      BY <2>2, <1>1, <1>10, <1>11
    <3>2. QED
      BY <3>1 DEF After
  <2>3. ASSUME NEW i \in 1 .. n
        PROVE  r.cw[x[i]] = x[After(i, n)] /\ r.ccw[x[After(i, n)]] = x[i]
    <3> DEFINE j == After(i, n)
               k == After(j, n)
    <3>1. j \in 1 .. n /\ k \in 1 .. n /\ x[i] = seg[j] /\ x[j] = seg[k]
      BY <1>10, <1>11
    <3>2. (IF k = 1 THEN n ELSE k - 1) = j
      BY <3>1 DEF After
    <3> HIDE DEF j
    <3>3. cw2[seg[j]] = seg[k]
      BY <3>1, <1>8
    <3> HIDE DEF k
    <3>4. ccw2[seg[k]] = seg[j]
      BY <3>1, <3>2, <1>8
    <3>5. r.cw[x[i]] = x[j] /\ r.ccw[x[j]] = x[i]
      BY <3>1, <3>3, <3>4, <1>3
    <3>6. QED
      BY <3>5 DEF j
  <2>4. QED
    BY <2>1, <2>2, <2>3, <1>11 DEF Chain
<1> DEFINE w == half - 1
           e == n - half
<1>13. Parts(r, n, x, w, e, 0)
  <2>1. /\ w \in Nat /\ e \in Nat /\ e >= 1 /\ e < n /\ w + e + 0 <= n
        /\ w + 1 = half /\ w + e = n - 1 /\ w + e + 0 = n - 1
        /\ half \in 1 .. n /\ n - 1 \in 1 .. n
        /\ After(1, n) = 2 /\ After(half, n) = half + 1 /\ After(n - 1, n) = n
    BY <1>2 DEF After
  <2>2. r.free = x[1] /\ r.bottom = x[half] /\ r.top = x[n - 1] /\ r.scan = x[n - 1]
    BY <2>1, <1>2, <1>3, <1>11
  <2>3. ASSUME NEW j \in 1 .. n PROVE r.lc[x[j]] = ColourAt(j, w, e, 0)
    <3> DEFINE k == After(j, n)
    <3>1. k \in 1 .. n /\ x[j] = seg[k]
      BY <1>10, <1>11
    <3>2. r.lc[x[j]] = IF k = 1 THEN Black ELSE IF k <= half THEN White ELSE Ecru
      <4> HIDE DEF k
      <4>1. QED
        BY <3>1, <1>3, <1>8
    <3>3. QED
      BY <3>2, <1>2 DEF After, ColourAt
  <2>4. QED
    BY <2>1, <2>2, <2>3 DEF Parts
<1>14. Coloured(r, B)
  <2>1. ASSUME NEW c \in B
        PROVE  /\ r.lc[c] \in {Grey, Black} => r.colour[c] = r.dark
               /\ r.lc[c] = Ecru => r.colour[c] # r.dark
    <3>1. PICK i \in 1 .. n : seg[i] = c
      BY <1>1
    <3>2. /\ r.lc[c] = (IF i = 1 THEN Black ELSE IF i <= half THEN White ELSE Ecru)
          /\ r.colour[c] = (i = 1) /\ r.dark = TRUE
      BY <3>1, <1>3, <1>8
    <3>3. CASE i = 1
      <4>1. r.lc[c] = Black /\ r.colour[c] = TRUE
        BY <3>2, <3>3
      <4>2. r.colour[c] = r.dark
        BY <3>2, <4>1, Zenon
      <4>3. r.lc[c] # Ecru
        BY <4>1 DEF Ecru, Black
      <4>4. QED
        BY <4>2, <4>3, Zenon
    <3>4. CASE i # 1
      <4>1. r.lc[c] \in {White, Ecru} /\ r.colour[c] = FALSE
        BY <3>2, <3>4
      <4>2. r.colour[c] # r.dark
        BY <3>2, <4>1, Zenon
      <4>3. r.lc[c] \notin {Grey, Black}
        BY <4>1 DEF White, Ecru, Grey, Black
      <4>4. QED
        BY <4>2, <4>3, Zenon
    <3>5. QED
      BY <3>3, <3>4
  <2>2. QED
    BY <2>1 DEF Coloured
<1>15. \A c \in B : (r.lc[c] = Black <=> c = Nil) /\ r.lc[c] # Grey
  <2>1. ASSUME NEW c \in B PROVE (r.lc[c] = Black <=> c = Nil) /\ r.lc[c] # Grey
    <3>1. PICK i \in 1 .. n : seg[i] = c
      BY <1>1
    <3>2. /\ r.lc[c] = (IF i = 1 THEN Black ELSE IF i <= half THEN White ELSE Ecru)
          /\ c = Nil <=> i = 1
      BY <3>1, <1>1, <1>2, <1>3, <1>8
    <3>3. QED
      BY <3>2 DEF White, Ecru, Grey, Black
  <2>2. QED
    BY <2>1
<1>16. B \in SUBSET Cells /\ Nil \in B
  BY <1>1, <1>2
<1>17. w >= 1 /\ Ring(r, B, n, x, w, e, 0)
  BY <1>2, <1>9, <1>12, <1>13, <1>14 DEF Ring
<1> HIDE DEF w, e
<1>18. QED
  BY <1>15, <1>16, <1>17 DEF r, B

-----------------------------------------------------------------------------
(* The abstract specifications. *)

(* The proofs about the abstract collector and the handshake, for this     *)
(* ring.                                                                   *)
CP == INSTANCE CollectorProofs WITH
       Regs <- 0 .. NRegs, regs <- Registers,
       free <- Whites, ecru <- Ecrus, grey <- Greys, black <- Blacks,
       marking <- mpc = "mark"
HP == INSTANCE HandshakeProofs WITH
       white <- Cardinality(Whites), ecru <- Cardinality(Ecrus),
       grey <- Cardinality(Greys),
       mpc <- IF mpc = "take_write" THEN "take" ELSE mpc

(* The two instances of Collector say the same.                            *)
LEMMA SameIInv == (C!IInv <=> CP!IInv) /\ (C!IInv' <=> CP!IInv')
  BY DEF C!IInv, CP!IInv, C!TypeOK, CP!TypeOK, C!Disjoint, CP!Disjoint, C!TriColour, CP!TriColour,
         C!Closed, CP!Closed, C!InUse, CP!InUse, C!Roots, CP!Roots, C!RootsKnown, CP!RootsKnown,
         C!Precise, CP!Precise, C!Dark, CP!Dark, C!Anchored, CP!Anchored

(* So do their steps.                                                      *)
LEMMA SameNext == C!Next <=> CP!Next
<1>1. C!Alloc <=> CP!Alloc
  BY DEF C!Alloc, CP!Alloc, C!Hold, CP!Hold, C!Roots, CP!Roots, C!Blank, CP!Blank
<1>2. C!Load <=> CP!Load
  BY DEF C!Load, CP!Load, C!Hold, CP!Hold, C!Roots, CP!Roots, C!Kids, CP!Kids
<1>3. C!Shade <=> CP!Shade
  BY DEF C!Shade, CP!Shade, C!Roots, CP!Roots
<1>4. C!Store <=> CP!Store
  BY DEF C!Store, CP!Store, C!Hold, CP!Hold, C!Roots, CP!Roots, C!Kids, CP!Kids, C!InUse, CP!InUse,
         C!Dark, CP!Dark, C!Anchored, CP!Anchored, C!Closed, CP!Closed
<1>5. C!Scan <=> CP!Scan
  BY DEF C!Scan, CP!Scan, C!Kids, CP!Kids
<1>6. C!Flip <=> CP!Flip
  BY DEF C!Flip, CP!Flip, C!Live, CP!Live, C!InUse, CP!InUse, C!Dark, CP!Dark, C!ReachFrom, CP!ReachFrom,
         C!Roots, CP!Roots, C!Closed, CP!Closed
<1>7. C!MarkRoots <=> CP!MarkRoots
  BY DEF C!MarkRoots, CP!MarkRoots, C!Roots, CP!Roots
<1>8. QED
  BY <1>1, <1>2, <1>3, <1>4, <1>5, <1>6, <1>7 DEF C!Next, CP!Next

(* The collector's steps keep its invariant, whatever makes them.          *)
LEMMA CollectorStep == C!IInv /\ [C!Next]_(C!vars) => C!IInv'
<1> SUFFICES ASSUME C!IInv, [C!Next]_(C!vars) PROVE C!IInv'
  OBVIOUS
<1>1. Nil \in Cells
  BY TreadmillAssumption
<1>2. CP!IInv
  BY SameIInv
<1>3. CASE UNCHANGED C!vars
  <2>1. UNCHANGED CP!vars
    BY <1>3 DEF C!vars, CP!vars
  <2>2. QED
    BY <1>1, <1>2, <2>1, CP!StutterIInv, SameIInv
<1>4. CASE C!Next
  <2>1. CP!Next
    BY <1>4, SameNext
  <2>2. CP!IInv'
    BY <1>1, <1>2, <2>1, CP!AllocIInv, CP!LoadIInv, CP!StoreIInv, CP!ShadeIInv, CP!ScanIInv,
       CP!FlipIInv, CP!MarkRootsIInv DEF CP!Next
  <2>3. QED
    BY <2>2, SameIInv
<1>5. QED
  BY <1>3, <1>4

(* There is memory for sc->NIL at least.                                   *)
LEMMA SizePositive == MaxCells \in Nat \ {0}
  BY TreadmillAssumption, FS_CardinalityType, FS_EmptySet DEF MaxCells

(* The handshake's steps keep its invariant.                               *)
LEMMA HandshakeStep == H!HInv /\ [H!Next]_(H!vars) => H!HInv'
<1> SUFFICES ASSUME H!HInv, [H!Next]_(H!vars) PROVE H!HInv'
  OBVIOUS
<1>1. (H!HInv <=> HP!HInv) /\ (H!HInv' <=> HP!HInv')
  BY DEF H!HInv, HP!HInv, H!TypeOK, HP!TypeOK, H!FlagsAgree, HP!FlagsAgree
<1>2. H!Next <=> HP!Next
  <2>1. \A next : H!Begin(next) <=> HP!Begin(next)
    BY DEF H!Begin, HP!Begin, H!cells, HP!cells
  <2>2. /\ H!GetCell <=> HP!GetCell
        /\ H!StartFlip <=> HP!StartFlip
        /\ H!Take <=> HP!Take
        /\ H!AskMutex <=> HP!AskMutex
        /\ H!Insert <=> HP!Insert
    BY DEF H!GetCell, HP!GetCell, H!StartFlip, HP!StartFlip, H!Take, HP!Take, H!AskMutex, HP!AskMutex, H!Insert, HP!Insert, H!cells, HP!cells, H!Count, HP!Count, H!PassesDone, HP!PassesDone
  <2>3. /\ H!Write <=> HP!Write
        /\ H!FlipSwap <=> HP!FlipSwap
        /\ H!FlipExit <=> HP!FlipExit
        /\ H!MarkRoots <=> HP!MarkRoots
        /\ H!EndFlip <=> HP!EndFlip
        /\ H!Signal <=> HP!Signal
        /\ H!FlipReturn <=> HP!FlipReturn
    BY DEF H!Write, HP!Write, H!FlipSwap, HP!FlipSwap, H!FlipExit, HP!FlipExit, H!MarkRoots, HP!MarkRoots, H!EndFlip, HP!EndFlip, H!Signal, HP!Signal, H!FlipReturn, HP!FlipReturn, H!cells, HP!cells, H!Count, HP!Count, H!PassesDone, HP!PassesDone
  <2>4. /\ H!ScanStart <=> HP!ScanStart
        /\ H!ScanCell <=> HP!ScanCell
        /\ H!ScanSleep <=> HP!ScanSleep
        /\ H!ScanRelock <=> HP!ScanRelock
        /\ H!ScanUnlock <=> HP!ScanUnlock
        /\ H!ScanFinished <=> HP!ScanFinished
        /\ H!ScanWait <=> HP!ScanWait
    BY DEF H!ScanStart, HP!ScanStart, H!ScanCell, HP!ScanCell, H!ScanSleep, HP!ScanSleep, H!ScanRelock, HP!ScanRelock, H!ScanUnlock, HP!ScanUnlock, H!ScanFinished, HP!ScanFinished, H!ScanWait, HP!ScanWait, H!cells, HP!cells, H!Count, HP!Count, H!PassesDone, HP!PassesDone
  <2>5. H!Exited <=> HP!Exited
    BY DEF H!Exited, HP!Exited, H!vars, HP!vars
  <2>6. QED
    BY <2>1, <2>2, <2>3, <2>4, <2>5 DEF H!Next, HP!Next, H!Mutator, HP!Mutator, H!Scanner, HP!Scanner
<1>3. UNCHANGED H!vars <=> UNCHANGED HP!vars
  BY DEF H!vars, HP!vars
<1>4. HP!HInv'
  <2>1. CASE UNCHANGED HP!vars
    BY <2>1, <1>1 DEF HP!vars, HP!HInv, HP!TypeOK, HP!FlagsAgree
  <2>2. CASE HP!Exited
    BY <2>2, <1>1 DEF HP!Exited, HP!vars, HP!HInv, HP!TypeOK, HP!FlagsAgree
  <2>3. CASE HP!Next /\ ~HP!Exited
    BY <2>3, <1>1, SizePositive, HP!OperationHInv, HP!FlipHInv, HP!ScannerHInv DEF HP!Next, HP!Mutator
  <2>4. QED
    BY <2>1, <2>2, <2>3, <1>2, <1>3
<1>5. QED
  BY <1>1, <1>4

-----------------------------------------------------------------------------
(* The invariant. *)

(* The operation the mutator is doing.                                     *)
OpType ==
    [dst : Nat, obj : Cells, next : Cells, fill : [Fields -> Cells], todo : Seq(Cells), len : Nat]

(* The types. A request of -1 is none. *)
VarTypes ==
    /\ setting \in Settings /\ born \in SUBSET Cells
    /\ request \in Int /\ request >= -1
    /\ heap \in [Cells -> [Fields -> Cells]]
    /\ regs \in [1 .. setting.regs -> Cells]
    /\ op \in OpType

(* Where the mutator is in get_cell, before it has a cell.                 *)
Allocating == {"get_cell", "spin", "mark", "marked", "signal", "take", "exit"}

(* The operands that have no barrier yet.                                  *)
Pending == Range(op.todo)

(* The operands of an operation stay in registers; get_cell works on the   *)
(* free cell it has read.                                                  *)
OperandInv ==
    /\ mpc = "run" => op = NoOp
    /\ mpc # "run" => op.dst \in Regs /\ Pending \subseteq Held
    /\ mpc \in Allocating => op.obj = Nil
    /\ mpc \in Allocating \cup {"take_write"} =>
          \A f \in Fields : op.fill[f] \in {Nil} \cup Pending
    /\ mpc = "take_write" => op.obj = ring.free /\ op.next = ring.cw[ring.free]
    /\ mpc = "lock" => op.todo # <<>>
    /\ mpc \in Allocating \cup {"run", "take_write", "barrier", "lock"}

(* Whatever the operation will write is in the cell already, or is dark by *)
(* then.                                                                   *)
Shaded ==
    \A f \in Fields : \/ op.fill[f] = heap[op.obj][f]
                      \/ op.fill[f] \in {Nil} \cup Pending \cup (Dark \cap Held)

(* A store unlinks nothing but sc->NIL, or leaves all the interpreter      *)
(* holds reachable.                                                        *)
Linked ==
    \/ \A f \in Fields : heap[op.obj][f] \in {Nil, op.fill[f]}
    \/ /\ op.obj \in Held
       /\ Held \subseteq C!ReachFrom(Dark \cup Pending, [heap EXCEPT ![op.obj] = op.fill])

(* Both hold from the moment the operation has its cell.                   *)
StoreInv == mpc \in {"barrier", "lock"} => Shaded /\ Linked

(* get_cell has a white cell to take; a flip begins without white cells.   *)
FreeInv ==
    /\ mpc \in {"take", "take_write", "mark", "marked", "signal"} => Whites # {}
    /\ mpc = "spin" => Whites = {}

(* Some ecru cell was garbage at the last flip, so no barrier can reach it *)
(* and the ecru list never empties; and when a flip is due, some dark cell *)
(* is garbage, so that the next cycle has such a cell again.               *)
RoomInv ==
    /\ \E d \in Ecrus : d \notin entitled
    /\ mpc \in {"get_cell", "spin"} /\ Whites = {} => \E d \in Dark : d \notin C!Live

(* The treadmill is well formed.                                           *)
RingInv == \E n, q, w, e, g : Ring(ring, born, n, q, w, e, g)

(* What the invariant says beside those of the collector and the           *)
(* handshake.                                                              *)
Own == VarTypes /\ RingInv /\ OperandInv /\ StoreInv /\ FreeInv /\ RoomInv

(* The inductive invariant.                                                *)
TreadmillInv == Own /\ C!IInv /\ H!HInv

(* What every step is shown to do.                                         *)
Advances == Own' /\ [C!Next]_(C!vars) /\ [H!Next]_(H!vars)

(* When a segment is empty.                                                *)
LEMMA SegmentEmpty ==
  ASSUME NEW q, NEW x \in Int, NEW y \in Int
  PROVE  Segment(q, x, y) = {} <=> x > y
BY DEF Segment

(* The comparisons of pointers in get_cell and treadmill_scanner tell      *)
(* whether a list is empty.                                                *)
LEMMA ListBounds ==
  ASSUME born \in SUBSET Cells, RingInv
  PROVE  /\ ring.free = ring.bottom <=> Whites = {}
         /\ ring.scan = ring.top <=> Greys = {}
         /\ Ecrus # {} /\ ring.free \in Cells /\ ring.scan \in Cells
         /\ IsFiniteSet(born) /\ Cardinality(born) \in Nat /\ Cardinality(born) <= MaxCells
<1>1. PICK n, q, w, e, g : Ring(ring, born, n, q, w, e, g)
  BY DEF RingInv
<1>2. /\ w \in Nat /\ e \in Nat /\ g \in Nat /\ n \in Nat
      /\ e >= 1 /\ e < n /\ w + e + g <= n
      /\ ring.free = q[1] /\ ring.bottom = q[w + 1] /\ ring.top = q[w + e] /\ ring.scan = q[w + e + g]
      /\ \A i, j \in 1 .. n : q[i] = q[j] => i = j
  BY <1>1 DEF Ring, Parts, Chain
<1>3. Lists(ring, born, n, q, w, e, g)
  BY <1>1, RingListed
<1>4. Whites = {} <=> w = 0
  <2>1. Whites = Segment(q, 1, w)
    BY <1>3 DEF Lists, Whites
  <2>2. QED
    BY <2>1, <1>2, SegmentEmpty
<1>5. Greys = {} <=> g = 0
  <2> DEFINE x == w + e + 1
             y == w + e + g
  <2>1. Greys = Segment(q, x, y)
    BY <1>3 DEF Lists, Greys
  <2>2. x \in Int /\ y \in Int /\ (x > y <=> g = 0)
    BY <1>2
  <2> HIDE DEF x, y
  <2>3. QED
    BY <2>1, <2>2, SegmentEmpty
<1>6. Ecrus # {}
  <2> DEFINE x == w + 1
             y == w + e
  <2>1. Ecrus = Segment(q, x, y)
    BY <1>3 DEF Lists, Ecrus
  <2>2. x \in Int /\ y \in Int /\ ~(x > y)
    BY <1>2
  <2> HIDE DEF x, y
  <2>3. QED
    BY <2>1, <2>2, SegmentEmpty
<1>7. ring.free = ring.bottom <=> w = 0
  <2>1. 1 \in 1 .. n /\ w + 1 \in 1 .. n
    BY <1>2
  <2>2. QED
    BY <2>1, <1>2
<1>8. ring.scan = ring.top <=> g = 0
  <2>1. w + e \in 1 .. n /\ w + e + g \in 1 .. n
    BY <1>2
  <2>2. QED
    BY <2>1, <1>2
<1>9. ring.free \in Cells /\ ring.scan \in Cells
  BY <1>1 DEF Ring, RingType
<1>10. IsFiniteSet(born) /\ Cardinality(born) \in Nat /\ Cardinality(born) <= MaxCells
  BY TreadmillAssumption, FS_Subset, FS_CardinalityType DEF MaxCells
<1>11. QED
  BY <1>4, <1>5, <1>6, <1>7, <1>8, <1>9, <1>10

(* The lists and their sizes.                                              *)
LEMMA ListTypes ==
  ASSUME born \in SUBSET Cells, RingInv
  PROVE  /\ \A c \in born : ring.lc[c] \in 0 .. 3
         /\ Whites \in SUBSET Cells /\ Ecrus \in SUBSET Cells /\ Greys \in SUBSET Cells
         /\ Blacks \in SUBSET Cells
         /\ Cardinality(Whites) \in Nat /\ Cardinality(Ecrus) \in Nat /\ Cardinality(Greys) \in Nat
         /\ Cardinality(Whites) > 0 <=> Whites # {}
         /\ Cardinality(Ecrus) > 0
         /\ Cardinality(Greys) > 0 <=> Greys # {}
         /\ IsFiniteSet(Whites) /\ IsFiniteSet(Ecrus) /\ IsFiniteSet(Greys)
<1>1. Whites \subseteq born /\ Ecrus \subseteq born /\ Greys \subseteq born /\ Blacks \subseteq born
  BY DEF Whites, Ecrus, Greys, Blacks
<1>2. IsFiniteSet(born) /\ Ecrus # {}
  BY ListBounds
<1>3. ASSUME NEW S, S \subseteq born
      PROVE  IsFiniteSet(S) /\ Cardinality(S) \in Nat /\ (Cardinality(S) > 0 <=> S # {})
  <2>1. IsFiniteSet(S)
    BY <1>2, <1>3, FS_Subset
  <2>2. Cardinality(S) \in Nat /\ (Cardinality(S) = 0 <=> S = {})
    BY <2>1, FS_CardinalityType, FS_EmptySet
  <2>3. QED
    BY <2>1, <2>2
<1>4. ring.lc \in [Cells -> 0 .. 3]
  BY DEF RingInv, Ring, RingType
<1>5. \A c \in born : ring.lc[c] \in 0 .. 3
  BY <1>4
<1>6. QED
  BY <1>1, <1>2, <1>3, <1>5

(* The collector's roots are what the mutator holds and the cell it works  *)
(* on.                                                                     *)
LEMMA RootsAre ==
  ASSUME VarTypes
  PROVE  C!Roots = Held \cup {Operand}
<1>1. setting.regs \in 1 .. NRegs /\ NRegs \in Nat
  BY TreadmillAssumption DEF VarTypes
<1>2. DOMAIN regs = 1 .. setting.regs
  BY DEF VarTypes
<1>3. /\ \A r \in Regs : r \in 0 .. NRegs /\ Registers[r] = regs[r]
      /\ 0 \in 0 .. NRegs /\ 0 \notin Regs /\ Registers[0] = Operand
      /\ \A r \in 0 .. NRegs : r \notin Regs /\ r # 0 => Registers[r] = Nil
  BY <1>1, <1>2 DEF Registers, Regs
<1>4. QED
  BY <1>3 DEF C!Roots, Held

-----------------------------------------------------------------------------
(* Steps that leave the heap alone. *)

(* No cell changes its list, or what the interpreter holds does not        *)
(* change.                                                                 *)
SameLists == /\ Whites' = Whites /\ Ecrus' = Ecrus /\ Greys' = Greys /\ Blacks' = Blacks
             /\ Dark' = Dark
SameRoots == Held' = Held /\ Registers' = Registers /\ C!Live' = C!Live /\ C!Roots' = C!Roots

(* When the lists stay.                                                    *)
LEMMA ListsStay ==
  ASSUME UNCHANGED born, ring'.lc = ring.lc
  PROVE  SameLists
BY DEF SameLists, Whites, Ecrus, Greys, Blacks, Dark

(* When the roots stay.                                                    *)
LEMMA RootsStay ==
  ASSUME UNCHANGED <<heap, regs>>, Operand' = Operand
  PROVE  SameRoots
<1>1. Registers' = Registers
  BY DEF Registers
<1>2. C!Roots' = C!Roots
  BY <1>1 DEF C!Roots
<1>3. C!Live' = C!Live
  BY <1>2 DEF C!Live
<1>4. Held' = Held
  BY DEF Held, Regs
<1>5. QED
  BY <1>1, <1>2, <1>3, <1>4 DEF SameRoots

(* Then the collector stutters.                                            *)
LEMMA CollectorStays ==
  ASSUME UNCHANGED <<heap, regs, entitled>>, SameLists, SameRoots, (mpc = "mark") <=> (mpc' = "mark")
  PROVE  [C!Next]_(C!vars)
<1>1. UNCHANGED C!vars
  BY DEF C!vars, SameLists, SameRoots
<1>2. QED
  BY <1>1

(* What the invariant says of the roots: in use, entitled, and in dark     *)
(* cells' reach; a barrier reads the list of a cell off its colour.        *)
LEMMA InvFacts ==
  ASSUME TreadmillInv
  PROVE  /\ born \in SUBSET Cells /\ C!InUse = Ecrus \cup Dark /\ C!Dark = Dark
         /\ Held \subseteq C!InUse /\ Held \subseteq entitled /\ Dark \subseteq entitled
         /\ C!Roots = Held \cup {Operand} /\ C!Roots \subseteq C!InUse /\ C!Roots \subseteq entitled
         /\ mpc # "mark" => Nil \in Dark
         /\ \A c \in C!InUse : \A f \in Fields : heap[c][f] \in C!InUse
         /\ \A c \in entitled : \A f \in Fields : heap[c][f] \in entitled
         /\ C!InUse \cap Whites = {} /\ C!InUse \subseteq born
         /\ Whites \cup Ecrus \cup Dark = born
         /\ \A c \in C!InUse : IsDark(c) <=> c \in Dark
<1> USE DEF TreadmillInv
<1>1. born \in SUBSET Cells /\ C!Roots = Held \cup {Operand}
  BY RootsAre DEF Own, VarTypes
<1>2. C!Dark = Dark /\ C!InUse = Ecrus \cup Dark
  BY DEF C!Dark, C!InUse, Dark
<1>3. /\ C!Roots \subseteq C!InUse /\ C!Roots \subseteq entitled /\ Dark \subseteq entitled
      /\ \A c \in C!InUse : \A f \in Fields : heap[c][f] \in C!InUse
      /\ \A c \in entitled : \A f \in Fields : heap[c][f] \in entitled
      /\ C!InUse \cap Whites = {}
      /\ mpc # "mark" => Nil \in Dark
  BY <1>2 DEF C!IInv, C!Closed, C!Precise, C!Disjoint, C!RootsKnown
<1>4. RingInv /\ ring.lc \in [Cells -> 0 .. 3]
  BY DEF Own, RingInv, Ring, RingType
<1>5. \A c \in born : c \in Whites \cup Ecrus \cup Dark
  BY <1>1, <1>4 DEF Whites, Ecrus, Dark, Greys, Blacks, White, Ecru, Grey, Black
<1>6. Whites \cup Ecrus \cup Dark = born
  BY <1>5 DEF Whites, Ecrus, Dark, Greys, Blacks
<1>7. Coloured(ring, born)
  BY <1>4 DEF RingInv, Ring
<1>8. ring.colour \in [Cells -> BOOLEAN] /\ ring.dark \in BOOLEAN
  BY <1>4 DEF RingInv, Ring, RingType
<1>9. ASSUME NEW c \in C!InUse PROVE IsDark(c) <=> c \in Dark
  BY <1>2, <1>6, <1>7, <1>8, <1>1 DEF Coloured, IsDark, Ecrus, Dark, Greys, Blacks, White, Ecru, Grey, Black
<1>10. QED
  BY <1>1, <1>2, <1>3, <1>6, <1>9

(* A step of the control only.                                             *)
Frame == /\ UNCHANGED <<gcvars, ring, heap, regs, op>> /\ Operand' = Operand
         /\ (mpc = "mark") <=> (mpc' = "mark")

(* What such a step keeps.                                                 *)
Kept == /\ VarTypes' /\ RingInv' /\ SameLists /\ SameRoots /\ [C!Next]_(C!vars)
        /\ Pending' = Pending /\ Regs' = Regs

(* It keeps the parts of the invariant that speak of neither mpc nor op    *)
(* alone.                                                                  *)
LEMMA FrameKeeps ==
  ASSUME TreadmillInv, Frame
  PROVE  Kept
<1>1. UNCHANGED <<setting, born, request, entitled, ring, heap, regs, op>>
  BY DEF Frame, gcvars
<1>2. VarTypes'
  BY <1>1 DEF VarTypes, TreadmillInv, Own
<1>3. RingInv'
  BY <1>1 DEF RingInv, TreadmillInv, Own
<1>4. SameLists /\ SameRoots
  BY <1>1, ListsStay, RootsStay DEF Frame
<1>5. [C!Next]_(C!vars)
  BY <1>1, <1>4, CollectorStays DEF Frame
<1>6. QED
  BY <1>1, <1>2, <1>3, <1>4, <1>5 DEF Kept, Pending, Regs

(* The steps of the control only.                                          *)
LEMMA ControlFrame ==
  ASSUME TreadmillInv,
         GetCell \/ StartFlip \/ AskMutex \/ FlipExit \/ Signal \/ FlipReturn \/ ScanStart \/ ScanSleep
         \/ ScanRelock \/ ScanUnlock \/ ScanFinished \/ ScanWait \/ Exited
  PROVE  Frame
<1>1. UNCHANGED <<gcvars, ring, heap, regs, op>>
  BY DEF GetCell, StartFlip, AskMutex, FlipExit, Signal, FlipReturn, ScanStart, ScanSleep, ScanRelock,
         ScanUnlock, ScanFinished, ScanWait, Exited, vars, gcvars
<1>2. \/ mpc \notin {"mark", "take_write"} /\ mpc' \notin {"mark", "take_write"}
      \/ mpc' = mpc
  BY DEF GetCell, StartFlip, AskMutex, FlipExit, Signal, FlipReturn, ScanStart, ScanSleep, ScanRelock,
         ScanUnlock, ScanFinished, ScanWait, Exited, vars, gcvars
<1>3. Operand' = Operand
  BY <1>1, <1>2 DEF Operand
<1>4. QED
  BY <1>1, <1>2, <1>3 DEF Frame

(* The pointers, the lists and the counts of the handshake agree.          *)
LEMMA ListSizes ==
  ASSUME TreadmillInv
  PROVE  /\ Cardinality(Whites) > 0 <=> Whites # {} 
         /\ Cardinality(Whites) = 0 <=> Whites = {}
         /\ Cardinality(Ecrus) > 0
         /\ Cardinality(Greys) = 0 <=> Greys = {}
         /\ Cardinality(Greys) > 0 <=> Greys # {}
         /\ ring.free = ring.bottom <=> Whites = {}
         /\ ring.scan = ring.top <=> Greys = {}
<1>1. born \in SUBSET Cells /\ RingInv
  BY DEF TreadmillInv, Own, VarTypes
<1>2. QED
  BY <1>1, ListTypes, ListBounds

(* get_cell finds a white cell.                                            *)
LEMMA GetCellStep ==
  ASSUME TreadmillInv, GetCell
  PROVE  Advances
<1>1. Kept
  BY FrameKeeps, ControlFrame
<1>2. /\ mpc = "get_cell" /\ mpc' = "take" /\ Whites # {}
      /\ UNCHANGED <<setting, born, request, entitled, ring, heap, regs, op>>
  BY ListSizes DEF GetCell, gcvars
<1>3. OperandInv' /\ StoreInv' /\ FreeInv' /\ RoomInv'
  BY <1>1, <1>2 DEF TreadmillInv, Own, OperandInv, StoreInv, FreeInv, RoomInv, Kept, SameLists, SameRoots, Allocating
<1>4. H!GetCell
  BY <1>1, <1>2, ListSizes DEF H!GetCell, H!cells, GetCell, Kept, SameLists
<1>5. QED
  BY <1>1, <1>3, <1>4 DEF Advances, Own, Kept, H!Next, H!Mutator

(* get_cell finds none. The cell that Headroom promised is garbage still,  *)
(* since only the scanner has run.                                         *)
LEMMA StartFlipStep ==
  ASSUME TreadmillInv, StartFlip
  PROVE  Advances
<1>1. Kept
  BY FrameKeeps, ControlFrame
<1>2. /\ mpc = "get_cell" /\ mpc' = "spin" /\ Whites = {}
      /\ UNCHANGED <<setting, born, request, entitled, ring, heap, regs, op>>
  BY ListSizes DEF StartFlip, gcvars
<1>3. OperandInv' /\ StoreInv' /\ FreeInv' /\ RoomInv'
  BY <1>1, <1>2 DEF TreadmillInv, Own, OperandInv, StoreInv, FreeInv, RoomInv, Kept, SameLists, SameRoots, Allocating
<1>4. H!StartFlip
  BY <1>1, <1>2, ListSizes DEF H!StartFlip, H!cells, StartFlip, Kept, SameLists
<1>5. QED
  BY <1>1, <1>3, <1>4 DEF Advances, Own, Kept, H!Next, H!Mutator

(* malloc fails.                                                           *)
LEMMA FlipExitStep ==
  ASSUME TreadmillInv, FlipExit
  PROVE  Advances
<1>1. Kept
  BY FrameKeeps, ControlFrame
<1>2. /\ mpc = "spin" /\ mpc' = "exit"
      /\ UNCHANGED <<setting, born, request, entitled, ring, heap, regs, op>>
  BY DEF FlipExit, gcvars
<1>3. OperandInv' /\ StoreInv' /\ FreeInv' /\ RoomInv'
  BY <1>1, <1>2 DEF TreadmillInv, Own, OperandInv, StoreInv, FreeInv, RoomInv, Kept, SameLists, SameRoots, Allocating
<1>4. H!FlipExit
  BY <1>1, <1>2 DEF H!FlipExit, H!cells, FlipExit, Kept, SameLists
<1>5. QED
  BY <1>1, <1>3, <1>4 DEF Advances, Own, Kept, H!Next, H!Mutator

(* The scanner has restarted and treadmill_flip returns.                   *)
LEMMA FlipReturnStep ==
  ASSUME TreadmillInv, FlipReturn
  PROVE  Advances
<1>1. Kept
  BY FrameKeeps, ControlFrame
<1>2. /\ mpc = "signal" /\ mpc' = "take"
      /\ UNCHANGED <<setting, born, request, entitled, ring, heap, regs, op>>
  BY DEF FlipReturn, gcvars
<1>3. OperandInv' /\ StoreInv' /\ FreeInv' /\ RoomInv'
  BY <1>1, <1>2 DEF TreadmillInv, Own, OperandInv, StoreInv, FreeInv, RoomInv, Kept, SameLists, SameRoots, Allocating
<1>4. H!FlipReturn
  BY <1>1, <1>2 DEF H!FlipReturn, H!cells, FlipReturn, Kept, SameLists
<1>5. QED
  BY <1>1, <1>3, <1>4 DEF Advances, Own, Kept, H!Next, H!Mutator

(* A barrier on a light cell asks for the mutex; there is an ecru cell, as *)
(* the handshake wants.                                                    *)
LEMMA AskMutexStep ==
  ASSUME TreadmillInv, AskMutex
  PROVE  Advances
<1>1. Kept
  BY FrameKeeps, ControlFrame
<1>2. /\ mpc = "barrier" /\ mpc' = "lock" /\ op.todo # <<>>
      /\ UNCHANGED <<setting, born, request, entitled, ring, heap, regs, op>>
  BY DEF AskMutex, gcvars
<1>3. OperandInv' /\ FreeInv' /\ RoomInv'
  BY <1>1, <1>2 DEF TreadmillInv, Own, OperandInv, FreeInv, RoomInv, Kept, SameLists, SameRoots, Allocating
<1>4. StoreInv'
  BY <1>1, <1>2 DEF TreadmillInv, Own, StoreInv, Shaded, Linked, Kept, SameLists, SameRoots
<1>5. H!AskMutex
  BY <1>1, <1>2, ListSizes DEF H!AskMutex, H!cells, AskMutex, Kept, SameLists
<1>6. QED
  BY <1>1, <1>3, <1>4, <1>5 DEF Advances, Own, Kept, H!Next, H!Mutator

(* The steps that only pass control between the threads.                   *)
LEMMA HandoverStep ==
  ASSUME TreadmillInv,
         Signal \/ ScanStart \/ ScanSleep \/ ScanRelock \/ ScanUnlock \/ ScanFinished \/ ScanWait \/ Exited
  PROVE  Advances
<1>1. Kept
  BY FrameKeeps, ControlFrame
<1>2. UNCHANGED <<setting, born, request, entitled, ring, heap, regs, op, mpc>>
  BY DEF Signal, ScanStart, ScanSleep, ScanRelock, ScanUnlock, ScanFinished, ScanWait, Exited, vars, gcvars
<1>3. OperandInv' /\ FreeInv' /\ RoomInv'
  BY <1>1, <1>2 DEF TreadmillInv, Own, OperandInv, FreeInv, RoomInv, Kept, SameLists, SameRoots
<1>4. StoreInv'
  BY <1>1, <1>2 DEF TreadmillInv, Own, StoreInv, Shaded, Linked, Kept, SameLists, SameRoots
<1>5. PassesDone <=> H!PassesDone
  BY ListSizes DEF PassesDone, H!PassesDone
<1>6. UNCHANGED H!cells
  BY <1>1 DEF H!cells, Kept, SameLists
<1>7. CASE Signal
  <2>1. H!Signal
    BY <1>7, <1>6 DEF Signal, H!Signal
  <2>2. QED
    BY <1>1, <1>3, <1>4, <2>1 DEF Advances, Own, Kept, H!Next, H!Mutator
<1>8. CASE ScanStart \/ ScanSleep \/ ScanRelock
  <2>1. H!ScanStart \/ H!ScanSleep \/ H!ScanRelock
    BY <1>8, <1>5, <1>6, <1>2, ListSizes
    DEF ScanStart, H!ScanStart, ScanSleep, H!ScanSleep, ScanRelock, H!ScanRelock
  <2>2. QED
    BY <1>1, <1>3, <1>4, <2>1 DEF Advances, Own, Kept, H!Next, H!Scanner
<1>9. CASE ScanUnlock \/ ScanFinished \/ ScanWait
  <2>1. H!ScanUnlock \/ H!ScanFinished \/ H!ScanWait
    BY <1>9, <1>6 DEF ScanUnlock, H!ScanUnlock, ScanFinished, H!ScanFinished, ScanWait, H!ScanWait
  <2>2. QED
    BY <1>1, <1>3, <1>4, <2>1 DEF Advances, Own, Kept, H!Next, H!Scanner
<1>10. CASE Exited
  <2>1. H!Exited
    BY <1>10, <1>6 DEF Exited, vars, H!Exited, H!vars, H!cells
  <2>2. QED
    BY <1>1, <1>3, <1>4, <2>1 DEF Advances, Own, Kept, H!Next
<1>11. QED
  BY <1>7, <1>8, <1>9, <1>10

-----------------------------------------------------------------------------
(* The operations of the interpreter. *)

(* What the theorems assume of the program and the build. The scanner does *)
(* not run inside the unlocked update of get_cell; every cycle leaves some *)
(* cell to free; a program does not unlink a cell it holds only in a       *)
(* register; it forces no promise (but one whose value is the promise);    *)
(* the lists that are linked in place are linked to cells that are shaded  *)
(* already; and no flip happens while dump_stack_copy holds copies in      *)
(* memory from malloc. Without any of the six the properties fail.         *)
Modest == /\ ~MayRace /\ ~MayFill /\ ~MayUnlink
          /\ ~MayForce /\ ~MayStoreFirst /\ ~MayHide

(* A flip is about to add a single cell, which grow would link to itself.  *)
(* The theorems are about behaviours in which this does not happen.        *)
GrowsByOne == mpc = "spin" /\ scannerFinished /\ MustGrow /\ AllocSize = 1

(* The operation between operations.                                       *)
LEMMA NoOpFields ==
  /\ NoOp \in OpType /\ NoOp.obj = Nil /\ NoOp.len = 0 /\ NoOp.todo = <<>> /\ NoOp.next = Nil
  /\ NoOp.fill = Blank /\ Blank \in [Fields -> Cells] /\ Nil \in Cells
<1>1. Blank \in [Fields -> Cells]
  BY TreadmillAssumption DEF Blank
<1>2. NoOp \in OpType
  BY <1>1, TreadmillAssumption DEF NoOp, OpType
<1>3. QED
  BY <1>1, <1>2, TreadmillAssumption DEF NoOp

(* The operation that an allocation begins,                                *)
LEMMA ConsFields ==
  ASSUME NEW r \in Nat, NEW k \in [Fields -> Cells], NEW t \in Seq(Cells),
         op' = [NoOp EXCEPT !.dst = r, !.fill = k, !.todo = t]
  PROVE  /\ op' \in OpType /\ op'.dst = r /\ op'.obj = Nil /\ op'.fill = k /\ op'.todo = t /\ op'.len = 0
<1> DEFINE o == NoOp
<1>1. o \in OpType /\ o.obj = Nil /\ o.fill = Blank /\ o.len = 0 /\ op' = [o EXCEPT !.dst = r, !.fill = k, !.todo = t]
  BY NoOpFields
<1> HIDE DEF o
<1>2. QED
  BY <1>1 DEF OpType

(* that mk_vector begins,                                                  *)
LEMMA VectorFields ==
  ASSUME NEW r \in Nat, NEW n \in Nat, NEW t \in Seq(Cells),
         op' = [NoOp EXCEPT !.dst = r, !.len = n, !.todo = t]
  PROVE  /\ op' \in OpType /\ op'.dst = r /\ op'.obj = Nil /\ op'.fill = Blank /\ op'.todo = t /\ op'.len = n
<1> DEFINE o == NoOp
<1>1. o \in OpType /\ o.obj = Nil /\ o.fill = Blank /\ o.len = 0 /\ op' = [o EXCEPT !.dst = r, !.len = n, !.todo = t]
  BY NoOpFields
<1> HIDE DEF o
<1>2. QED
  BY <1>1 DEF OpType

(* and that a store begins.                                                *)
LEMMA StoreFields ==
  ASSUME NEW r \in Nat, NEW x \in Cells, NEW k \in [Fields -> Cells], NEW t \in Seq(Cells),
         op' = [NoOp EXCEPT !.dst = r, !.obj = x, !.fill = k, !.todo = t]
  PROVE  /\ op' \in OpType /\ op'.dst = r /\ op'.obj = x /\ op'.fill = k /\ op'.todo = t /\ op'.len = 0
<1> DEFINE o == NoOp
<1>1. o \in OpType /\ o.obj = Nil /\ o.fill = Blank /\ o.len = 0 /\ op' = [o EXCEPT !.dst = r, !.obj = x, !.fill = k, !.todo = t]
  BY NoOpFields
<1> HIDE DEF o
<1>2. QED
  BY <1>1 DEF OpType

(* get_cell reads the free cell and its neighbour.                         *)
LEMMA TakeReadStep ==
  ASSUME TreadmillInv, TakeRead
  PROVE  Advances
<1>1. /\ mpc = "take" /\ mpc' = "take_write" /\ Whites # {}
      /\ UNCHANGED <<setting, born, request, entitled, ring, heap, regs, spc, mutex, flipActive, scannerFinished>>
      /\ op \in OpType /\ op.obj = Nil
      /\ op' = [op EXCEPT !.obj = ring.free, !.next = ring.cw[ring.free]]
  BY DEF TakeRead, gcvars, TreadmillInv, Own, OperandInv, FreeInv, VarTypes, Allocating
<1>2. ring.free \in Cells /\ ring.cw[ring.free] \in Cells
  BY DEF TreadmillInv, Own, RingInv, Ring, RingType
<1>3. /\ op' \in OpType /\ op'.obj = ring.free /\ op'.next = ring.cw[ring.free]
      /\ op'.dst = op.dst /\ op'.fill = op.fill /\ op'.todo = op.todo /\ op'.len = op.len
  <2> DEFINE nx == ring.cw[ring.free]
             fr == ring.free
  <2>1. fr \in Cells /\ nx \in Cells /\ op' = [op EXCEPT !.obj = fr, !.next = nx]
    BY <1>1, <1>2
  <2> HIDE DEF fr, nx
  <2>2. /\ op' \in OpType /\ op'.obj = fr /\ op'.next = nx
        /\ op'.dst = op.dst /\ op'.fill = op.fill /\ op'.todo = op.todo /\ op'.len = op.len
    BY <1>1, <2>1 DEF OpType
  <2>3. QED
    BY <2>2 DEF fr, nx
<1>4. Operand' = Operand
  BY <1>1 DEF Operand
<1>5. SameLists /\ SameRoots
  BY <1>1, <1>4, ListsStay, RootsStay
<1>6. VarTypes' /\ RingInv'
  BY <1>1, <1>3 DEF VarTypes, RingInv, TreadmillInv, Own
<1>7. Pending' = Pending /\ Regs' = Regs
  BY <1>1, <1>3 DEF Pending, Regs
<1>8. OperandInv' /\ StoreInv' /\ FreeInv' /\ RoomInv'
  BY <1>1, <1>3, <1>5, <1>7
  DEF TreadmillInv, Own, OperandInv, StoreInv, FreeInv, RoomInv, SameLists, SameRoots, Allocating
<1>9. [C!Next]_(C!vars)
  BY <1>1, <1>5, CollectorStays
<1>10. UNCHANGED H!vars
  BY <1>1, <1>5 DEF H!vars, SameLists
<1>11. QED
  BY <1>6, <1>8, <1>9, <1>10 DEF Advances, Own

(* The next operand, and those after it.                                   *)
LEMMA TodoHead ==
  ASSUME op \in OpType, op.todo # <<>>
  PROVE  /\ Head(op.todo) \in Pending /\ Head(op.todo) \in Cells
         /\ Tail(op.todo) \in Seq(Cells)
         /\ Range(Tail(op.todo)) \subseteq Pending
         /\ Pending \subseteq {Head(op.todo)} \cup Range(Tail(op.todo))
<1>1. op.todo \in Seq(Cells) /\ Len(op.todo) \in Nat /\ Len(op.todo) >= 1
  BY DEF OpType
<1>2. DOMAIN op.todo = 1 .. Len(op.todo) /\ Head(op.todo) = op.todo[1]
  BY <1>1
<1>3. /\ Tail(op.todo) \in Seq(Cells) /\ Len(Tail(op.todo)) = Len(op.todo) - 1
      /\ \A i \in 1 .. Len(op.todo) - 1 : Tail(op.todo)[i] = op.todo[i + 1]
      /\ DOMAIN Tail(op.todo) = 1 .. Len(op.todo) - 1
  BY <1>1
<1>4. Range(Tail(op.todo)) \subseteq Pending
  BY <1>1, <1>2, <1>3 DEF Pending, Range
<1>5. ASSUME NEW i \in 1 .. Len(op.todo)
      PROVE  op.todo[i] = Head(op.todo) \/ op.todo[i] \in Range(Tail(op.todo))
  <2>1. CASE i = 1
    BY <2>1, <1>2
  <2>2. CASE i # 1
    <3>1. i - 1 \in 1 .. Len(op.todo) - 1 /\ Tail(op.todo)[i - 1] = op.todo[i]
      BY <2>2, <1>1, <1>3
    <3>2. QED
      BY <3>1, <1>3 DEF Range
  <2>3. QED
    BY <2>1, <2>2
<1>6. QED
  BY <1>1, <1>2, <1>3, <1>4, <1>5 DEF Pending, Range

(* The next operand is done.                                               *)
TailTaken == op' = [op EXCEPT !.todo = Tail(@)]

(* Only the operands left to do change.                                    *)
LEMMA TailFields ==
  ASSUME op \in OpType, op.todo # <<>>, TailTaken
  PROVE  /\ op' \in OpType /\ op'.todo = Tail(op.todo) /\ op'.obj = op.obj /\ op'.next = op.next
         /\ op'.dst = op.dst /\ op'.fill = op.fill /\ op'.len = op.len
         /\ Pending' = Range(Tail(op.todo))
<1> DEFINE t == Tail(op.todo)
<1>1. t \in Seq(Cells) /\ op' = [op EXCEPT !.todo = t]
  BY TodoHead DEF TailTaken
<1> HIDE DEF t
<1>2. /\ op' \in OpType /\ op'.todo = t /\ op'.obj = op.obj /\ op'.next = op.next
      /\ op'.dst = op.dst /\ op'.fill = op.fill /\ op'.len = op.len
  BY <1>1 DEF OpType
<1>3. QED
  BY <1>2 DEF t, Pending

(* Between two operations.                                                 *)
LEMMA RunFacts ==
  ASSUME TreadmillInv, mpc = "run"
  PROVE  /\ op = NoOp /\ Operand = Nil /\ Held \in SUBSET Cells
         /\ Regs = 1 .. setting.regs /\ Regs \subseteq Nat /\ setting \in Settings
         /\ 0 \notin Regs /\ Regs \subseteq 0 .. NRegs
<1>1. op = NoOp
  BY DEF TreadmillInv, Own, OperandInv
<1>2. setting \in Settings /\ regs \in [1 .. setting.regs -> Cells]
  BY DEF TreadmillInv, Own, VarTypes
<1>3. setting.regs \in 1 .. NRegs /\ NRegs \in Nat /\ Nil \in Cells
  BY <1>2, TreadmillAssumption
<1>4. Regs = 1 .. setting.regs
  BY <1>2 DEF Regs
<1>5. QED
  BY <1>1, <1>2, <1>3, <1>4, NoOpFields DEF Operand, Held

(* What Headroom promises.                                                 *)
LEMMA HeadroomLeft ==
  ASSUME TreadmillInv, Modest, Headroom, Whites = {}
  PROVE  \E d \in Dark : d \notin C!Live
BY ListSizes DEF Headroom, Modest

(* An allocation begins: nothing changes for the collector, and there is   *)
(* room for a flip.                                                        *)
LEMMA AllocationStarts ==
  ASSUME TreadmillInv, Modest, mpc = "run", mpc' = "get_cell", Headroom,
         UNCHANGED <<gcvars, ring, heap, regs, spc, mutex, flipActive, scannerFinished>>,
         op' \in OpType, op'.obj = Nil, op'.dst \in Regs,
         Pending' \subseteq Held, \A f \in Fields : op'.fill[f] \in {Nil} \cup Pending'
  PROVE  Advances
<1>1. UNCHANGED <<setting, born, request, entitled, ring, heap, regs>>
  BY DEF gcvars
<1>2. Operand' = Operand
  BY RunFacts DEF Operand
<1>3. SameLists /\ SameRoots
  BY <1>1, <1>2, ListsStay, RootsStay
<1>4. VarTypes' /\ RingInv' /\ Regs' = Regs
  BY <1>1 DEF VarTypes, RingInv, TreadmillInv, Own, Regs
<1>5. OperandInv' /\ StoreInv' /\ FreeInv'
  BY <1>1, <1>3, <1>4 DEF OperandInv, StoreInv, FreeInv, SameRoots, Allocating
<1>6. RoomInv'
  BY <1>1, <1>3, HeadroomLeft DEF TreadmillInv, Own, RoomInv, SameLists, SameRoots
<1>7. [C!Next]_(C!vars)
  BY <1>1, <1>3, CollectorStays
<1>8. H!Begin("get_cell")
  BY <1>1, <1>3 DEF H!Begin, H!cells, SameLists
<1>9. QED
  BY <1>4, <1>5, <1>6, <1>7, <1>8 DEF Advances, Own, H!Next

(* _cons and mk_closure.                                                   *)
LEMMA ConsStep ==
  ASSUME TreadmillInv, Modest, NEW r \in Regs, NEW k \in [Fields -> Held], cons(r, k)
  PROVE  Advances
<1>1. k \in [Fields -> Cells] /\ k \in Seq(Cells) /\ r \in Nat
  <2>1. Held \in SUBSET Cells /\ r \in Nat
    BY RunFacts DEF cons
  <2>2. k \in [Fields -> Cells]
    BY <2>1
  <2>3. Fields = 1 .. Arity /\ Arity \in Nat
    BY TreadmillAssumption DEF Fields
  <2>4. QED
    BY <2>1, <2>2, <2>3
<1>2. op' = [NoOp EXCEPT !.dst = r, !.fill = k, !.todo = k] 
  BY DEF cons
<1>3. /\ op' \in OpType /\ op'.dst = r /\ op'.obj = Nil /\ op'.fill = k /\ op'.todo = k /\ op'.len = 0
  BY <1>1, <1>2, ConsFields
<1>4. Pending' = Range(k)
  BY <1>3 DEF Pending
<1>5. Pending' \subseteq Held /\ \A f \in Fields : op'.fill[f] \in {Nil} \cup Pending'
  BY <1>3, <1>4 DEF Range
<1>6. QED
  BY <1>3, <1>5, AllocationStarts DEF cons

(* mk_vector.                                                              *)
LEMMA MkVectorStep ==
  ASSUME TreadmillInv, Modest, NEW r \in Regs, NEW n \in setting.vecs, MkVector(r, n)
  PROVE  Advances
<1>1. r \in Nat /\ n \in Nat
  <2>1. setting \in Settings /\ r \in Nat
    BY RunFacts DEF MkVector
  <2>2. QED
    BY <2>1, TreadmillAssumption
<1> DEFINE t == <<Nil>>
<1>2. t \in Seq(Cells) /\ Range(t) = {Nil}
  BY TreadmillAssumption DEF Range
<1>3. op' = [NoOp EXCEPT !.dst = r, !.len = n, !.todo = t]
  BY DEF MkVector
<1> HIDE DEF t
<1>4. /\ op' \in OpType /\ op'.dst = r /\ op'.obj = Nil /\ op'.fill = Blank /\ op'.todo = t /\ op'.len = n
  BY <1>1, <1>2, <1>3, VectorFields
<1>5. Pending' = {Nil} /\ \A f \in Fields : op'.fill[f] = Nil
  BY <1>2, <1>4 DEF Pending, Blank
<1>6. Pending' \subseteq Held
  BY <1>5 DEF Held
<1>7. QED
  BY <1>1, <1>4, <1>5, <1>6, AllocationStarts DEF MkVector

(* A register is loaded.                                                   *)
LEMMA LoadStep ==
  ASSUME TreadmillInv, NEW r \in Regs, NEW c \in Held, NEW v \in {c} \cup Range(heap[c]), Load(r, v)
  PROVE  Advances
<1>1. /\ mpc = "run" /\ mpc' = "run" /\ regs' = [regs EXCEPT ![r] = v]
      /\ UNCHANGED <<setting, born, request, entitled, ring, heap, op, spc, mutex, flipActive, scannerFinished>>
  BY DEF Load, gcvars
<1>2. /\ op = NoOp /\ Operand = Nil /\ c \in Cells /\ Regs = 1 .. setting.regs
      /\ 0 \notin Regs /\ Regs \subseteq 0 .. NRegs
  BY <1>1, RunFacts
<1>3. heap[c] \in [Fields -> Cells]
  BY <1>2 DEF TreadmillInv, Own, VarTypes
<1>4. Range(heap[c]) = C!Kids(c)
  BY <1>3 DEF Range, C!Kids
<1>5. v \in Cells /\ v \in {c} \cup C!Kids(c)
  BY <1>2, <1>3, <1>4 DEF Range
<1>6. Operand' = Nil
  BY <1>1, <1>2, NoOpFields DEF Operand
<1>7. SameLists
  BY <1>1, ListsStay
<1>8. regs \in [Regs -> Cells]
  BY DEF TreadmillInv, Own, VarTypes, Regs
<1>9. regs' \in [Regs -> Cells] /\ Regs' = Regs
  BY <1>1, <1>5, <1>8 DEF Regs
<1>10. VarTypes' /\ RingInv'
  BY <1>1, <1>2, <1>9 DEF VarTypes, RingInv, TreadmillInv, Own
<1>11. OperandInv' /\ StoreInv' /\ FreeInv'
  BY <1>1, <1>2, <1>7 DEF OperandInv, StoreInv, FreeInv, Allocating
<1>12. RoomInv'
  BY <1>1, <1>7 DEF TreadmillInv, Own, RoomInv, SameLists
<1>13. C!Load
  <2>1. C!Roots = Held \cup {Nil}
    BY <1>2, InvFacts
  <2>2. ASSUME NEW s \in 0 .. NRegs
        PROVE  Registers'[s] \in C!Roots \cup C!Kids(c)
    <3>1. Registers'[s] = IF s \in Regs THEN regs'[s] ELSE Nil
      BY <1>6, <1>9 DEF Registers, Regs
    <3>2. CASE s \in Regs
      <4>1. regs'[s] = v \/ regs'[s] = regs[s]
        BY <3>2, <1>1, <1>8
      <4>2. QED
        BY <4>1, <3>1, <3>2, <2>1, <1>5 DEF Held
    <3>3. CASE s \notin Regs
      BY <3>1, <3>3, <2>1
    <3>4. QED
      BY <3>2, <3>3
  <2>3. Registers' \in [0 .. NRegs -> C!Roots \cup C!Kids(c)]
    BY <2>2 DEF Registers
  <2>4. QED
    BY <2>1, <2>3, <1>1, <1>7 DEF C!Load, C!Hold, SameLists
<1>14. UNCHANGED H!vars
  BY <1>1, <1>7 DEF H!vars, SameLists
<1>15. QED
  BY <1>10, <1>11, <1>12, <1>13, <1>14 DEF Advances, Own, C!Next

(* A store begins. The cell becomes an operand, which the collector sees   *)
(* as a load.                                                              *)
LEMMA StoreStep ==
  ASSUME TreadmillInv, Modest, NEW r \in Regs, NEW x \in Held, NEW f \in Fields, NEW v \in Held, Store(r, x, f, v)
  PROVE  Advances
<1> DEFINE k == [heap[x] EXCEPT ![f] = v]
           t == <<v>>
<1>1. /\ mpc = "run" /\ mpc' = "barrier"
      /\ UNCHANGED <<setting, born, request, entitled, ring, heap, regs, spc, mutex, flipActive, scannerFinished>>
      /\ Held \subseteq C!ReachFrom(Dark \cup {v}, [heap EXCEPT ![x][f] = v])
      /\ op' = [NoOp EXCEPT !.dst = r, !.obj = x, !.fill = k, !.todo = t]
  BY DEF Store, gcvars, Modest
<1>2. /\ op = NoOp /\ Operand = Nil /\ x \in Cells /\ v \in Cells /\ r \in Nat /\ Regs = 1 .. setting.regs
      /\ 0 \notin Regs /\ Regs \subseteq 0 .. NRegs
  BY <1>1, RunFacts
<1>3. heap \in [Cells -> [Fields -> Cells]] /\ heap[x] \in [Fields -> Cells]
  BY <1>2 DEF TreadmillInv, Own, VarTypes
<1>4. k \in [Fields -> Cells] /\ t \in Seq(Cells) /\ Range(t) = {v}
  BY <1>2, <1>3 DEF Range
<1>5. [heap EXCEPT ![x][f] = v] = [heap EXCEPT ![x] = k]
  BY <1>2, <1>3
<1>6. \A y \in Fields : k[y] = heap[x][y] \/ k[y] = v
  BY <1>3
<1> HIDE DEF k, t
<1>7. /\ op' \in OpType /\ op'.dst = r /\ op'.obj = x /\ op'.fill = k /\ op'.todo = t /\ op'.len = 0
  BY <1>1, <1>2, <1>4, StoreFields
<1>8. Pending' = {v}
  BY <1>7, <1>4 DEF Pending
<1>9. SameLists /\ Regs' = Regs /\ Held' = Held /\ Operand' = x
  BY <1>1, <1>7, ListsStay DEF Regs, Held, Operand
<1>10. VarTypes' /\ RingInv'
  BY <1>1, <1>7 DEF VarTypes, RingInv, TreadmillInv, Own
<1>11. OperandInv' /\ FreeInv'
  BY <1>1, <1>7, <1>8, <1>9 DEF OperandInv, FreeInv, Allocating
<1>12. StoreInv'
  <2>1. Shaded'
    BY <1>1, <1>6, <1>7, <1>8 DEF Shaded
  <2>2. Linked'
    <3>1. C!ReachFrom(Dark \cup {v}, [heap EXCEPT ![x] = k])
            = C!ReachFrom(Dark' \cup Pending', [heap' EXCEPT ![op'.obj] = op'.fill])
      BY <1>1, <1>7, <1>8, <1>9 DEF SameLists
    <3>2. Held' \subseteq C!ReachFrom(Dark' \cup Pending', [heap' EXCEPT ![op'.obj] = op'.fill])
      BY <3>1, <1>1, <1>5, <1>9
    <3>3. op'.obj \in Held'
      BY <1>7, <1>9
    <3>4. QED
      BY <3>2, <3>3 DEF Linked
  <2>3. QED
    BY <2>1, <2>2 DEF StoreInv
<1>13. RoomInv'
  BY <1>1, <1>9 DEF TreadmillInv, Own, RoomInv, SameLists
<1>14. C!Load
  <2>1. C!Roots = Held \cup {Nil}
    BY <1>2, InvFacts
  <2>2. ASSUME NEW s \in 0 .. NRegs
        PROVE  Registers'[s] \in C!Roots
    <3>1. Registers'[s] = IF s \in Regs THEN regs[s] ELSE IF s > 0 THEN Nil ELSE x
      BY <1>1, <1>9 DEF Registers, Regs
    <3>2. QED
      BY <3>1, <2>1 DEF Held
  <2>3. Registers' \in [0 .. NRegs -> C!Roots \cup C!Kids(x)]
    BY <2>2 DEF Registers
  <2>4. QED
    BY <2>1, <2>3, <1>1, <1>9 DEF C!Load, C!Hold, SameLists
<1>15. H!Begin("barrier")
  BY <1>1, <1>9 DEF H!Begin, H!cells, SameLists
<1>16. QED
  BY <1>10, <1>11, <1>12, <1>13, <1>14, <1>15 DEF Advances, Own, C!Next, H!Next

(* A list of one cell is linked in place to a cell that is dark already,   *)
(* which the collector sees as a store.                                    *)
LEMMA RelinkStep ==
  ASSUME TreadmillInv, Modest, NEW r \in Regs, NEW x \in Held, NEW v \in Held, Relink(r, x, v)
  PROVE  Advances
<1> DEFINE k == [heap[x] EXCEPT ![Cdr] = v]
           t == <<x>>
<1>1. /\ mpc = "run" /\ mpc' = "barrier" /\ heap[x][Cdr] = Nil /\ IsDark(v)
      /\ heap' = [heap EXCEPT ![x] = k]
      /\ UNCHANGED <<setting, born, request, entitled, ring, regs, spc, mutex, flipActive, scannerFinished>>
      /\ op' = [NoOp EXCEPT !.dst = r, !.obj = x, !.fill = k, !.todo = t]
  BY DEF Relink, gcvars, Modest
<1>2. /\ op = NoOp /\ Operand = Nil /\ x \in Cells /\ v \in Cells /\ r \in Nat /\ Regs = 1 .. setting.regs
      /\ 0 \notin Regs /\ Regs \subseteq 0 .. NRegs
  BY <1>1, RunFacts
<1>3. heap \in [Cells -> [Fields -> Cells]] /\ heap[x] \in [Fields -> Cells]
  BY <1>2 DEF TreadmillInv, Own, VarTypes
<1>4. k \in [Fields -> Cells] /\ t \in Seq(Cells) /\ Range(t) = {x}
  <2>1. k \in [Fields -> Cells]
    BY <1>2, <1>3
  <2>2. t \in Seq(Cells) /\ Range(t) = {x}
    BY <1>2 DEF Range
  <2>3. QED
    BY <2>1, <2>2
<1>5. \A f \in Fields : k[f] = heap[x][f] \/ (k[f] = v /\ heap[x][f] = Nil)
  BY <1>1, <1>3 DEF Cdr
<1> HIDE DEF k, t
<1>6. /\ op' \in OpType /\ op'.dst = r /\ op'.obj = x /\ op'.fill = k /\ op'.todo = t /\ op'.len = 0
  BY <1>1, <1>2, <1>4, StoreFields
<1>7. Pending' = {x}
  BY <1>6, <1>4 DEF Pending
<1>8. SameLists /\ Regs' = Regs /\ Held' = Held /\ Operand' = x
  BY <1>1, <1>6, ListsStay DEF Regs, Held, Operand
<1>9. heap' \in [Cells -> [Fields -> Cells]] /\ heap'[x] = k
  BY <1>1, <1>2, <1>3, <1>4
<1>10. VarTypes' /\ RingInv'
  BY <1>1, <1>6, <1>9 DEF VarTypes, RingInv, TreadmillInv, Own
<1>11. OperandInv' /\ FreeInv'
  BY <1>1, <1>6, <1>7, <1>8 DEF OperandInv, FreeInv, Allocating
<1>12. StoreInv'
  BY <1>6, <1>9 DEF StoreInv, Shaded, Linked
<1>13. RoomInv'
  BY <1>1, <1>8 DEF TreadmillInv, Own, RoomInv, SameLists
<1>14. C!Store
  <2>1. C!Roots = Held \cup {Nil} /\ C!Dark = Dark /\ x \in C!InUse /\ v \in C!InUse
    BY <1>2, InvFacts
  <2>2. v \in Dark
    BY <2>1, <1>1, InvFacts
  <2>3. \A f \in Fields : k[f] \in C!Roots \cap C!Dark \/ k[f] = heap[x][f]
    BY <2>1, <2>2, <1>5
  <2>4. k \in [Fields -> C!Roots \cup C!Kids(x)]
    BY <2>3, <1>4 DEF C!Kids
  <2>5. \A f \in Fields : heap[x][f] \in {Nil, k[f]}
    BY <1>5
  <2>6. ASSUME NEW s \in 0 .. NRegs
        PROVE  Registers'[s] \in C!Roots
    <3>1. Registers'[s] = IF s \in Regs THEN regs[s] ELSE IF s > 0 THEN Nil ELSE x
      BY <1>1, <1>8 DEF Registers, Regs
    <3>2. QED
      BY <3>1, <2>1 DEF Held
  <2>7. Registers' \in [0 .. NRegs -> C!Roots]
    BY <2>6 DEF Registers
  <2>8. UNCHANGED <<Whites, Ecrus, Greys, Blacks, entitled>>
    BY <1>1, <1>8 DEF SameLists
  <2>9. x \in C!Roots \cap C!InUse
    BY <2>1
  <2>10. QED
    BY <2>3, <2>4, <2>5, <2>7, <2>8, <2>9, <1>1 DEF C!Store, C!Hold
<1>15. H!Begin("barrier")
  BY <1>1, <1>8 DEF H!Begin, H!cells, SameLists
<1>16. QED
  BY <1>10, <1>11, <1>12, <1>13, <1>14, <1>15 DEF Advances, Own, C!Next, H!Next

(* A promise that is its own value is loaded: the copy changes nothing.    *)
LEMMA SaveForcedStep ==
  ASSUME TreadmillInv, Modest, NEW r \in Regs, NEW p \in Held, NEW v \in Held, SaveForced(r, p, v)
  PROVE  Advances
<1>1. /\ v = p /\ mpc = "run" /\ regs' = [regs EXCEPT ![r] = p]
      /\ ring' = [ring EXCEPT !.cw[p] = ring.cw[p], !.ccw[p] = ring.ccw[p],
                              !.colour[p] = ring.colour[p], !.lc[p] = ring.lc[p]]
      /\ heap' = [heap EXCEPT ![p] = heap[p]]
      /\ UNCHANGED <<gcvars, mpc, op, spc, mutex, flipActive, scannerFinished>>
  BY DEF SaveForced, Modest
<1>2. p \in Cells /\ heap \in [Cells -> [Fields -> Cells]]
  BY <1>1, RunFacts DEF TreadmillInv, Own, VarTypes
<1>3. heap' = heap
  BY <1>1, <1>2
<1>4. ring \in RingType
  BY DEF TreadmillInv, Own, RingInv, Ring
<1>5. ring' = ring
  <2>1. /\ [ring.cw EXCEPT ![p] = ring.cw[p]] = ring.cw
        /\ [ring.ccw EXCEPT ![p] = ring.ccw[p]] = ring.ccw
        /\ [ring.colour EXCEPT ![p] = ring.colour[p]] = ring.colour
        /\ [ring.lc EXCEPT ![p] = ring.lc[p]] = ring.lc
    BY <1>4, <1>2 DEF RingType
  <2>2. ring' = [ring EXCEPT !.cw = ring.cw, !.ccw = ring.ccw,
                             !.colour = ring.colour, !.lc = ring.lc]
    BY <1>1, <2>1
  <2>3. QED
    BY <2>2, <1>4 DEF RingType
<1>6. Load(r, p)
  BY <1>1, <1>3, <1>5 DEF Load
<1>7. QED
  BY <1>6, LoadStep

(* More roots reach more.                                                  *)
LEMMA ReachMonotone ==
  ASSUME NEW R, NEW S, R \subseteq S, NEW h
  PROVE  C!ReachFrom(R, h) \subseteq C!ReachFrom(S, h)
BY DEF C!ReachFrom

(* Shading keeps what StoreInv says.                                       *)
LEMMA StoreKept ==
  ASSUME Shaded, Linked, UNCHANGED heap, op'.obj = op.obj, op'.fill = op.fill, Held' = Held,
         Dark \subseteq Dark', Pending \subseteq Pending' \cup (Dark' \cap Held)
  PROVE  Shaded' /\ Linked'
<1>1. Shaded'
  BY DEF Shaded
<1>2. CASE \A f \in Fields : heap[op.obj][f] \in {Nil, op.fill[f]}
  BY <1>1, <1>2 DEF Linked
<1>3. CASE /\ op.obj \in Held
           /\ Held \subseteq C!ReachFrom(Dark \cup Pending, [heap EXCEPT ![op.obj] = op.fill])
  <2> DEFINE h == [heap EXCEPT ![op.obj] = op.fill]
  <2>1. h = [heap' EXCEPT ![op'.obj] = op'.fill]
    OBVIOUS
  <2> HIDE DEF h
  <2>2. C!ReachFrom(Dark \cup Pending, h) \subseteq C!ReachFrom(Dark' \cup Pending', h)
    BY ReachMonotone
  <2>3. Held \subseteq C!ReachFrom(Dark \cup Pending, h)
    BY <1>3 DEF h
  <2>4. Held' \subseteq C!ReachFrom(Dark' \cup Pending', [heap' EXCEPT ![op'.obj] = op'.fill])
    BY <2>1, <2>2, <2>3
  <2>5. QED
    BY <1>1, <1>3, <2>4 DEF Linked
<1>4. QED
  BY <1>2, <1>3 DEF Linked

(* A barrier on a dark cell.                                               *)
LEMMA BarrierDarkStep ==
  ASSUME TreadmillInv, BarrierDark
  PROVE  Advances
<1>1. /\ mpc = "barrier" /\ mpc' = "barrier" /\ op.todo # <<>> /\ IsDark(Head(op.todo))
      /\ UNCHANGED <<setting, born, request, entitled, ring, heap, regs, spc, mutex, flipActive, scannerFinished>>
      /\ op \in OpType /\ TailTaken
  BY DEF BarrierDark, gcvars, TailTaken, TreadmillInv, Own, VarTypes
<1>2. /\ op' \in OpType /\ op'.obj = op.obj /\ op'.dst = op.dst /\ op'.fill = op.fill /\ op'.len = op.len
      /\ Pending' = Range(Tail(op.todo))
  BY <1>1, TailFields
<1>3. Pending \subseteq Held
  BY <1>1 DEF TreadmillInv, Own, OperandInv
<1>4. Head(op.todo) \in Dark \cap Held
  BY <1>1, <1>3, TodoHead, InvFacts
<1>5. Operand' = Operand
  BY <1>1, <1>2 DEF Operand
<1>6. SameLists /\ SameRoots /\ Regs' = Regs
  BY <1>1, <1>5, ListsStay, RootsStay DEF Regs
<1>7. Pending' \subseteq Pending /\ Pending \subseteq Pending' \cup (Dark' \cap Held)
  BY <1>1, <1>2, <1>4, <1>6, TodoHead DEF SameLists
<1>8. VarTypes' /\ RingInv'
  BY <1>1, <1>2 DEF VarTypes, RingInv, TreadmillInv, Own
<1>9. OperandInv' /\ FreeInv'
  BY <1>1, <1>2, <1>3, <1>6, <1>7 DEF TreadmillInv, Own, OperandInv, FreeInv, SameRoots, Allocating
<1>10. StoreInv'
  <2>1. Shaded /\ Linked
    BY <1>1 DEF TreadmillInv, Own, StoreInv
  <2>2. Shaded' /\ Linked'
    BY <2>1, <1>1, <1>2, <1>6, <1>7, StoreKept DEF SameLists, SameRoots
  <2>3. QED
    BY <2>2 DEF StoreInv
<1>11. RoomInv'
  BY <1>1, <1>6 DEF TreadmillInv, Own, RoomInv, SameLists
<1>12. [C!Next]_(C!vars)
  BY <1>1, <1>6, CollectorStays
<1>13. UNCHANGED H!vars
  BY <1>1, <1>6 DEF H!vars, SameLists
<1>14. QED
  BY <1>8, <1>9, <1>10, <1>11, <1>12, <1>13 DEF Advances, Own

(* The end of a flip.                                                      *)
LEMMA EndFlipStep ==
  ASSUME TreadmillInv, EndFlip
  PROVE  Advances
<1>1. /\ mpc = "marked" /\ mpc' = "signal" /\ ring' = [ring EXCEPT !.inserts = 0] /\ flipActive' = FALSE
      /\ UNCHANGED <<setting, born, request, entitled, heap, regs, op, spc, mutex, scannerFinished>>
  BY DEF EndFlip, gcvars
<1>2. PICK n, q, w, e, g : Ring(ring, born, n, q, w, e, g)
  BY DEF TreadmillInv, Own, RingInv
<1>3. /\ ring' \in RingType /\ ring'.cw = ring.cw /\ ring'.ccw = ring.ccw /\ ring'.colour = ring.colour
      /\ ring'.lc = ring.lc /\ ring'.dark = ring.dark /\ ring'.free = ring.free
      /\ ring'.bottom = ring.bottom /\ ring'.top = ring.top /\ ring'.scan = ring.scan
  <2>1. ring \in RingType
    BY <1>2 DEF Ring
  <2>2. QED
    BY <2>1, <1>1 DEF RingType
<1>4. Ring(ring', born', n, q, w, e, g)
  <2>1. Chain(ring', born', n, q)
    BY <1>1, <1>2, <1>3 DEF Ring, Chain
  <2>2. Parts(ring', n, q, w, e, g)
    BY <1>2, <1>3 DEF Ring, Parts
  <2>3. Coloured(ring', born')
    BY <1>1, <1>2, <1>3 DEF Ring, Coloured
  <2>4. QED
    BY <2>1, <2>2, <2>3, <1>3 DEF Ring
<1>5. Operand' = Operand
  BY <1>1 DEF Operand
<1>6. SameLists /\ SameRoots /\ Regs' = Regs /\ Pending' = Pending
  BY <1>1, <1>3, <1>5, ListsStay, RootsStay DEF Regs, Pending
<1>7. VarTypes' /\ RingInv'
  <2>1. RingInv'
    BY <1>4 DEF RingInv
  <2>2. QED
    BY <2>1, <1>1 DEF VarTypes, TreadmillInv, Own
<1>8. OperandInv' /\ StoreInv' /\ FreeInv' /\ RoomInv'
  BY <1>1, <1>3, <1>6
  DEF TreadmillInv, Own, OperandInv, StoreInv, FreeInv, RoomInv, SameLists, SameRoots, Allocating
<1>9. [C!Next]_(C!vars)
  BY <1>1, <1>6, CollectorStays
<1>10. H!EndFlip
  BY <1>1, <1>6 DEF H!EndFlip, H!cells, SameLists
<1>11. QED
  BY <1>7, <1>8, <1>9, <1>10 DEF Advances, Own, H!Next, H!Mutator

(* The lists after shading,                                                *)
LEMMA ShadedLists ==
  ASSUME TreadmillInv, born' = born, NEW P, ring'.lc = Greyed(ring.lc, P)
  PROVE  /\ Whites' = Whites /\ Ecrus' = Ecrus \ P /\ Greys' = Greys \cup (Ecrus \cap P)
         /\ Blacks' = Blacks /\ Dark \subseteq Dark'
<1>1. born \in SUBSET Cells
  BY InvFacts
<1>2. \A c \in born : ring'.lc[c] = IF c \in P /\ ring.lc[c] = Ecru THEN Grey ELSE ring.lc[c]
  BY <1>1 DEF Greyed
<1>3. /\ Whites' = Whites /\ Ecrus' = Ecrus \ P /\ Greys' = Greys \cup (Ecrus \cap P) /\ Blacks' = Blacks
  BY <1>2 DEF Whites, Ecrus, Greys, Blacks, White, Ecru, Grey, Black
<1>4. QED
  BY <1>3 DEF Dark

(* and how many cells each has.                                            *)
LEMMA EcruSizes ==
  ASSUME TreadmillInv, NEW P
  PROVE  /\ Cardinality(Ecrus \ P) = Cardinality(Ecrus) - Cardinality(Ecrus \cap P)
         /\ Cardinality(Greys \cup (Ecrus \cap P)) = Cardinality(Greys) + Cardinality(Ecrus \cap P)
         /\ Cardinality(Ecrus \cap P) \in 0 .. Cardinality(Ecrus)
         /\ IsFiniteSet(Ecrus \cap P)
<1>1. /\ IsFiniteSet(Ecrus) /\ IsFiniteSet(Greys) /\ Greys \cap Ecrus = {}
      /\ Cardinality(Ecrus) \in Nat /\ Cardinality(Greys) \in Nat
  <2>1. born \in SUBSET Cells /\ RingInv
    BY DEF TreadmillInv, Own, VarTypes
  <2>2. QED
    BY <2>1, ListTypes DEF Greys, Ecrus, Ecru, Grey
<1> DEFINE S == Ecrus \cap P
           T == Ecrus \ P
<1>2. IsFiniteSet(S) /\ IsFiniteSet(T)
  BY <1>1, FS_Subset
<1>3. Cardinality(S) \in Nat /\ Cardinality(T) \in Nat
  BY <1>2, FS_CardinalityType
<1>4. S \cup T = Ecrus /\ S \cap T = {} /\ Greys \cap S = {}
  BY <1>1
<1> HIDE DEF S, T
<1>5. Cardinality({}) = 0
  BY FS_EmptySet
<1>6. Cardinality(Ecrus) = Cardinality(S) + Cardinality(T)
  <2>1. Cardinality(S \cup T) = Cardinality(S) + Cardinality(T) - Cardinality(S \cap T)
    BY <1>2, FS_Union
  <2>2. Cardinality(S \cap T) = 0 /\ Cardinality(S \cup T) = Cardinality(Ecrus)
    BY <1>4, <1>5, Zenon
  <2>3. QED
    BY <2>1, <2>2, <1>3
<1>7. Cardinality(Greys \cup S) = Cardinality(Greys) + Cardinality(S)
  <2>1. Cardinality(Greys \cup S) = Cardinality(Greys) + Cardinality(S) - Cardinality(Greys \cap S)
    BY <1>1, <1>2, FS_Union
  <2>2. Cardinality(Greys \cap S) = 0
    BY <1>4, <1>5, Zenon
  <2>3. QED
    BY <2>1, <2>2, <1>1, <1>3
<1>8. QED
  BY <1>1, <1>2, <1>3, <1>6, <1>7 DEF S, T

-----------------------------------------------------------------------------
(* Steps that move cells. *)

(* Shading cells in use keeps the treadmill well formed: the ecru cell     *)
(* that is garbage is not among them.                                      *)
LEMMA Shading ==
  ASSUME TreadmillInv, NEW n, NEW q, NEW w, NEW e, NEW g, Ring(ring, born, n, q, w, e, g),
         NEW ps \in Seq(Cells), Elements(ps) \subseteq C!InUse, Elements(ps) \subseteq entitled
  PROVE  /\ ShadesRing(insert_all(ring, ps), ring, born, n, w, e, g, Elements(ps))
         /\ \E d \in Ecrus \ Elements(ps) : d \notin entitled
<1>1. born \in SUBSET Cells /\ C!InUse \subseteq born /\ C!InUse \cap Whites = {}
  BY InvFacts
<1>2. \A i \in 1 .. Len(ps) : ps[i] \in C!InUse /\ ps[i] \in entitled
  BY DEF Elements
<1>3. ps \in Seq(born)
  BY <1>1, <1>2
<1>4. \A i \in 1 .. Len(ps) : ring.lc[ps[i]] # White
  BY <1>1, <1>2 DEF Whites
<1>5. PICK d \in Ecrus : d \notin entitled
  BY DEF TreadmillInv, Own, RoomInv
<1>6. d \in born /\ ring.lc[d] = Ecru /\ \A i \in 1 .. Len(ps) : ps[i] # d
  BY <1>2, <1>5 DEF Ecrus
<1>7. \E d1 \in born : ring.lc[d1] = Ecru /\ \A i \in 1 .. Len(ps) : ps[i] # d1
  BY <1>6
<1>8. ShadesRing(insert_all(ring, ps), ring, born, n, w, e, g, Elements(ps))
  BY <1>1, <1>3, <1>4, <1>7, InsertAllMoves
<1>9. d \in Ecrus \ Elements(ps)
  BY <1>5, <1>6 DEF Elements
<1>10. QED
  BY <1>5, <1>8, <1>9

(* insert_treadmill is insert_all of one cell.                             *)
LEMMA InsertOne ==
  ASSUME NEW r \in RingType, NEW p \in Cells
  PROVE  insert_all(r, <<p>>) = insert_treadmill(r, p) /\ Elements(<<p>>) = {p} /\ <<p>> \in Seq(Cells)
<1> DEFINE ps == <<p>>
<1>1. ps \in Seq(Cells) /\ Len(ps) = 1 /\ ps[1] = p
  OBVIOUS
<1>2. Elements(ps) = {p}
  BY <1>1 DEF Elements
<1> HIDE DEF ps
<1>3. PICK v : /\ insert_all(r, ps) = v[Len(ps)] /\ v[0] = r
               /\ \A i \in 1 .. Len(ps) : v[i] = insert_treadmill(v[i - 1], ps[i])
  BY <1>1, InsertAllSteps
<1>4. v[1] = insert_treadmill(v[1 - 1], ps[1])
  BY <1>1, <1>3
<1>5. insert_all(r, ps) = insert_treadmill(r, p)
  BY <1>1, <1>3, <1>4
<1>6. QED
  BY <1>1, <1>2, <1>5 DEF ps

(* A barrier with the mutex.                                               *)
LEMMA InsertStep ==
  ASSUME TreadmillInv, Insert
  PROVE  Advances
<1> DEFINE p == Head(op.todo)
<1>1. /\ mpc = "lock" /\ mpc' = "barrier" /\ ~mutex /\ op.todo # <<>> /\ ring' = insert_treadmill(ring, p)
      /\ UNCHANGED <<setting, born, request, entitled, heap, regs, spc, mutex, flipActive, scannerFinished>>
      /\ op \in OpType /\ TailTaken
  BY DEF Insert, gcvars, TailTaken, TreadmillInv, Own, VarTypes, OperandInv
<1>2. /\ op' \in OpType /\ op'.obj = op.obj /\ op'.dst = op.dst /\ op'.fill = op.fill /\ op'.len = op.len
      /\ Pending' = Range(Tail(op.todo))
  BY <1>1, TailFields
<1>3. Pending \subseteq Held
  BY <1>1 DEF TreadmillInv, Own, OperandInv
<1>4. p \in Pending /\ p \in Cells /\ Pending' \subseteq Pending /\ Pending \subseteq {p} \cup Pending'
  BY <1>1, <1>2, TodoHead
<1> HIDE DEF p
<1>5. PICK n, q, w, e, g : Ring(ring, born, n, q, w, e, g)
  BY DEF TreadmillInv, Own, RingInv
<1>6. /\ insert_all(ring, <<p>>) = ring' /\ Elements(<<p>>) = {p} /\ <<p>> \in Seq(Cells)
  BY <1>1, <1>4, <1>5, InsertOne DEF Ring
<1>7. p \in C!InUse /\ p \in entitled /\ p \in Held
  BY <1>3, <1>4, InvFacts
<1>8. ShadesRing(ring', ring, born, n, w, e, g, {p}) /\ \E d \in Ecrus \ {p} : d \notin entitled
  <2>1. Elements(<<p>>) \subseteq C!InUse /\ Elements(<<p>>) \subseteq entitled
    BY <1>6, <1>7
  <2>2. /\ ShadesRing(insert_all(ring, <<p>>), ring, born, n, w, e, g, Elements(<<p>>))
        /\ \E d \in Ecrus \ Elements(<<p>>) : d \notin entitled
    BY <2>1, <1>5, <1>6, Shading
  <2>3. QED
    BY <2>2, <1>6
<1>9. /\ Whites' = Whites /\ Ecrus' = Ecrus \ {p} /\ Greys' = Greys \cup (Ecrus \cap {p})
      /\ Blacks' = Blacks /\ Dark \subseteq Dark'
  <2>1. ring'.lc = Greyed(ring.lc, {p})
    BY <1>8 DEF ShadesRing
  <2>2. QED
    BY <2>1, <1>1, ShadedLists
<1>10. RingInv'
  BY <1>1, <1>8 DEF ShadesRing, RingInv
<1>11. Operand' = Operand
  BY <1>1, <1>2 DEF Operand
<1>12. SameRoots /\ Regs' = Regs
  BY <1>1, <1>11, RootsStay DEF Regs
<1>13. p \in Dark'
  BY <1>7, <1>9, InvFacts DEF Dark
<1>14. VarTypes'
  BY <1>1, <1>2 DEF VarTypes, TreadmillInv, Own
<1>15. OperandInv' /\ FreeInv'
  BY <1>1, <1>2, <1>3, <1>4, <1>12 DEF TreadmillInv, Own, OperandInv, FreeInv, SameRoots, Allocating
<1>16. StoreInv'
  <2>1. Shaded /\ Linked
    BY <1>1 DEF TreadmillInv, Own, StoreInv
  <2>2. Pending \subseteq Pending' \cup (Dark' \cap Held)
    BY <1>4, <1>7, <1>13
  <2>3. Shaded' /\ Linked'
    BY <2>1, <2>2, <1>1, <1>2, <1>9, <1>12, StoreKept DEF SameRoots
  <2>4. QED
    BY <2>3 DEF StoreInv
<1>17. RoomInv'
  BY <1>1, <1>8, <1>9 DEF RoomInv
<1>18. [C!Next]_(C!vars)
  <2>1. CASE p \in Ecrus
    <3>1. p \in C!Roots
      BY <1>7, InvFacts
    <3>2. C!Shade
      BY <3>1, <2>1, <1>1, <1>9, <1>12 DEF C!Shade, SameRoots
    <3>3. QED
      BY <3>2 DEF C!Next
  <2>2. CASE p \notin Ecrus
    <3>1. Ecrus' = Ecrus /\ Greys' = Greys
      BY <2>2, <1>9
    <3>2. UNCHANGED C!vars
      BY <3>1, <1>1, <1>9, <1>12 DEF C!vars, SameRoots
    <3>3. QED
      BY <3>2
  <2>3. QED
    BY <2>1, <2>2
<1>19. H!Insert
  <2>1. CASE p \in Ecrus
    <3>1. Ecrus \cap {p} = {p}
      BY <2>1
    <3>2. Cardinality(Ecrus \cap {p}) = 1
      BY <3>1, FS_Singleton, Zenon
    <3>3. Cardinality(Ecrus') = Cardinality(Ecrus) - 1 /\ Cardinality(Greys') = Cardinality(Greys) + 1
      <4>1. /\ Cardinality(Ecrus \ {p}) = Cardinality(Ecrus) - Cardinality(Ecrus \cap {p})
            /\ Cardinality(Greys \cup (Ecrus \cap {p})) = Cardinality(Greys) + Cardinality(Ecrus \cap {p})
        BY EcruSizes
      <4>2. /\ Cardinality(Ecrus') = Cardinality(Ecrus) - Cardinality(Ecrus \cap {p})
            /\ Cardinality(Greys') = Cardinality(Greys) + Cardinality(Ecrus \cap {p})
        BY <4>1, <1>9, Zenon
      <4>3. QED
        BY <4>2, <3>2, Zenon
    <3>4. Cardinality(Ecrus) > 0 /\ Cardinality(Whites') = Cardinality(Whites)
      BY ListSizes, <1>9
    <3>5. QED
      BY <3>3, <3>4, <1>1 DEF H!Insert
  <2>2. CASE p \notin Ecrus
    <3>1. Ecrus' = Ecrus /\ Greys' = Greys
      BY <2>2, <1>9
    <3>2. QED
      BY <3>1, <1>1, <1>9 DEF H!Insert
  <2>3. QED
    BY <2>1, <2>2
<1>20. QED
  BY <1>10, <1>14, <1>15, <1>16, <1>17, <1>18, <1>19 DEF Advances, Own, H!Next, H!Mutator

(* get_cell takes the cell it has read. It is white still, because the     *)
(* scanner does not run in between.                                        *)
LEMMA TakeWriteStep ==
  ASSUME TreadmillInv, TakeWrite
  PROVE  Advances
<1> DEFINE z == ring.free
<1>1. /\ mpc = "take_write" /\ mpc' = "barrier" /\ op \in OpType
      /\ op.obj = z /\ op.next = ring.cw[z] /\ op' = [op EXCEPT !.next = Nil]
      /\ ring' = [ring EXCEPT !.free = ring.cw[ring.free], !.colour[ring.free] = ring.dark,
                              !.lc[ring.free] = Black]
      /\ heap' = [heap EXCEPT ![z] = Blank] /\ entitled' = entitled \cup {z} /\ request' = request + op.len
      /\ UNCHANGED <<setting, born, regs, spc, mutex, flipActive, scannerFinished>>
  BY DEF TakeWrite, TreadmillInv, Own, VarTypes, OperandInv
<1>2. PICK n, q, w, e, g : Ring(ring, born, n, q, w, e, g)
  BY DEF TreadmillInv, Own, RingInv
<1>3. born \in SUBSET Cells /\ Whites # {}
  BY <1>1, InvFacts DEF TreadmillInv, Own, FreeInv
<1>4. w >= 1
  <2>0. Lists(ring, born, n, q, w, e, g)
    BY <1>2, <1>3, RingListed
  <2>1. Whites = Segment(q, 1, w)
    BY <2>0 DEF Lists, Whites
  <2>2. w \in Nat
    BY <1>2 DEF Ring, Parts
  <2>3. QED
    BY <2>1, <2>2, <1>3, SegmentEmpty
<1>5. /\ \E x : Ring(ring', born, n, x, w - 1, e, g)
      /\ z \in born /\ ring.lc[z] = White
      /\ ring'.lc = [ring.lc EXCEPT ![z] = Black]
  <2>1. Taken(ring', ring, born, n, w, e, g)
    BY <1>1, <1>2, <1>3, <1>4, TakeRing
  <2>2. QED
    BY <2>1 DEF Taken
<1>6. RingInv'
  BY <1>1, <1>5 DEF RingInv
<1>7. z \in Cells /\ z \in Whites
  BY <1>3, <1>5 DEF Whites
<1> HIDE DEF z
<1>8. Whites' = Whites \ {z} /\ Ecrus' = Ecrus /\ Greys' = Greys /\ Blacks' = Blacks \cup {z}
  <2>1. \A c \in born : ring'.lc[c] = IF c = z THEN Black ELSE ring.lc[c]
    <3>1. ring.lc \in [Cells -> 0 .. 3]
      BY <1>2 DEF Ring, RingType
    <3>2. QED
      BY <3>1, <1>3, <1>5
  <2>2. QED
    BY <2>1, <1>1, <1>5 DEF Whites, Ecrus, Greys, Blacks, White, Ecru, Grey, Black
<1>9. Dark' = Dark \cup {z}
  BY <1>8 DEF Dark
<1>10. /\ op' \in OpType /\ op'.obj = z /\ op'.dst = op.dst /\ op'.fill = op.fill /\ op'.todo = op.todo
       /\ op'.len = op.len
  BY <1>1, TreadmillAssumption DEF OpType
<1>11. Pending' = Pending /\ Regs' = Regs /\ Held' = Held /\ Operand = Nil /\ Operand' = z
  BY <1>1, <1>10 DEF Pending, Regs, Held, Operand
<1>12. /\ op.dst \in Regs /\ Pending \subseteq Held
       /\ \A f \in Fields : op.fill[f] \in {Nil} \cup Pending
  BY <1>1 DEF TreadmillInv, Own, OperandInv
<1>13. VarTypes'
  <2>1. heap' \in [Cells -> [Fields -> Cells]]
    BY <1>1, NoOpFields DEF TreadmillInv, Own, VarTypes
  <2>2. request' \in Int /\ request' >= -1
    <3>1. request \in Int /\ request >= -1 /\ op.len \in Nat
      BY DEF TreadmillInv, Own, VarTypes, OpType
    <3>2. QED
      BY <3>1, <1>1
  <2>3. QED
    BY <2>1, <2>2, <1>1, <1>10 DEF TreadmillInv, Own, VarTypes
<1>14. OperandInv' /\ FreeInv'
  BY <1>1, <1>10, <1>11, <1>12 DEF OperandInv, FreeInv, Allocating
<1>15. StoreInv'
  <2>1. Shaded'
    BY <1>10, <1>11, <1>12 DEF Shaded
  <2>2. \A f \in Fields : heap'[z][f] = Nil
    BY <1>1, <1>7 DEF Blank, TreadmillInv, Own, VarTypes
  <2>3. Linked'
    BY <2>2, <1>10 DEF Linked
  <2>4. QED
    BY <2>1, <2>3 DEF StoreInv
<1>16. RoomInv'
  <2>1. PICK d \in Ecrus : d \notin entitled
    BY DEF TreadmillInv, Own, RoomInv
  <2>2. d # z
    BY <2>1, <1>5 DEF Ecrus, Ecru, White
  <2>3. \E d1 \in Ecrus' : d1 \notin entitled'
    BY <2>1, <2>2, <1>1, <1>8
  <2>4. QED
    BY <2>3, <1>1 DEF RoomInv
<1>17. C!Alloc
  <2>1. C!Roots = Held \cup {Nil}
    BY <1>11, InvFacts
  <2>2. ASSUME NEW s \in 0 .. NRegs
        PROVE  Registers'[s] \in C!Roots \cup {z}
    <3>1. Registers'[s] = IF s \in Regs THEN regs[s] ELSE IF s > 0 THEN Nil ELSE z
      BY <1>1, <1>11 DEF Registers, Regs
    <3>2. QED
      BY <3>1, <2>1 DEF Held
  <2>3. Registers' \in [0 .. NRegs -> C!Roots \cup {z}]
    BY <2>2 DEF Registers
  <2>4. heap' = [heap EXCEPT ![z] = C!Blank]
    BY <1>1 DEF Blank, C!Blank
  <2>5. mpc # "mark" /\ mpc' # "mark"
    BY <1>1
  <2>6. QED
    BY <2>3, <2>4, <2>5, <1>1, <1>7, <1>8 DEF C!Alloc, C!Hold
<1>18. H!Take
  <2>1. Cardinality(Whites') = Cardinality(Whites) - 1
    <3>1. IsFiniteSet(Whites)
      BY <1>3, ListTypes DEF TreadmillInv, Own
    <3>2. Cardinality(Whites \ {z}) = Cardinality(Whites) - 1
      BY <3>1, <1>7, FS_RemoveElement
    <3>3. QED
      BY <3>2, <1>8, Zenon
  <2>2. Cardinality(Whites) > 0
    BY <1>3, ListSizes
  <2>3. QED
    BY <2>1, <2>2, <1>1, <1>8 DEF H!Take
<1>19. QED
  BY <1>6, <1>13, <1>14, <1>15, <1>16, <1>17, <1>18 DEF Advances, Own, C!Next, H!Next, H!Mutator

(* The fields are written: what is new in them is dark, as the collector   *)
(* wants.                                                                  *)
LEMMA WriteStep ==
  ASSUME TreadmillInv, Write
  PROVE  Advances
<1>1. /\ mpc = "barrier" /\ mpc' = "run" /\ op.todo = <<>> /\ op' = NoOp
      /\ heap' = [heap EXCEPT ![op.obj] = op.fill] /\ regs' = [regs EXCEPT ![op.dst] = op.obj]
      /\ UNCHANGED <<setting, born, request, entitled, ring, spc, mutex, flipActive, scannerFinished>>
  BY DEF Write, gcvars
<1>2. /\ op.dst \in Regs /\ op.obj \in Cells /\ op.fill \in [Fields -> Cells] /\ Shaded /\ Linked
      /\ regs \in [Regs -> Cells] /\ Regs = 1 .. setting.regs /\ setting \in Settings
      /\ heap \in [Cells -> [Fields -> Cells]]
  BY <1>1 DEF TreadmillInv, Own, OperandInv, StoreInv, VarTypes, OpType, Regs
<1>3. 0 \notin Regs
  <2>1. setting.regs \in Nat
    BY <1>2, TreadmillAssumption
  <2>2. QED
    BY <2>1, <1>2
<1>4. Pending = {}
  BY <1>1 DEF Pending, Range
<1>5. C!Roots = Held \cup {op.obj}
  BY <1>1, InvFacts DEF Operand
<1>6. SameLists
  BY <1>1, ListsStay
<1>7. regs' \in [Regs -> Cells] /\ Regs' = Regs /\ Operand' = Nil
  BY <1>1, <1>2, NoOpFields DEF Regs, Operand
<1>8. VarTypes' /\ RingInv'
  <2>1. heap' \in [Cells -> [Fields -> Cells]]
    BY <1>1, <1>2
  <2>2. QED
    BY <2>1, <1>1, <1>2, <1>7, NoOpFields DEF TreadmillInv, Own, VarTypes, RingInv
<1>9. OperandInv' /\ StoreInv' /\ FreeInv'
  BY <1>1 DEF OperandInv, StoreInv, FreeInv, Allocating
<1>10. RoomInv'
  BY <1>1, <1>6 DEF TreadmillInv, Own, RoomInv, SameLists
<1>11. C!Store
  <2>1. C!Dark = Dark /\ op.obj \in C!InUse /\ Nil \in Dark /\ Nil \in C!Roots
    BY <1>1, <1>5, InvFacts DEF Held
  <2>2. \A f \in Fields : op.fill[f] \in C!Roots \cap C!Dark \/ op.fill[f] = heap[op.obj][f]
    BY <2>1, <1>2, <1>4, <1>5 DEF Shaded
  <2>3. op.fill \in [Fields -> C!Roots \cup C!Kids(op.obj)]
    BY <2>2, <1>2 DEF C!Kids
  <2>4. \/ \A f \in Fields : heap[op.obj][f] \in {Nil, op.fill[f]}
        \/ C!Anchored(heap')
    <3>1. CASE /\ op.obj \in Held
               /\ Held \subseteq C!ReachFrom(Dark \cup Pending, [heap EXCEPT ![op.obj] = op.fill])
      <4>1. C!Roots \subseteq C!ReachFrom(Dark, heap')
        BY <3>1, <1>1, <1>4, <1>5
      <4>2. C!Anchored(heap')
        BY <4>1, <2>1 DEF C!Anchored, C!ReachFrom
      <4>3. QED
        BY <4>2
    <3>2. QED
      BY <3>1, <1>2 DEF Linked
  <2>5. ASSUME NEW s \in 0 .. NRegs
        PROVE  Registers'[s] \in C!Roots
    <3>1. Registers'[s] = IF s \in Regs THEN regs'[s] ELSE Nil
      BY <1>7 DEF Registers, Regs
    <3>2. s \in Regs => regs'[s] = op.obj \/ regs'[s] = regs[s]
      BY <1>1, <1>2
    <3>3. QED
      BY <3>1, <3>2, <2>1, <1>5 DEF Held
  <2>6. Registers' \in [0 .. NRegs -> C!Roots]
    BY <2>5 DEF Registers
  <2>7. op.obj \in C!Roots \cap C!InUse
    BY <2>1, <1>5
  <2>8. UNCHANGED <<Whites, Ecrus, Greys, Blacks, entitled>>
    BY <1>1, <1>6 DEF SameLists
  <2>9. QED
    BY <2>2, <2>3, <2>4, <2>6, <2>7, <2>8, <1>1 DEF C!Store, C!Hold
<1>12. H!Write
  BY <1>1, <1>6 DEF H!Write, H!cells, SameLists
<1>13. QED
  BY <1>8, <1>9, <1>10, <1>11, <1>12 DEF Advances, Own, C!Next, H!Next, H!Mutator

(* treadmill_mark_roots inserts every register, sc->NIL and the operands.  *)
LEMMA RootElements ==
  ASSUME TreadmillInv
  PROVE  RootSeq({}) \in Seq(Cells) /\ Elements(RootSeq({})) = Held \cup Pending
<1> DEFINE m == setting.regs
           t == op.todo
           l == Len(t)
           s == regs \o <<Nil>>
<1>1. /\ m \in Nat /\ Nil \in Cells /\ regs \in [1 .. m -> Cells] /\ t \in Seq(Cells)
  <2>1. setting \in Settings
    BY DEF TreadmillInv, Own, VarTypes
  <2>2. QED
    BY <2>1, TreadmillAssumption DEF TreadmillInv, Own, VarTypes, OpType
<1>2. regs \in Seq(Cells) /\ Len(regs) = m /\ l \in Nat
  BY <1>1
<1> HIDE DEF m
<1>3. /\ s \in Seq(Cells) /\ Len(s) = m + 1 /\ s[m + 1] = Nil
      /\ \A i \in 1 .. m : s[i] = regs[i]
  BY <1>1, <1>2
<1> HIDE DEF s, t
<1>4. /\ s \o t \in Seq(Cells) /\ Len(s \o t) = m + 1 + l
      /\ \A i \in 1 .. m + 1 : (s \o t)[i] = s[i]
      /\ \A i \in 1 .. l : (s \o t)[m + 1 + i] = t[i]
  BY <1>1, <1>2, <1>3
<1>5. RootSeq({}) = s \o t
  <2>1. [r \in Regs |-> IF r \in {} THEN Nil ELSE regs[r]] = regs
    BY <1>1 DEF Regs
  <2>2. QED
    BY <2>1 DEF RootSeq, s, t
<1>6. Regs = 1 .. m
  BY <1>1 DEF Regs
<1>7. Held \cup Pending = {Nil} \cup {regs[i] : i \in 1 .. m} \cup {t[i] : i \in 1 .. l}
  BY <1>1, <1>6 DEF Held, Pending, Range, t
<1>8. ASSUME NEW i \in 1 .. m + 1 + l
      PROVE  RootSeq({})[i] \in Held \cup Pending
  <2>1. CASE i \in 1 .. m
    <3>1. i \in 1 .. m + 1
      BY <2>1, <1>1
    <3>2. RootSeq({})[i] = regs[i]
      BY <2>1, <3>1, <1>3, <1>4, <1>5
    <3>3. QED
      BY <2>1, <3>2, <1>7
  <2>2. CASE i = m + 1
    <3>1. m + 1 \in 1 .. m + 1
      BY <1>1
    <3>2. RootSeq({})[m + 1] = Nil
      BY <3>1, <1>3, <1>4, <1>5
    <3>3. QED
      BY <2>2, <3>2, <1>7
  <2>3. CASE i > m + 1
    <3>1. PICK j \in 1 .. l : i = m + 1 + j
      <4>1. i - (m + 1) \in 1 .. l /\ i = m + 1 + (i - (m + 1))
        BY <2>3, <1>1, <1>2
      <4>2. QED
        BY <4>1
    <3>2. RootSeq({})[i] = t[j]
      BY <3>1, <1>4, <1>5
    <3>3. QED
      BY <3>2, <1>7
  <2>4. QED
    BY <2>1, <2>2, <2>3, <1>1, <1>2
<1>9. ASSUME NEW c \in Held \cup Pending
      PROVE  \E i \in 1 .. m + 1 + l : RootSeq({})[i] = c
  <2>1. CASE c = Nil
    <3>1. m + 1 \in 1 .. m + 1 /\ m + 1 \in 1 .. m + 1 + l
      BY <1>1, <1>2
    <3>2. QED
      BY <2>1, <3>1, <1>3, <1>4, <1>5
  <2>2. ASSUME NEW i \in 1 .. m, c = regs[i]
        PROVE  \E j \in 1 .. m + 1 + l : RootSeq({})[j] = c
    <3>1. i \in 1 .. m + 1 /\ i \in 1 .. m + 1 + l
      BY <1>1, <1>2
    <3>2. QED
      BY <2>2, <3>1, <1>3, <1>4, <1>5
  <2>3. ASSUME NEW i \in 1 .. l, c = t[i]
        PROVE  \E j \in 1 .. m + 1 + l : RootSeq({})[j] = c
    <3>1. m + 1 + i \in 1 .. m + 1 + l
      BY <1>1, <1>2
    <3>2. QED
      BY <2>3, <3>1, <1>4, <1>5
  <2>4. QED
    BY <2>1, <2>2, <2>3, <1>7
<1>10. Len(RootSeq({})) = m + 1 + l /\ RootSeq({}) \in Seq(Cells)
  BY <1>4, <1>5
<1>11. QED
  BY <1>8, <1>9, <1>10 DEF Elements

(* No part of the heap is larger than the memory.                          *)
LEMMA PartSizes ==
  ASSUME born \in SUBSET Cells, NEW S, S \subseteq born
  PROVE  Cardinality(S) \in 0 .. MaxCells
<1>1. S \subseteq Cells
  OBVIOUS
<1>2. IsFiniteSet(S) /\ Cardinality(S) <= Cardinality(Cells)
  BY <1>1, TreadmillAssumption, FS_Subset
<1>3. Cardinality(S) \in Nat /\ Cardinality(Cells) \in Nat
  BY <1>2, TreadmillAssumption, FS_CardinalityType
<1>4. QED
  BY <1>2, <1>3 DEF MaxCells

(* treadmill_mark_roots. All the roots are ecru: the flip left no dark     *)
(* cell.                                                                   *)
LEMMA MarkRootsStep ==
  ASSUME TreadmillInv, Modest, MarkRoots
  PROVE  Advances
<1>1. /\ mpc = "mark" /\ mpc' = "marked" /\ ~mutex /\ ring' = insert_all(ring, RootSeq({}))
      /\ UNCHANGED <<setting, born, request, entitled, heap, regs, op, spc, mutex, flipActive, scannerFinished>>
  BY DEF MarkRoots, gcvars, Modest, Unseen
<1>2. Pending \subseteq Held /\ op.obj = Nil /\ Whites # {}
  BY <1>1 DEF TreadmillInv, Own, OperandInv, FreeInv, Allocating
<1>3. C!Roots = Held
  <2>1. Operand = Nil
    BY <1>1, <1>2 DEF Operand
  <2>2. QED
    BY <2>1, InvFacts DEF Held
<1>4. Elements(RootSeq({})) = C!Roots /\ RootSeq({}) \in Seq(Cells)
  BY <1>2, <1>3, RootElements
<1>5. PICK n, q, w, e, g : Ring(ring, born, n, q, w, e, g)
  BY DEF TreadmillInv, Own, RingInv
<1>6. /\ ShadesRing(ring', ring, born, n, w, e, g, C!Roots)
      /\ \E d \in Ecrus \ C!Roots : d \notin entitled
  <2>1. C!Roots \subseteq C!InUse /\ C!Roots \subseteq entitled
    BY InvFacts
  <2>2. /\ ShadesRing(insert_all(ring, RootSeq({})), ring, born, n, w, e, g, Elements(RootSeq({})))
        /\ \E d \in Ecrus \ Elements(RootSeq({})) : d \notin entitled
    BY <2>1, <1>4, <1>5, Shading
  <2>3. QED
    BY <2>2, <1>1, <1>4
<1>7. /\ Whites' = Whites /\ Ecrus' = Ecrus \ C!Roots /\ Greys' = Greys \cup (Ecrus \cap C!Roots)
      /\ Blacks' = Blacks
  <2>1. ring'.lc = Greyed(ring.lc, C!Roots)
    BY <1>6 DEF ShadesRing
  <2>2. QED
    BY <2>1, <1>1, ShadedLists
<1>8. Greys = {} /\ Blacks = {} /\ C!Roots \subseteq Ecrus
  BY <1>1 DEF TreadmillInv, C!IInv, C!RootsKnown
<1>9. Greys' = C!Roots
  BY <1>7, <1>8
<1>10. RingInv'
  BY <1>1, <1>6 DEF ShadesRing, RingInv
<1>11. SameRoots /\ Regs' = Regs /\ Pending' = Pending
  <2>1. Operand' = Operand
    BY <1>1 DEF Operand
  <2>2. QED
    BY <2>1, <1>1, RootsStay DEF Regs, Pending
<1>12. VarTypes'
  BY <1>1 DEF TreadmillInv, Own, VarTypes
<1>13. OperandInv' /\ StoreInv' /\ FreeInv'
  BY <1>1, <1>2, <1>7, <1>11 DEF TreadmillInv, Own, OperandInv, StoreInv, FreeInv, SameRoots, Allocating
<1>14. RoomInv'
  BY <1>1, <1>6, <1>7 DEF RoomInv
<1>15. C!MarkRoots
  BY <1>1, <1>7, <1>9, <1>11 DEF C!MarkRoots, SameRoots
<1>16. H!MarkRoots
  <2>1. Greys' \subseteq born /\ Ecrus' \subseteq born
    BY <1>1 DEF Greys, Ecrus
  <2>2. born \in SUBSET Cells
    BY InvFacts
  <2>3. Cardinality(Greys') \in 0 .. MaxCells /\ Cardinality(Ecrus') \in 0 .. MaxCells
    BY <2>1, <2>2, PartSizes
  <2>4. QED
    BY <2>3, <1>1, <1>7 DEF H!MarkRoots, H!Count
<1>17. QED
  BY <1>10, <1>12, <1>13, <1>14, <1>15, <1>16 DEF Advances, Own, C!Next, H!Next, H!Mutator

(* The lists after a step of the scanner.                                  *)
LEMMA ScannedLists ==
  ASSUME TreadmillInv, born' = born, NEW c \in Greys, NEW K,
         ring'.lc = [Greyed(ring.lc, K) EXCEPT ![c] = Black]
  PROVE  /\ Whites' = Whites /\ Ecrus' = Ecrus \ K /\ Greys' = (Greys \ {c}) \cup (Ecrus \cap K)
         /\ Blacks' = Blacks \cup {c} /\ Dark \subseteq Dark'
<1>1. born \in SUBSET Cells /\ c \in born /\ ring.lc[c] = Grey
  BY InvFacts DEF Greys
<1>2. \A d \in born : ring'.lc[d] = IF d = c THEN Black
                                    ELSE IF d \in K /\ ring.lc[d] = Ecru THEN Grey ELSE ring.lc[d]
  BY <1>1 DEF Greyed
<1>3. /\ Whites' = Whites /\ Ecrus' = Ecrus \ K
  BY <1>1, <1>2 DEF Whites, Ecrus, White, Ecru, Grey, Black
<1>4. Greys' = (Greys \ {c}) \cup (Ecrus \cap K)
  BY <1>1, <1>2 DEF Greys, Ecrus, White, Ecru, Grey, Black
<1>5. Blacks' = Blacks \cup {c}
  BY <1>1, <1>2 DEF Blacks, White, Ecru, Grey, Black
<1>6. QED
  BY <1>3, <1>4, <1>5 DEF Dark

(* The scanner inserts the children of a cell and blackens it. It does not *)
(* run in a flip, since it is parked.                                      *)
LEMMA ScanCellStep ==
  ASSUME TreadmillInv, Modest, ScanCell
  PROVE  Advances
<1> DEFINE c == ring.scan
           ps == heap[c]
           r == insert_all(ring, ps)
<1>1. /\ spc = "scan" /\ ring.scan # ring.top /\ mpc # "take_write"
      /\ ring' = [r EXCEPT !.scan = r.ccw[r.scan], !.lc[r.scan] = Black]
      /\ UNCHANGED <<setting, born, request, entitled, heap, regs, mpc, op, flipActive, scannerFinished>>
      /\ (spc' = "scan" /\ mutex' = mutex) \/ (spc' = "yield" /\ mutex' = FALSE)
  BY DEF ScanCell, gcvars, Modest
<1>2. PICK n, q, w, e, g : Ring(ring, born, n, q, w, e, g)
  BY DEF TreadmillInv, Own, RingInv
<1>3. /\ n \in Nat /\ w \in Nat /\ e \in Nat /\ g \in Nat /\ e >= 1 /\ w + e + g <= n
      /\ q \in [1 .. n -> born] /\ born \in SUBSET Cells
  BY <1>2, InvFacts DEF Ring, Parts, Chain
<1>4. g >= 1
  BY <1>1, <1>2, <1>3 DEF Ring, Parts
<1>5. c \in Greys
  <2>1. w + e + g \in 1 .. n /\ c = q[w + e + g]
    BY <1>2, <1>3 DEF Ring, Parts
  <2>2. ring.lc[c] = Grey
    BY <2>1, <1>2, <1>3, <1>4 DEF Ring, Parts, ColourAt
  <2>3. QED
    BY <2>1, <2>2, <1>3 DEF Greys
<1>6. c \in Dark /\ c \in C!InUse /\ c \in entitled /\ c \in Cells
  BY <1>3, <1>5, InvFacts DEF Dark, Greys
<1>7. ps \in [Fields -> Cells] /\ ps \in Seq(Cells) /\ Elements(ps) = C!Kids(c)
  <2>1. Fields = 1 .. Arity /\ Arity \in Nat
    BY TreadmillAssumption DEF Fields
  <2>2. ps \in [Fields -> Cells]
    BY <1>6 DEF TreadmillInv, Own, VarTypes
  <2>3. ps \in Seq(Cells) /\ Len(ps) = Arity
    BY <2>1, <2>2
  <2>4. QED
    BY <2>1, <2>2, <2>3 DEF Elements, C!Kids
<1>8. C!Kids(c) \subseteq C!InUse /\ C!Kids(c) \subseteq entitled
  BY <1>6, InvFacts DEF C!Kids
<1>9. /\ ShadesRing(r, ring, born, n, w, e, g, C!Kids(c))
      /\ \E d \in Ecrus \ C!Kids(c) : d \notin entitled
  <2>1. /\ ShadesRing(insert_all(ring, ps), ring, born, n, w, e, g, Elements(ps))
        /\ \E d \in Ecrus \ Elements(ps) : d \notin entitled
    BY <1>2, <1>7, <1>8, Shading
  <2>2. QED
    BY <2>1, <1>7
<1> HIDE DEF r, ps, c
<1>10. r.lc = Greyed(ring.lc, C!Kids(c)) /\ r.scan = c
  BY <1>4, <1>9 DEF ShadesRing, c
<1>11. /\ \E x, k : Ring(ring', born, n, x, w, e - k, g + k - 1)
       /\ ring'.lc = [r.lc EXCEPT ![c] = Black]
  <2>1. PICK x, k : k \in 0 .. e /\ Ring(r, born, n, x, w, e - k, g + k)
    BY <1>9 DEF ShadesRing
  <2> DEFINE e1 == e - k
             g1 == g + k
  <2>2. g1 >= 1 /\ Ring(r, born, n, x, w, e1, g1)
    BY <2>1, <1>3, <1>4
  <2>3. g1 - 1 = g + k - 1
    BY <2>1, <1>3
  <2> HIDE DEF e1, g1
  <2>4. Scanned(ring', r, born, n, x, w, e1, g1)
    BY <2>2, <1>1, <1>3, ScanRing
  <2>5. Ring(ring', born, n, x, w, e1, g1 - 1) /\ ring'.lc = [r.lc EXCEPT ![c] = Black]
    BY <2>4, <1>10 DEF Scanned
  <2>6. Ring(ring', born, n, x, w, e - k, g + k - 1)
    BY <2>3, <2>5 DEF e1
  <2>7. QED
    BY <2>5, <2>6
<1>12. RingInv'
  BY <1>1, <1>11 DEF RingInv
<1>13. /\ Whites' = Whites /\ Ecrus' = Ecrus \ C!Kids(c)
       /\ Greys' = (Greys \ {c}) \cup (Ecrus \cap C!Kids(c))
       /\ Blacks' = Blacks \cup {c} /\ Dark \subseteq Dark'
  <2>1. ring'.lc = [Greyed(ring.lc, C!Kids(c)) EXCEPT ![c] = Black]
    BY <1>10, <1>11
  <2>2. QED
    BY <2>1, <1>1, <1>5, ScannedLists
<1>14. SameRoots /\ Regs' = Regs /\ Pending' = Pending
  <2>1. Operand' = Operand
    BY <1>1 DEF Operand
  <2>2. QED
    BY <2>1, <1>1, RootsStay DEF Regs, Pending
<1>15. VarTypes'
  BY <1>1 DEF TreadmillInv, Own, VarTypes
<1>16. OperandInv' /\ FreeInv'
  BY <1>1, <1>13, <1>14 DEF TreadmillInv, Own, OperandInv, FreeInv, SameRoots, Allocating
<1>17. StoreInv'
  <2>1. mpc \in {"barrier", "lock"} => Shaded /\ Linked
    BY DEF TreadmillInv, Own, StoreInv
  <2>2. mpc \in {"barrier", "lock"} => Shaded' /\ Linked'
    BY <2>1, <1>1, <1>13, <1>14, StoreKept DEF SameRoots
  <2>3. QED
    BY <2>2, <1>1 DEF StoreInv
<1>18. RoomInv'
  <2>1. \E d \in Ecrus' : d \notin entitled'
    BY <1>1, <1>9, <1>13
  <2>2. mpc \in {"get_cell", "spin"} /\ Whites = {} => \E d \in Dark : d \notin C!Live
    BY DEF TreadmillInv, Own, RoomInv
  <2>3. QED
    BY <2>1, <2>2, <1>1, <1>13, <1>14 DEF RoomInv, SameRoots
<1>19. C!Scan
  <2>1. mpc # "mark"
    BY <1>1 DEF TreadmillInv, H!HInv, H!FlagsAgree
  <2>2. QED
    BY <2>1, <1>1, <1>5, <1>13, <1>14 DEF C!Scan, SameRoots
<1>20. H!ScanCell
  <2> DEFINE S == Ecrus \cap C!Kids(c)
  <2>1. /\ Cardinality(Ecrus \ C!Kids(c)) = Cardinality(Ecrus) - Cardinality(S)
        /\ Cardinality(Greys \cup S) = Cardinality(Greys) + Cardinality(S)
        /\ Cardinality(S) \in 0 .. Cardinality(Ecrus) /\ IsFiniteSet(S)
    BY EcruSizes
  <2>2. IsFiniteSet(Greys) /\ Greys # {} /\ Cardinality(Greys) > 0 /\ Cardinality(Greys) \in Nat
    <3>1. RingInv
      BY DEF TreadmillInv, Own
    <3>2. QED
      BY <3>1, <1>3, <1>5, ListTypes
  <2>3. Cardinality(Greys') = Cardinality(Greys) - 1 + Cardinality(S)
    <3>1. c \notin S /\ c \in Greys \cup S
      BY <1>5 DEF Greys, Ecrus, Grey, Ecru
    <3>2. IsFiniteSet(Greys \cup S)
      BY <2>1, <2>2, FS_Union
    <3>3. Cardinality((Greys \cup S) \ {c}) = Cardinality(Greys \cup S) - 1
      BY <3>1, <3>2, FS_RemoveElement
    <3>4. Greys' = (Greys \cup S) \ {c}
      BY <1>13, <3>1
    <3>5. Cardinality(Greys') = Cardinality(Greys \cup S) - 1
      BY <3>3, <3>4, Zenon
    <3> HIDE DEF S
    <3>6. QED
      BY <3>5, <2>1, <2>2
  <2>4. Cardinality(Ecrus') = Cardinality(Ecrus) - Cardinality(S) /\ Cardinality(Whites') = Cardinality(Whites)
    BY <2>1, <1>13, Zenon
  <2> HIDE DEF S
  <2>5. QED
    BY <2>1, <2>2, <2>3, <2>4, <1>1 DEF H!ScanCell
<1>21. QED
  BY <1>12, <1>15, <1>16, <1>17, <1>18, <1>19, <1>20 DEF Advances, Own, C!Next, H!Next, H!Scanner

(* Empty lists have no positions.                                          *)
LEMMA EmptyParts ==
  ASSUME TreadmillInv, Whites = {}, Greys = {},
         NEW n, NEW q, NEW w, NEW e, NEW g, Ring(ring, born, n, q, w, e, g)
  PROVE  w = 0 /\ g = 0
<1>1. /\ n \in Nat /\ w \in Nat /\ e \in Nat /\ g \in Nat /\ e >= 1 /\ e < n /\ w + e + g <= n
      /\ q[1] = ring.free /\ q[w + 1] = ring.bottom /\ q[w + e] = ring.top /\ q[w + e + g] = ring.scan
      /\ \A i, j \in 1 .. n : q[i] = q[j] => i = j
  BY DEF Ring, Parts, Chain
<1>2. ring.free = ring.bottom /\ ring.scan = ring.top
  BY ListSizes
<1>3. w = 0
  <2>1. 1 \in 1 .. n /\ w + 1 \in 1 .. n
    BY <1>1
  <2>2. QED
    BY <2>1, <1>1, <1>2
<1>4. g = 0
  <2>1. w + e \in 1 .. n /\ w + e + g \in 1 .. n
    BY <1>1
  <2>2. QED
    BY <2>1, <1>1, <1>2
<1>5. QED
  BY <1>3, <1>4

(* The lists after a flip; N are the new cells.                            *)
FlippedRing(N) ==
    /\ RingInv'
    /\ \A c \in born : ring'.lc[c] = IF ring.lc[c] = Ecru THEN White ELSE Ecru
    /\ \A c \in N : ring'.lc[c] = White

(* The swap and the growth together.                                       *)
LEMMA FlipRing ==
  ASSUME TreadmillInv, Whites = {}, Greys = {}, NEW m \in Nat, m # 1,
         NEW new \in Orders(m, Cells \ born), born' = born \cup Range(new),
         ring' = IF m = 0 THEN swap(ring) ELSE grow(swap(ring), new)
  PROVE  FlippedRing(Range(new)) /\ Range(new) \subseteq Cells \ born
<1>1. PICK n, q, w, e, g : Ring(ring, born, n, q, w, e, g)
  BY DEF TreadmillInv, Own, RingInv
<1>2. w = 0 /\ g = 0 /\ e \in Nat /\ n \in Nat /\ e >= 1 /\ born \in SUBSET Cells
  <2>1. w = 0 /\ g = 0
    BY <1>1, EmptyParts
  <2>2. e \in Nat /\ n \in Nat /\ e >= 1
    BY <1>1 DEF Ring, Parts, Chain
  <2>3. QED
    BY <2>1, <2>2, InvFacts
<1>3. Ring(ring, born, n, q, 0, e, 0)
  BY <1>1, <1>2
<1> DEFINE s == swap(ring)
           o == n - e
           N == Range(new)
<1>4. Swapped(s, ring, born, n, q, e)
  BY <1>2, <1>3, SwapRing
<1>5. Ring(s, born, n, q, e, o, 0)
  BY <1>4 DEF Swapped
<1>6. \A c \in born : s.lc[c] = IF ring.lc[c] = Ecru THEN White ELSE Ecru
  BY <1>4 DEF Swapped
<1> HIDE DEF s, o
<1>7. new \in [1 .. m -> Cells \ born]
  BY DEF Orders
<1>8. N = {new[i] : i \in 1 .. m}
  BY <1>7 DEF Range
<1>9. N \subseteq Cells \ born
  BY <1>7, <1>8
<1>10. CASE m = 0
  <2>1. N = {}
    BY <1>8, <1>10
  <2>2. born' = born /\ ring' = s
    BY <2>1, <1>10 DEF s
  <2>3. RingInv'
    BY <2>2, <1>5 DEF RingInv
  <2>4. QED
    BY <2>1, <2>2, <2>3, <1>6, <1>9 DEF FlippedRing
<1>11. CASE m # 0
  <2>1. m >= 2 /\ ring' = grow(s, new) /\ born' = born \cup N
    BY <1>11 DEF s
  <2>2. Grown(grow(s, new), s, born, n, e, o, 0, m, N)
    BY <2>1, <1>2, <1>5, GrowRing
  <2> DEFINE n1 == n + m
             e1 == e + m
  <2>3. PICK x : Ring(ring', born', n1, x, e1, o, 0)
    BY <2>1, <2>2 DEF Grown
  <2> HIDE DEF n1, e1
  <2>4. RingInv'
    BY <2>3 DEF RingInv
  <2>5. (\A c \in born : ring'.lc[c] = s.lc[c]) /\ (\A c \in N : ring'.lc[c] = White)
    BY <2>1, <2>2 DEF Grown
  <2>6. QED
    BY <2>4, <2>5, <1>6, <1>9 DEF FlippedRing
<1>12. QED
  BY <1>10, <1>11

(* treadmill_flip, when the scanner has finished. The garbage cell among   *)
(* the dark ones is the ecru cell that the next cycle needs.               *)
LEMMA FlipSwapStep ==
  ASSUME TreadmillInv, ~GrowsByOne, FlipSwap
  PROVE  Advances
<1> DEFINE m == IF MustGrow THEN AllocSize ELSE 0
<1>1. /\ mpc = "spin" /\ mpc' = "mark" /\ scannerFinished /\ request' = -1 /\ entitled' = C!Live
      /\ UNCHANGED <<setting, heap, regs, op, spc, mutex, flipActive, scannerFinished>>
  BY DEF FlipSwap
<1>2. PICK new \in Orders(m, Cells \ born) :
         /\ born' = born \cup Range(new)
         /\ ring' = IF m = 0 THEN swap(ring) ELSE grow(swap(ring), new)
  BY DEF FlipSwap
<1>3. m \in Nat /\ m # 1
  <2>1. request \in Int /\ ~(MustGrow /\ AllocSize = 1)
    BY <1>1 DEF TreadmillInv, Own, VarTypes, GrowsByOne
  <2>2. QED
    BY <2>1, TreadmillAssumption DEF AllocSize
<1> HIDE DEF m
<1>4. Whites = {}
  BY <1>1 DEF TreadmillInv, Own, FreeInv
<1>5. Greys = {}
  <2>1. Cardinality(Greys) = 0
    BY <1>1 DEF TreadmillInv, H!HInv, H!FlagsAgree
  <2>2. QED
    BY <2>1, ListSizes
<1> DEFINE N == Range(new)
<1>6. FlippedRing(N) /\ N \subseteq Cells \ born /\ born' = born \cup N
  BY <1>2, <1>3, <1>4, <1>5, FlipRing
<1> HIDE DEF N
<1>7. Whites' = Ecrus \cup N /\ Ecrus' = Blacks /\ Greys' = {} /\ Blacks' = {}
  <2>1. /\ \A c \in born : ring'.lc[c] = IF ring.lc[c] = Ecru THEN White ELSE Ecru
        /\ \A c \in N : ring'.lc[c] = White
    BY <1>6 DEF FlippedRing
  <2>2. \A c \in born : ring.lc[c] = Ecru \/ ring.lc[c] = Black
    <3>1. born = Ecrus \cup Blacks
      BY <1>4, <1>5, InvFacts DEF Dark
    <3>2. QED
      BY <3>1 DEF Ecrus, Blacks
  <2>3. Whites' = Ecrus \cup N
    BY <2>1, <2>2, <1>6 DEF Whites, Ecrus, White, Ecru, Black
  <2>4. Ecrus' = Blacks
    BY <2>1, <2>2, <1>6 DEF Ecrus, Blacks, White, Ecru, Black
  <2>5. Greys' = {} /\ Blacks' = {}
    BY <2>1, <1>6 DEF Greys, Blacks, White, Ecru, Grey, Black
  <2>6. QED
    BY <2>3, <2>4, <2>5
<1>8. RingInv'
  BY <1>6 DEF FlippedRing
<1>9. SameRoots /\ Regs' = Regs /\ Pending' = Pending
  <2>1. Operand' = Operand
    BY <1>1 DEF Operand
  <2>2. QED
    BY <2>1, <1>1, RootsStay DEF Regs, Pending
<1>10. born' \in SUBSET Cells
  BY <1>6, InvFacts
<1>11. VarTypes'
  BY <1>1, <1>10 DEF TreadmillInv, Own, VarTypes
<1>12. Whites' # {}
  <2>1. Ecrus # {}
    BY DEF TreadmillInv, Own, RoomInv
  <2>2. QED
    BY <2>1, <1>7
<1>13. OperandInv' /\ StoreInv' /\ FreeInv'
  BY <1>1, <1>9, <1>12 DEF TreadmillInv, Own, OperandInv, StoreInv, FreeInv, SameRoots, Allocating
<1>14. RoomInv'
  <2>1. PICK d \in Dark : d \notin C!Live
    BY <1>1, <1>4 DEF TreadmillInv, Own, RoomInv
  <2>2. d \in Ecrus'
    BY <2>1, <1>5, <1>7 DEF Dark
  <2>3. QED
    BY <2>1, <2>2, <1>1 DEF RoomInv
<1>15. C!Flip
  <2>1. N \in SUBSET (Cells \ C!InUse)
    BY <1>6, InvFacts
  <2>2. QED
    BY <2>1, <1>1, <1>4, <1>5, <1>7, <1>9 DEF C!Flip, SameRoots
<1>16. H!FlipSwap
  <2>1. Whites' \subseteq born' /\ Ecrus' \subseteq born'
    BY DEF Whites, Ecrus
  <2>2. Cardinality(Whites') \in 0 .. MaxCells /\ Cardinality(Ecrus') \in 0 .. MaxCells
        /\ (Cardinality(Whites') = 0 => Whites' = {})
    <3>1. ASSUME NEW S, S \subseteq born'
          PROVE  Cardinality(S) \in 0 .. MaxCells /\ (Cardinality(S) = 0 => S = {})
      <4>1. S \subseteq Cells
        BY <3>1, <1>10
      <4>2. IsFiniteSet(S) /\ Cardinality(S) <= Cardinality(Cells)
        BY <4>1, TreadmillAssumption, FS_Subset
      <4>3. Cardinality(S) \in Nat /\ Cardinality(Cells) \in Nat /\ (Cardinality(S) = 0 => S = {})
        BY <4>2, TreadmillAssumption, FS_CardinalityType, FS_EmptySet
      <4>4. QED
        BY <4>2, <4>3 DEF MaxCells
    <3>2. QED
      BY <3>1, <2>1
  <2>3. Cardinality(Greys') = Cardinality(Greys)
    BY <1>5, <1>7
  <2>4. QED
    BY <2>2, <2>3, <1>1, <1>12 DEF H!FlipSwap, H!Count
<1>17. QED
  BY <1>8, <1>11, <1>13, <1>14, <1>15, <1>16 DEF Advances, Own, C!Next, H!Next, H!Mutator

-----------------------------------------------------------------------------
(* The theorems. *)

(* scheme_init makes the invariant true, and starts the collector and the  *)
(* handshake.                                                              *)
LEMMA InitHolds ==
  ASSUME Init
  PROVE  TreadmillInv /\ C!Init /\ H!Init
<1> DEFINE n == setting.seg
<1>1. /\ setting \in Settings /\ request = -1 /\ heap = [c \in Cells |-> Blank]
      /\ regs = [r \in 1 .. setting.regs |-> Nil] /\ mpc = "run" /\ op = NoOp /\ spc = "start"
      /\ mutex = FALSE /\ flipActive = FALSE /\ scannerFinished = FALSE /\ entitled = {Nil}
  BY DEF Init
<1>2. PICK seg \in Orders(n, Cells) : seg[1] = Nil /\ ring = InitRing(seg) /\ born = Range(seg)
  BY DEF Init
<1>3. n \in Nat /\ n >= 4 /\ Nil \in Cells
  BY <1>1, TreadmillAssumption
<1> HIDE DEF n
<1>4. /\ \E x, w, e : w >= 1 /\ Ring(ring, born, n, x, w, e, 0)
      /\ \A c \in born : ring.lc[c] = Black <=> c = Nil
      /\ \A c \in born : ring.lc[c] # Grey
      /\ born \in SUBSET Cells /\ Nil \in born
  BY <1>2, <1>3, FirstRing
<1>5. RingInv
  BY <1>4 DEF RingInv
<1>6. Blacks = {Nil} /\ Greys = {} /\ Whites \cap Ecrus = {} /\ Nil \notin Whites \cup Ecrus
      /\ Whites \subseteq Cells /\ Ecrus \subseteq Cells
  BY <1>4 DEF Blacks, Greys, Whites, Ecrus, White, Ecru, Black
<1>7. Ecrus # {}
  BY <1>4, <1>5, ListBounds
<1>8. Operand = Nil /\ Registers = [r \in 0 .. NRegs |-> Nil]
  BY <1>1, NoOpFields DEF Operand, Registers
<1>9. VarTypes
  <2>1. heap \in [Cells -> [Fields -> Cells]]
    BY <1>1, NoOpFields
  <2>2. regs \in [1 .. setting.regs -> Cells]
    BY <1>1, <1>3
  <2>3. request \in Int /\ request = -1
    BY <1>1
  <2>4. op \in OpType
    BY <1>1, NoOpFields
  <2>5. QED
    BY <2>1, <2>2, <2>3, <2>4, <1>1, <1>4 DEF VarTypes
<1>10. OperandInv /\ StoreInv /\ FreeInv /\ RoomInv
  <2>1. RoomInv
    BY <1>1, <1>6, <1>7 DEF RoomInv
  <2>2. QED
    BY <2>1, <1>1 DEF OperandInv, StoreInv, FreeInv, Allocating
<1>11. C!Init
  <2>1. heap = [c \in Cells |-> C!Blank]
    BY <1>1 DEF Blank, C!Blank
  <2>2. QED
    BY <2>1, <1>1, <1>6, <1>8 DEF C!Init
<1>12. H!Init
  <2>1. Cardinality(Whites) \in 0 .. MaxCells /\ Cardinality(Ecrus) \in 0 .. MaxCells
    <3>1. Whites \subseteq born /\ Ecrus \subseteq born
      BY DEF Whites, Ecrus
    <3>2. QED
      BY <3>1, <1>4, PartSizes
  <2>2. Cardinality(Greys) = 0
    BY <1>4, <1>5, <1>6, FS_EmptySet
  <2>3. QED
    BY <2>1, <2>2, <1>1 DEF H!Init, H!Count
<1>13. C!IInv
  <2>1. CP!Init
    BY <1>11 DEF C!Init, CP!Init, C!Blank, CP!Blank
  <2>2. QED
    BY <2>1, <1>3, CP!InitIInv, SameIInv
<1>14. H!HInv
  <2>1. HP!Init
    BY <1>12 DEF H!Init, HP!Init, H!Count, HP!Count
  <2>2. HP!HInv
    BY <2>1, SizePositive, HP!InitHInv
  <2>3. QED
    BY <2>2 DEF H!HInv, HP!HInv, H!TypeOK, HP!TypeOK, H!FlagsAgree, HP!FlagsAgree
<1>15. QED
  BY <1>5, <1>9, <1>10, <1>11, <1>12, <1>13, <1>14 DEF TreadmillInv, Own

(* Every step keeps the invariant and is a step, or a stutter, of both.    *)
LEMMA StepAdvances ==
  ASSUME TreadmillInv, Modest, ~GrowsByOne, Next
  PROVE  Advances
<1>1. CASE MutatorOp
  <2>1. CASE \E r \in Regs, k \in [Fields -> Held] : cons(r, k)
    BY <2>1, ConsStep
  <2>2. CASE \E r \in Regs, n \in setting.vecs : MkVector(r, n)
    BY <2>2, MkVectorStep
  <2>3. CASE \E r \in Regs, c \in Held : \E v \in {c} \cup Range(heap[c]) : Load(r, v)
    BY <2>3, LoadStep
  <2>4. CASE \E r \in Regs, x \in Held, f \in Fields, v \in Held : Store(r, x, f, v)
    BY <2>4, StoreStep
  <2>5. CASE \E r \in Regs, x \in Held, v \in Held : Relink(r, x, v)
    BY <2>5, RelinkStep
  <2>6. CASE \E r \in Regs, p \in Held, v \in Held : SaveForced(r, p, v)
    BY <2>6, SaveForcedStep
  <2>7. QED
    BY <1>1, <2>1, <2>2, <2>3, <2>4, <2>5, <2>6 DEF MutatorOp
<1>2. CASE GetCell \/ StartFlip \/ TakeRead \/ TakeWrite \/ BarrierDark \/ AskMutex \/ Insert \/ Write
  BY <1>2, GetCellStep, StartFlipStep, TakeReadStep, TakeWriteStep, BarrierDarkStep, AskMutexStep,
     InsertStep, WriteStep
<1>3. CASE FlipSwap \/ FlipExit \/ MarkRoots \/ EndFlip \/ FlipReturn
  BY <1>3, FlipSwapStep, FlipExitStep, MarkRootsStep, EndFlipStep, FlipReturnStep
<1>4. CASE ScanCell
  BY <1>4, ScanCellStep
<1>5. CASE Signal \/ ScanStart \/ ScanSleep \/ ScanRelock \/ ScanUnlock \/ ScanFinished \/ ScanWait \/ Exited
  BY <1>5, HandoverStep
<1>6. QED
  BY <1>1, <1>2, <1>3, <1>4, <1>5 DEF Next, MutatorStep, Scanner

(* With the invariants of the two, the invariant is inductive.             *)
LEMMA InvStep ==
  ASSUME TreadmillInv, Modest, ~GrowsByOne, [Next]_vars
  PROVE  TreadmillInv' /\ [C!Next]_(C!vars) /\ [H!Next]_(H!vars)
<1>1. CASE Next
  <2>1. Advances
    BY <1>1, StepAdvances
  <2>2. C!IInv' /\ H!HInv'
    BY <2>1, CollectorStep, HandshakeStep DEF Advances, TreadmillInv
  <2>3. QED
    BY <2>1, <2>2 DEF Advances, TreadmillInv
<1>2. CASE UNCHANGED vars
  <2>1. UNCHANGED <<gcvars, ring, heap, regs, op, mpc, spc, mutex, flipActive, scannerFinished>>
    BY <1>2 DEF vars, gcvars
  <2>2. Frame
    BY <2>1 DEF Frame, Operand
  <2>3. Kept
    BY <2>2, FrameKeeps
  <2>4. UNCHANGED <<setting, born, request, entitled, ring, heap, regs, op, mpc>>
    BY <2>1 DEF gcvars
  <2>5. OperandInv' /\ FreeInv' /\ RoomInv'
    BY <2>3, <2>4 DEF TreadmillInv, Own, OperandInv, FreeInv, RoomInv, Kept, SameLists, SameRoots
  <2>6. StoreInv'
    BY <2>3, <2>4 DEF TreadmillInv, Own, StoreInv, Shaded, Linked, Kept, SameLists, SameRoots
  <2>7. UNCHANGED H!vars
    BY <2>1, <2>3 DEF H!vars, Kept, SameLists
  <2>8. Advances
    BY <2>3, <2>5, <2>6, <2>7 DEF Advances, Own, Kept
  <2>9. C!IInv' /\ H!HInv'
    BY <2>8, CollectorStep, HandshakeStep DEF Advances, TreadmillInv
  <2>10. QED
    BY <2>8, <2>9 DEF Advances, TreadmillInv
<1>3. QED
  BY <1>1, <1>2

(* The treadmill is always well formed, and every operation is where its   *)
(* steps have left it.                                                     *)
THEOREM TreadmillInvariance ==
  ASSUME Modest PROVE Spec /\ []~GrowsByOne => []TreadmillInv
<1>1. Init => TreadmillInv
  BY InitHolds
<1>2. TreadmillInv /\ ~GrowsByOne /\ [Next]_vars => TreadmillInv'
  BY InvStep
<1>3. QED
  BY <1>1, <1>2, PTL DEF Spec

(* treadmill_flip's checks on the ring hold at every step: the links are   *)
(* one cycle, and the arcs between the pointers are the lists.             *)
THEOREM TreadmillIntact ==
  ASSUME Modest PROVE Spec /\ []~GrowsByOne => []RingIntact
<1>1. TreadmillInv => RingIntact
  BY RingImpliesIntact DEF TreadmillInv, Own, VarTypes, RingInv
<1>2. QED
  BY <1>1, TreadmillInvariance, PTL

(* The dark bit tells the cells that the scanner has reached from the      *)
(* others, flip after flip, although no flip clears the bit of a cell.     *)
THEOREM TreadmillColours ==
  ASSUME Modest PROVE Spec /\ []~GrowsByOne => []ColoursMatch
<1>1. TreadmillInv => ColoursMatch
  BY RingImpliesIntact DEF TreadmillInv, Own, VarTypes, RingInv
<1>2. QED
  BY <1>1, TreadmillInvariance, PTL

(* The ring, its barriers and its flips do nothing that the abstract       *)
(* collector would not do.                                                 *)
THEOREM TreadmillRefines ==
  ASSUME Modest PROVE Spec /\ []~GrowsByOne => Refines
<1>1. Init => C!Init
  BY InitHolds
<1>2. TreadmillInv /\ ~GrowsByOne /\ [Next]_vars => [C!Next]_(C!vars)
  BY InvStep
<1>3. QED
  BY <1>1, <1>2, TreadmillInvariance, PTL DEF Spec, Refines, C!Spec

(* The two threads follow the handshake.                                   *)
THEOREM TreadmillHandshake ==
  ASSUME Modest PROVE Spec /\ []~GrowsByOne => RefinesHandshake
<1>1. Init => H!Init
  BY InitHolds
<1>2. TreadmillInv /\ ~GrowsByOne /\ [Next]_vars => [H!Next]_(H!vars)
  BY InvStep
<1>3. QED
  BY <1>1, <1>2, TreadmillInvariance, PTL DEF Spec, RefinesHandshake, H!Spec

(* A cell that the interpreter can still reach is never on the free list.  *)
THEOREM TreadmillSafety ==
  ASSUME Modest PROVE Spec /\ []~GrowsByOne => []C!NoLiveFreed
<1>1. ASSUME TreadmillInv PROVE C!NoLiveFreed
  <2>1. C!InUse \in SUBSET Cells
    BY <1>1, InvFacts
  <2>2. C!Roots \subseteq C!InUse /\ C!Closed(C!InUse, heap) /\ C!InUse \cap Whites = {}
    BY <1>1 DEF TreadmillInv, C!IInv, C!Disjoint
  <2>3. C!Live \subseteq C!InUse
    BY <2>1, <2>2 DEF C!Live, C!ReachFrom
  <2>4. QED
    BY <2>2, <2>3 DEF C!NoLiveFreed
<1>2. QED
  BY <1>1, TreadmillInvariance, PTL
=============================================================================
