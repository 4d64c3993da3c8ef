--------------------------- MODULE CollectorProofs ---------------------------
(***************************************************************************)
(* The collector never frees a cell the interpreter can reach, and keeps   *)
(* no cell that was garbage at the last flip, for every heap size, every   *)
(* set of registers and every number of fields.                            *)
(***************************************************************************)
EXTENDS Collector, TLAPS

(* ReachFrom is the least closed set that holds R. *)
LEMMA ReachLeast ==
  ASSUME NEW R, NEW h, NEW S \in SUBSET Cells, R \subseteq S, Closed(S, h)
  PROVE  ReachFrom(R, h) \subseteq S
  BY DEF ReachFrom

(* ReachFrom holds R and is itself closed. *)
LEMMA ReachClosed ==
  ASSUME NEW h \in [Cells -> [Fields -> Cells]], NEW R \in SUBSET Cells
  PROVE  /\ ReachFrom(R, h) \in SUBSET Cells
         /\ R \subseteq ReachFrom(R, h)
         /\ Closed(ReachFrom(R, h), h)
<1>1. ReachFrom(R, h) \in SUBSET Cells /\ R \subseteq ReachFrom(R, h)
  BY DEF ReachFrom
<1>2. ASSUME NEW c \in ReachFrom(R, h), NEW f \in Fields
      PROVE  h[c][f] \in ReachFrom(R, h)
  <2>1. c \in Cells /\ h[c][f] \in Cells
    BY <1>2 DEF ReachFrom
  <2>2. ASSUME NEW S \in SUBSET Cells, R \subseteq S, Closed(S, h)
        PROVE  h[c][f] \in S
    <3>1. c \in S
      BY <1>2, <2>2 DEF ReachFrom
    <3>2. QED
      BY <3>1, <2>2 DEF Closed
  <2>3. QED
    BY <2>1, <2>2 DEF ReachFrom
<1>3. QED
  BY <1>1, <1>2 DEF Closed

(* The registers only ever hold cells. *)
LEMMA RootsType == TypeOK => Roots \in SUBSET Cells
  BY CollectorAssumption DEF TypeOK, Roots

(* The invariant holds when scheme_init has allocated sc->NIL. *)
LEMMA InitIInv == Init => IInv
<1> SUFFICES ASSUME Init PROVE IInv
  OBVIOUS
<1> USE CollectorAssumption
<1>1. TypeOK
  BY DEF Init, TypeOK, Blank
<1>2. Disjoint /\ TriColour /\ Precise
  BY DEF Init, Disjoint, TriColour, Precise, InUse, Dark, Blank
<1>3. Roots = {Nil}
  BY DEF Init, Roots
<1>4. Closed(InUse, heap) /\ Closed(entitled, heap)
  BY DEF Init, Closed, InUse, Dark, Blank
<1>5. RootsKnown
  BY <1>3 DEF Init, RootsKnown, Anchored, Dark
<1>6. QED
  BY <1>1, <1>2, <1>3, <1>4, <1>5 DEF IInv, Init, InUse, Dark

(* get_cell keeps the invariant: the cell taken was outside the heap in    *)
(* use, so no closed set of used cells depends on its old fields.          *)
LEMMA AllocIInv == ASSUME IInv, Alloc PROVE IInv'
<1> USE CollectorAssumption DEF IInv
<1>1. PICK x \in free :
          /\ free' = free \ {x}
          /\ black' = black \cup {x}
          /\ heap' = [heap EXCEPT ![x] = Blank]
          /\ regs' \in [Regs -> Roots \cup {x}]
          /\ entitled' = entitled \cup {x}
  BY DEF Alloc, Hold
<1>2. UNCHANGED <<ecru, grey, marking>> /\ marking = FALSE
  BY DEF Alloc, TypeOK
<1>3. x \in Cells /\ x \notin InUse /\ Blank \in [Fields -> Cells]
  BY <1>1 DEF TypeOK, Disjoint, Blank
<1>4. TypeOK'
  BY <1>1, <1>2, <1>3 DEF TypeOK
<1>5. /\ Dark' = Dark \cup {x}
      /\ InUse' = InUse \cup {x}
      /\ Roots' \subseteq Roots \cup {x}
  BY <1>1, <1>2 DEF Dark, InUse, Roots, TypeOK
<1>6. /\ \A c \in Cells \ {x} : heap'[c] = heap[c]
      /\ \A f \in Fields : heap'[x][f] = Nil
  BY <1>1, <1>3 DEF TypeOK, Blank
<1>7. Nil \in Dark /\ Nil \in entitled /\ Nil \in InUse
  BY <1>2 DEF RootsKnown, Roots, InUse, Dark
<1>8. Disjoint'
  BY <1>1, <1>2, <1>3, <1>5 DEF Disjoint, InUse, Dark
<1>9. TriColour'
  BY <1>1, <1>5, <1>6, <1>7 DEF TriColour, TypeOK
<1>10. Closed(InUse, heap)' /\ Closed(entitled, heap)'
  BY <1>1, <1>5, <1>6, <1>7 DEF Closed, TypeOK, InUse, Dark
<1>11. Roots' \subseteq InUse' /\ Roots' \subseteq entitled' /\ Precise'
  BY <1>1, <1>5 DEF Precise
<1>12. ASSUME NEW S \in SUBSET Cells, Dark' \subseteq S, Closed(S, heap')
       PROVE  Roots' \subseteq S
  <2>1. InUse \in SUBSET Cells
    BY DEF TypeOK, InUse, Dark
  <2>2. Closed(S \cap InUse, heap)
    BY <1>3, <1>6, <1>12, <2>1 DEF Closed
  <2>3. Dark \subseteq S \cap InUse
    BY <1>5, <1>12 DEF InUse
  <2>4. Roots \subseteq S \cap InUse
    BY <2>2, <2>3, <1>2 DEF RootsKnown, Anchored
  <2>5. QED
    BY <2>4, <1>5, <1>12
<1>13. RootsKnown'
  BY <1>12, <1>2, <1>5, <1>7 DEF RootsKnown, Anchored
<1>14. QED
  BY <1>4, <1>8, <1>9, <1>10, <1>11, <1>13

(* Reading a field into a register keeps the invariant: what is read is    *)
(* reachable from what was held.                                           *)
LEMMA LoadIInv == ASSUME IInv, Load PROVE IInv'
<1> USE CollectorAssumption DEF IInv
<1>1. PICK c \in Roots : regs' \in [Regs -> Roots \cup Kids(c)]
  BY DEF Load, Hold
<1>2. UNCHANGED <<free, ecru, grey, black, heap, marking, entitled>>
      /\ marking = FALSE
  BY DEF Load, TypeOK
<1>3. Roots \in SUBSET Cells /\ Kids(c) \in SUBSET Cells
  BY RootsType DEF TypeOK, Kids
<1>4. Roots' \subseteq Roots \cup Kids(c)
  BY <1>1 DEF Roots
<1>5. ASSUME NEW S, Roots \subseteq S, Closed(S, heap)
      PROVE  Roots' \subseteq S
  BY <1>1, <1>4, <1>5 DEF Closed, Kids
<1>6. TypeOK'
  BY <1>1, <1>2, <1>3 DEF TypeOK
<1>7. Dark' = Dark /\ InUse' = InUse
  BY <1>2 DEF Dark, InUse
<1>8. Roots' \subseteq InUse' /\ Roots' \subseteq entitled'
  BY <1>5, <1>7, <1>2
<1>9. RootsKnown'
  <2>1. ASSUME NEW S \in SUBSET Cells, Dark \subseteq S, Closed(S, heap)
        PROVE  Roots' \subseteq S
    BY <1>5, <1>2, <2>1 DEF RootsKnown, Anchored
  <2>2. QED
    BY <2>1, <1>2, <1>7 DEF RootsKnown, Anchored, Closed
<1>10. Disjoint' /\ TriColour' /\ Precise' /\ Closed(InUse, heap)'
       /\ Closed(entitled, heap)'
  BY <1>2, <1>7 DEF Disjoint, TriColour, Precise, Closed
<1>11. QED
  BY <1>6, <1>8, <1>9, <1>10

(* The write barrier only moves cells from ecru to grey. *)
LEMMA ShadeIInv == ASSUME IInv, Shade PROVE IInv'
<1> USE CollectorAssumption DEF IInv
<1>1. PICK v \in Roots \cap ecru : ecru' = ecru \ {v} /\ grey' = grey \cup {v}
  BY DEF Shade
<1>2. UNCHANGED <<free, black, heap, regs, marking, entitled>>
      /\ marking = FALSE
  BY DEF Shade, TypeOK
<1>3. Dark' = Dark \cup {v} /\ InUse' = InUse /\ Roots' = Roots
  BY <1>1, <1>2 DEF Dark, InUse, Roots
<1>4. TypeOK'
  BY <1>1, <1>2 DEF TypeOK
<1>5. Disjoint' /\ TriColour' /\ Precise'
  BY <1>1, <1>2, <1>3 DEF Disjoint, TriColour, Precise, InUse, Dark
<1>6. Closed(InUse, heap)' /\ Closed(entitled, heap)'
  BY <1>2, <1>3 DEF Closed
<1>7. RootsKnown'
  BY <1>2, <1>3 DEF RootsKnown, Anchored, Closed
<1>8. QED
  BY <1>2, <1>3, <1>4, <1>5, <1>6, <1>7

(* A store of shaded values: either it overwrites nothing but sc->NIL, or  *)
(* the program keeps its roots anchored.                                   *)
LEMMA StoreIInv == ASSUME IInv, Store PROVE IInv'
<1> USE CollectorAssumption DEF IInv
<1>0. PICK x \in Roots \cap InUse : \E k \in [Fields -> Roots \cup Kids(x)] :
          /\ \A f \in Fields : k[f] \in Roots \cap Dark \/ k[f] = heap[x][f]
          /\ heap' = [heap EXCEPT ![x] = k]
          /\ \/ \A f \in Fields : heap[x][f] \in {Nil, k[f]}
             \/ Anchored(heap')
          /\ regs' \in [Regs -> Roots]
  BY DEF Store, Hold
<1>1. PICK k \in [Fields -> Roots \cup Kids(x)] :
          /\ \A f \in Fields : k[f] \in Roots \cap Dark \/ k[f] = heap[x][f]
          /\ heap' = [heap EXCEPT ![x] = k]
          /\ \/ \A f \in Fields : heap[x][f] \in {Nil, k[f]}
             \/ Anchored(heap')
          /\ regs' \in [Regs -> Roots]
  BY <1>0
<1>2. UNCHANGED <<free, ecru, grey, black, marking, entitled>>
      /\ marking = FALSE
  BY DEF Store, TypeOK
<1>3. Roots \in SUBSET Cells /\ x \in Cells /\ x \in InUse /\ x \in entitled
  BY RootsType DEF InUse
<1>4. k \in [Fields -> Cells]
  BY <1>1, <1>3 DEF TypeOK, Kids
<1>5. Dark' = Dark /\ InUse' = InUse /\ Roots' \subseteq Roots
  BY <1>1, <1>2 DEF Dark, InUse, Roots, TypeOK
<1>6. /\ \A c \in Cells \ {x} : heap'[c] = heap[c]
      /\ heap'[x] = k
  BY <1>1, <1>3 DEF TypeOK
<1>7. TypeOK'
  BY <1>1, <1>2, <1>3, <1>4 DEF TypeOK
<1>8. Disjoint' /\ Precise'
  BY <1>2, <1>5 DEF Disjoint, Precise
<1>9. TriColour'
  BY <1>1, <1>2, <1>5, <1>6 DEF TriColour, TypeOK
<1>10. ASSUME NEW S \in SUBSET Cells, Closed(S, heap), Roots \subseteq S
       PROVE  Closed(S, heap')
  BY <1>1, <1>6, <1>10 DEF Closed
<1>11. InUse \in SUBSET Cells /\ entitled \in SUBSET Cells
  BY DEF TypeOK, InUse, Dark
<1>12. Closed(InUse, heap)' /\ Closed(entitled, heap)'
  <2>1. Closed(InUse, heap') /\ Closed(entitled, heap')
    BY <1>10, <1>11
  <2>2. QED
    BY <2>1, <1>2, <1>5 DEF Closed
<1>13. ASSUME NEW S \in SUBSET Cells, Dark \subseteq S, Closed(S, heap')
       PROVE  Roots \subseteq S
  <2>1. CASE Anchored(heap')
    BY <2>1, <1>13 DEF Anchored
  <2>2. CASE \A f \in Fields : heap[x][f] \in {Nil, k[f]}
    <3>1. Nil \in S
      BY <1>2, <1>13 DEF RootsKnown
    <3>2. Closed(S, heap)
      BY <3>1, <2>2, <1>6, <1>13 DEF Closed
    <3>3. QED
      BY <3>2, <1>2, <1>13 DEF RootsKnown, Anchored
  <2>3. QED
    BY <2>1, <2>2, <1>1
<1>14. RootsKnown'
  BY <1>13, <1>2, <1>5 DEF RootsKnown, Anchored, Closed
<1>15. QED
  BY <1>2, <1>5, <1>7, <1>8, <1>9, <1>12, <1>14

(* The scanner blackens a cell only once its children are dark. *)
LEMMA ScanIInv == ASSUME IInv, Scan PROVE IInv'
<1> USE CollectorAssumption DEF IInv
<1>1. PICK c \in grey :
          LET kids == ecru \cap Kids(c)
          IN  /\ grey' = (grey \ {c}) \cup kids
              /\ ecru' = ecru \ kids
              /\ black' = black \cup {c}
  BY DEF Scan
<1> DEFINE kids == ecru \cap Kids(c)
<1>2. UNCHANGED <<free, heap, regs, marking, entitled>> /\ marking = FALSE
  BY DEF Scan, TypeOK
<1>3. Dark' = Dark \cup kids /\ InUse' = InUse /\ Roots' = Roots
  BY <1>1, <1>2 DEF Dark, InUse, Roots
<1>4. TypeOK'
  BY <1>1, <1>2 DEF TypeOK
<1>5. Disjoint'
  BY <1>1, <1>2, <1>3 DEF Disjoint, InUse, Dark
<1>6. TriColour'
  <2>1. \A f \in Fields : heap[c][f] \in Dark \cup kids
    BY <1>1 DEF Closed, InUse, Dark, Kids
  <2>2. QED
    BY <2>1, <1>1, <1>2, <1>3 DEF TriColour
<1>7. kids \subseteq entitled
  BY <1>1 DEF Closed, Precise, Dark, Kids
<1>8. Precise'
  BY <1>2, <1>3, <1>7 DEF Precise
<1>9. Closed(InUse, heap)' /\ Closed(entitled, heap)'
  BY <1>2, <1>3 DEF Closed
<1>10. RootsKnown'
  BY <1>2, <1>3 DEF RootsKnown, Anchored, Closed
<1>11. QED
  BY <1>2, <1>3, <1>4, <1>5, <1>6, <1>8, <1>9, <1>10

(* At the flip the grey set is empty, so black is closed and, the roots    *)
(* being anchored in it, holds every reachable cell.                       *)
LEMMA FlipIInv == ASSUME IInv, Flip PROVE IInv'
<1> USE CollectorAssumption DEF IInv
<1>1. PICK new \in SUBSET (Cells \ InUse) : free' = ecru \cup new
  BY DEF Flip
<1>2. /\ ecru' = black /\ black' = {} /\ marking' = TRUE
      /\ grey = {} /\ marking = FALSE
      /\ entitled' = Live
      /\ UNCHANGED <<grey, heap, regs>>
  BY DEF Flip, TypeOK
<1>3. Dark = black /\ Dark' = {} /\ InUse' = black /\ Roots' = Roots
  BY <1>2 DEF Dark, InUse, Roots
<1>4. Closed(black, heap) /\ black \in SUBSET Cells
  BY <1>3 DEF TriColour, Closed, TypeOK
<1>5. Roots \subseteq black
  BY <1>2, <1>3, <1>4 DEF RootsKnown, Anchored
<1>6. heap \in [Cells -> [Fields -> Cells]] /\ Roots \in SUBSET Cells
  BY RootsType DEF TypeOK
<1>7. Live \in SUBSET Cells /\ Roots \subseteq Live /\ Closed(Live, heap)
  BY <1>6, ReachClosed DEF Live
<1>8. TypeOK'
  BY <1>1, <1>2, <1>7 DEF TypeOK
<1>9. Disjoint'
  BY <1>1, <1>2, <1>3 DEF Disjoint, InUse, Dark
<1>10. TriColour' /\ Precise'
  BY <1>2, <1>3 DEF TriColour, Precise
<1>11. Closed(InUse, heap)' /\ Closed(entitled, heap)'
  BY <1>2, <1>3, <1>4, <1>7 DEF Closed
<1>12. RootsKnown'
  BY <1>2, <1>3, <1>5 DEF RootsKnown
<1>13. QED
  BY <1>2, <1>3, <1>5, <1>7, <1>8, <1>9, <1>10, <1>11, <1>12

(* treadmill_mark_roots makes the roots grey. *)
LEMMA MarkRootsIInv == ASSUME IInv, MarkRoots PROVE IInv'
<1> USE CollectorAssumption DEF IInv
<1>1. /\ marking = TRUE /\ marking' = FALSE
      /\ grey' = Roots /\ ecru' = ecru \ Roots
      /\ UNCHANGED <<free, black, heap, regs, entitled>>
  BY DEF MarkRoots, TypeOK
<1>2. black = {} /\ grey = {} /\ Roots \subseteq ecru
  BY <1>1 DEF RootsKnown
<1>3. Dark' = Roots /\ InUse' = InUse /\ Roots' = Roots
  BY <1>1, <1>2 DEF Dark, InUse, Roots
<1>4. TypeOK'
  BY <1>1, RootsType DEF TypeOK
<1>5. Disjoint' /\ TriColour' /\ Precise'
  BY <1>1, <1>2, <1>3 DEF Disjoint, TriColour, Precise, InUse, Dark
<1>6. Closed(InUse, heap)' /\ Closed(entitled, heap)'
  BY <1>1, <1>3 DEF Closed
<1>7. RootsKnown'
  BY <1>1, <1>3 DEF RootsKnown, Anchored, Roots
<1>8. QED
  BY <1>1, <1>3, <1>4, <1>5, <1>6, <1>7

(* A step that changes nothing. *)
LEMMA StutterIInv == ASSUME IInv, UNCHANGED vars PROVE IInv'
  BY DEF vars, IInv, TypeOK, Disjoint, TriColour, Closed, RootsKnown, Anchored,
         Precise, Roots, InUse, Dark

(* The inductive invariant of the collector. *)
THEOREM CollectorInvariance == Spec => []IInv
<1>1. IInv /\ [Next]_vars => IInv'
  BY AllocIInv, LoadIInv, StoreIInv, ShadeIInv, ScanIInv, FlipIInv,
     MarkRootsIInv, StutterIInv DEF Next
<1>2. QED
  BY InitIInv, <1>1, PTL DEF Spec

(* No cell the interpreter can reach is on the free list: get_cell never   *)
(* finalizes and reuses a live cell.                                       *)
THEOREM CollectorSafety == Spec => []NoLiveFreed
<1>1. IInv => NoLiveFreed
  <2>1. ASSUME IInv PROVE Live \subseteq InUse
    <3>1. InUse \in SUBSET Cells
      BY <2>1 DEF IInv, TypeOK, InUse, Dark
    <3>2. QED
      BY <2>1, <3>1, ReachLeast DEF IInv, Live
  <2>2. QED
    BY <2>1 DEF IInv, Disjoint, NoLiveFreed
<1>2. QED
  BY CollectorInvariance, <1>1, PTL

(* Garbage is never retained past the flip that follows its death: dark    *)
(* cells were reachable at the last flip or allocated since.               *)
THEOREM CollectorPrecision == Spec => []Precise
<1>1. IInv => Precise
  BY DEF IInv
<1>2. QED
  BY CollectorInvariance, <1>1, PTL
=============================================================================
