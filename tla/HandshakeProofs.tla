--------------------------- MODULE HandshakeProofs ---------------------------
(***************************************************************************)
(* The handshake between treadmill_flip and treadmill_scanner keeps the    *)
(* unlocked pointer swap alone with the heap, for a heap of any size.      *)
(***************************************************************************)
EXTENDS Handshake, TLAPS

(* Both threads start outside a flip. *)
LEMMA InitHInv == ASSUME Init PROVE HInv
<1>1. white \in Nat /\ ecru \in Nat /\ grey \in Nat
  BY HandshakeAssumption DEF Init, Count
<1>2. TypeOK
  BY <1>1 DEF Init, TypeOK
<1>3. QED
  BY <1>2 DEF Init, HInv, FlagsAgree

(* Operations of the mutator outside treadmill_flip touch no flag. *)
LEMMA OperationHInv ==
  ASSUME HInv,
         \/ \E next \in {"get_cell", "barrier"} : Begin(next)
         \/ GetCell \/ Take \/ AskMutex \/ Insert \/ Write
  PROVE  HInv'
<1> USE HandshakeAssumption DEF HInv, TypeOK, FlagsAgree, cells
<1>1. CASE \E next \in {"get_cell", "barrier"} : Begin(next)
  BY <1>1 DEF Begin
<1>2. CASE GetCell
  BY <1>2 DEF GetCell
<1>3. CASE Take
  BY <1>3 DEF Take
<1>4. CASE AskMutex
  BY <1>4 DEF AskMutex
<1>5. CASE Insert
  BY <1>5 DEF Insert
<1>6. CASE Write
  BY <1>6 DEF Write
<1>7. QED
  BY <1>1, <1>2, <1>3, <1>4, <1>5, <1>6

(* The steps of treadmill_flip. *)
LEMMA FlipHInv ==
  ASSUME HInv,
         \/ StartFlip \/ FlipSwap \/ FlipExit \/ MarkRoots \/ EndFlip
         \/ Signal \/ FlipReturn
  PROVE  HInv'
<1> USE HandshakeAssumption DEF HInv, TypeOK, FlagsAgree, cells, Count
<1>1. CASE StartFlip
  BY <1>1 DEF StartFlip
<1>2. CASE FlipSwap
  BY <1>2 DEF FlipSwap
<1>3. CASE FlipExit
  BY <1>3 DEF FlipExit
<1>4. CASE MarkRoots
  BY <1>4 DEF MarkRoots
<1>5. CASE EndFlip
  BY <1>5 DEF EndFlip
<1>6. CASE Signal
  BY <1>6 DEF Signal
<1>7. CASE FlipReturn
  BY <1>7 DEF FlipReturn
<1>8. QED
  BY <1>1, <1>2, <1>3, <1>4, <1>5, <1>6, <1>7

(* The steps of treadmill_scanner. *)
LEMMA ScannerHInv == ASSUME HInv, Scanner PROVE HInv'
<1> USE HandshakeAssumption DEF HInv, TypeOK, FlagsAgree, cells, PassesDone
<1>1. CASE ScanStart
  BY <1>1 DEF ScanStart
<1>2. CASE ScanCell
  <2>1. /\ spc = "scan" /\ grey > 0
        /\ UNCHANGED <<white, mpc, flipActive, scannerFinished>>
    BY <1>2 DEF ScanCell
  <2>2. PICK k \in 0 .. ecru : ecru' = ecru - k /\ grey' = grey - 1 + k
    BY <1>2 DEF ScanCell
  <2>3. white' \in Nat /\ ecru' \in Nat /\ grey' \in Nat
    BY <2>1, <2>2
  <2>4. \/ spc' = "scan" /\ mutex' = mutex
        \/ spc' = "yield" /\ mutex' = FALSE
    BY <1>2 DEF ScanCell
  <2>5. QED
    BY <2>1, <2>3, <2>4
<1>3. CASE ScanSleep
  BY <1>3 DEF ScanSleep
<1>4. CASE ScanRelock
  BY <1>4 DEF ScanRelock
<1>5. CASE ScanUnlock
  BY <1>5 DEF ScanUnlock
<1>6. CASE ScanFinished
  BY <1>6 DEF ScanFinished
<1>7. CASE ScanWait
  BY <1>7 DEF ScanWait
<1>8. QED
  BY <1>1, <1>2, <1>3, <1>4, <1>5, <1>6, <1>7 DEF Scanner

(* The flags treadmill_flip_active and treadmill_scanner_finished, the     *)
(* mutex and the places of the two threads always agree.                   *)
THEOREM HandshakeInvariance == Spec => []HInv
<1>1. HInv /\ [Next]_vars => HInv'
  <2> SUFFICES ASSUME HInv, [Next]_vars PROVE HInv'
    OBVIOUS
  <2>1. CASE Next
    <3>1. CASE Exited
      BY <3>1 DEF Exited, vars, HInv, TypeOK, FlagsAgree
    <3>2. QED
      BY <2>1, <3>1, OperationHInv, FlipHInv, ScannerHInv DEF Next, Mutator
  <2>2. CASE UNCHANGED vars
    BY <2>2 DEF vars, HInv, TypeOK, FlagsAgree
  <2>3. QED
    BY <2>1, <2>2
<1>2. QED
  BY InitHInv, <1>1, PTL DEF Spec

(* treadmill_flip swaps the pointers and the dark bit, and marks the roots, *)
(* while the scanner is parked without the mutex and, at the swap, with no  *)
(* grey cell left: however long either thread is delayed.                   *)
THEOREM HandshakeSafety == Spec => []FlipAlone
<1>1. HInv => FlipAlone
  BY DEF HInv, TypeOK, FlagsAgree, FlipAlone
<1>2. QED
  BY HandshakeInvariance, <1>1, PTL
=============================================================================
