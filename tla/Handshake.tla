------------------------------ MODULE Handshake ------------------------------
(***************************************************************************)
(* How the interpreter's thread and treadmill_scanner (src/src/Scheme.cpp) *)
(* keep out of each other's way: sc->mutex, the flags treadmill_flip_active *)
(* and treadmill_scanner_finished, and the monitor Treadmill_Guard.  The    *)
(* heap is reduced to how many cells are white, ecru and grey, which is    *)
(* all that the control of the two threads looks at: the free list is      *)
(* empty, or the grey list is.                                             *)
(***************************************************************************)
EXTENDS Naturals

CONSTANT MaxCells      \* bound: the size of the heap
ASSUME HandshakeAssumption == MaxCells \in Nat \ {0}

VARIABLES white, ecru, grey,    \* how many cells have each colour
          mpc, spc,             \* where the mutator and the scanner are
          mutex,                \* sc->mutex is held by the scanner
          flipActive, scannerFinished

cells == <<white, ecru, grey>>
vars == <<white, ecru, grey, mpc, spc, mutex, flipActive, scannerFinished>>

Count == 0 .. MaxCells

Init ==
    /\ white \in Count /\ ecru \in Count /\ grey = 0
    /\ mpc = "run" /\ spc = "start"
    /\ mutex = FALSE /\ flipActive = FALSE /\ scannerFinished = FALSE

-----------------------------------------------------------------------------
(* The mutator: an operation runs a barrier, or allocates first. *)

Begin(next) ==
    /\ mpc = "run" /\ next \in {"get_cell", "barrier"}
    /\ mpc' = next
    /\ UNCHANGED <<cells, spc, mutex, flipActive, scannerFinished>>

GetCell ==
    /\ mpc = "get_cell" /\ white > 0
    /\ mpc' = "take"
    /\ UNCHANGED <<cells, spc, mutex, flipActive, scannerFinished>>

(* Fault: the scanner is not told of the flip. *)
StartFlip_Untold ==
    /\ mpc = "get_cell" /\ white = 0
    /\ mpc' = "spin"
    /\ UNCHANGED <<cells, spc, mutex, flipActive, scannerFinished>>

StartFlip ==
    /\ mpc = "get_cell" /\ white = 0
    /\ mpc' = "spin" /\ flipActive' = TRUE
    /\ UNCHANGED <<cells, spc, mutex, scannerFinished>>

(* get_cell takes a free cell without the mutex. *)
Take ==
    /\ mpc = "take"
    /\ white > 0 /\ white' = white - 1
    /\ mpc' = "barrier"
    /\ UNCHANGED <<ecru, grey, spc, mutex, flipActive, scannerFinished>>

(* insert_treadmill returns at once for a dark cell, which leaves nothing  *)
(* to say here; for a light one it asks for the mutex.                     *)
AskMutex ==
    /\ mpc = "barrier" /\ ecru > 0
    /\ mpc' = "lock"
    /\ UNCHANGED <<cells, spc, mutex, flipActive, scannerFinished>>

(* With the mutex the colour is read again: the scanner may have reached   *)
(* the cell in the meantime.  A cell that is still light becomes grey.     *)
Insert ==
    /\ mpc = "lock" /\ ~mutex
    /\ mpc' = "barrier"
    /\ \/ ecru > 0 /\ ecru' = ecru - 1 /\ grey' = grey + 1
       \/ UNCHANGED <<ecru, grey>>
    /\ UNCHANGED <<white, spc, mutex, flipActive, scannerFinished>>

Write ==
    /\ mpc = "barrier"
    /\ mpc' = "run"
    /\ UNCHANGED <<cells, spc, mutex, flipActive, scannerFinished>>

(* treadmill_flip: dark cells become ecru, ecru ones (and new ones) white. *)
FlipSwap ==
    /\ mpc = "spin" /\ scannerFinished
    /\ white' \in Count \ {0} /\ ecru' \in Count
    /\ mpc' = "mark"
    /\ UNCHANGED <<grey, spc, mutex, flipActive, scannerFinished>>

FlipExit ==
    /\ mpc = "spin" /\ scannerFinished
    /\ mpc' = "exit" /\ spc' = "exit"
    /\ UNCHANGED <<cells, mutex, flipActive, scannerFinished>>

MarkRoots ==
    /\ mpc = "mark" /\ ~mutex
    /\ grey' \in Count /\ ecru' \in Count
    /\ mpc' = "marked"
    /\ UNCHANGED <<white, spc, mutex, flipActive, scannerFinished>>

EndFlip ==
    /\ mpc = "marked"
    /\ mpc' = "signal" /\ flipActive' = FALSE
    /\ UNCHANGED <<cells, spc, mutex, scannerFinished>>

(* The guard is signalled without being locked, again and again until the  *)
(* scanner has restarted.                                                  *)
Signal ==
    /\ mpc = "signal" /\ scannerFinished
    /\ spc' = IF spc = "waiting" THEN "start" ELSE spc
    /\ UNCHANGED <<cells, mpc, mutex, flipActive, scannerFinished>>

FlipReturn ==
    /\ mpc = "signal" /\ ~scannerFinished
    /\ mpc' = "take"
    /\ UNCHANGED <<cells, spc, mutex, flipActive, scannerFinished>>

Mutator == GetCell \/ StartFlip \/ Take \/ AskMutex \/ Insert \/ Write \/ FlipSwap
           \/ FlipExit \/ MarkRoots \/ EndFlip \/ Signal \/ FlipReturn

-----------------------------------------------------------------------------
(* The scanner. *)

(* The condition that ends the passes over the grey list. *)
PassesDone == flipActive /\ grey = 0

ScanStart ==
    /\ spc = "start" /\ ~mutex
    /\ mutex' = TRUE /\ scannerFinished' = FALSE
    /\ spc' = IF PassesDone THEN "finish" ELSE "scan"
    /\ UNCHANGED <<cells, mpc, flipActive>>

ScanCell ==
    /\ spc = "scan" /\ grey > 0
    /\ \E k \in 0 .. ecru : /\ ecru' = ecru - k
                            /\ grey' = grey - 1 + k
    /\ \/ spc' = "scan"  /\ mutex' = mutex
       \/ spc' = "yield" /\ mutex' = FALSE
    /\ UNCHANGED <<white, mpc, flipActive, scannerFinished>>

(* Fault: the mutex is kept between passes. *)
ScanSleep_Locked ==
    /\ spc = "scan" /\ grey = 0 /\ ~flipActive
    /\ UNCHANGED vars

ScanSleep ==
    /\ spc = "scan" /\ grey = 0
    /\ spc' = "sleep" /\ mutex' = FALSE
    /\ UNCHANGED <<cells, mpc, flipActive, scannerFinished>>

(* Fault: the flag alone ends the passes. *)
ScanRelock_Flag ==
    /\ spc \in {"yield", "sleep"} /\ ~mutex
    /\ mutex' = TRUE
    /\ spc' = IF spc = "sleep" /\ flipActive THEN "finish" ELSE "scan"
    /\ UNCHANGED <<cells, mpc, flipActive, scannerFinished>>

ScanRelock ==
    /\ spc \in {"yield", "sleep"} /\ ~mutex
    /\ mutex' = TRUE
    /\ spc' = IF spc = "sleep" /\ PassesDone THEN "finish" ELSE "scan"
    /\ UNCHANGED <<cells, mpc, flipActive, scannerFinished>>

ScanUnlock ==
    /\ spc = "finish"
    /\ spc' = "finished" /\ mutex' = FALSE
    /\ UNCHANGED <<cells, mpc, flipActive, scannerFinished>>

ScanFinished ==
    /\ spc = "finished"
    /\ spc' = "to_wait" /\ scannerFinished' = TRUE
    /\ UNCHANGED <<cells, mpc, mutex, flipActive>>

ScanWait ==
    /\ spc = "to_wait"
    /\ spc' = "waiting"
    /\ UNCHANGED <<cells, mpc, mutex, flipActive, scannerFinished>>

Scanner == ScanStart \/ ScanCell \/ ScanSleep \/ ScanRelock \/ ScanUnlock
           \/ ScanFinished \/ ScanWait

(* exit(1) is the one way the system stops. *)
Exited == mpc = "exit" /\ UNCHANGED vars

Next == \/ \E next \in {"get_cell", "barrier"} : Begin(next)
        \/ Mutator \/ Scanner \/ Exited

Spec == Init /\ [][Next]_vars

(* Both threads run.  The mutex is not fair, but the scanner releases it   *)
(* and sleeps half a millisecond after each pass over the grey list, long  *)
(* enough for a mutator that waits: hence SF for Insert.  An operation has *)
(* finitely many operands to shade; nothing obliges the program to start   *)
(* another operation.                                                      *)
FairSpec == /\ Spec
            /\ WF_vars(Mutator) /\ SF_vars(Insert) /\ SF_vars(Write)
            /\ WF_vars(Scanner)

-----------------------------------------------------------------------------
TypeOK ==
    /\ white \in Nat /\ ecru \in Nat /\ grey \in Nat
    /\ mpc \in {"run", "get_cell", "take", "barrier", "lock", "spin", "mark", "marked",
                "signal", "exit"}
    /\ spc \in {"start", "scan", "yield", "sleep", "finish", "finished",
                "to_wait", "waiting", "exit"}
    /\ mutex \in BOOLEAN /\ flipActive \in BOOLEAN /\ scannerFinished \in BOOLEAN

(* treadmill_flip swaps the pointers and the dark bit without the mutex:   *)
(* all that time the scanner is parked, has released the mutex, and left   *)
(* no grey cell behind ("SHOULD NOT FINISH SCANNER UNTIL SCAN == TOP").    *)
FlipAlone ==
    /\ mpc = "spin" /\ scannerFinished => grey = 0
    /\ (mpc = "spin" /\ scannerFinished) \/ mpc \in {"mark", "marked"} =>
          spc \in {"to_wait", "waiting"} /\ ~mutex

(* The dark bit and the lists only change hands while flip_active tells    *)
(* the scanner so; the scanner never works through a flip with the flags   *)
(* of the previous one.                                                    *)
FlagsAgree ==
    /\ flipActive <=> mpc \in {"spin", "mark", "marked"} \/ mpc = "exit"
    /\ scannerFinished /\ mpc # "exit" =>
          /\ spc \in {"to_wait", "waiting", "start"}
          /\ mpc \in {"spin", "mark", "marked", "signal"}

(* The inductive invariant of the handshake. *)
HInv ==
    /\ TypeOK
    /\ mpc # "exit" => FlagsAgree
    /\ mpc # "exit" =>
         /\ mutex <=> spc \in {"scan", "finish"}
         /\ spc \in {"finish", "finished", "to_wait", "waiting"} =>
               flipActive \/ mpc = "signal"
         /\ spc \in {"finish", "finished"} => mpc = "spin"
         /\ spc \in {"finish", "finished", "to_wait", "waiting"} /\ mpc = "spin" =>
               grey = 0
         /\ spc \in {"to_wait", "waiting"} => scannerFinished
         /\ mpc \in {"mark", "marked"} => scannerFinished
         /\ spc = "start" /\ scannerFinished => mpc = "signal"

(* A flip always ends: the scanner notices flip_active, empties the grey   *)
(* list and parks, and the signal that restarts it is not lost for good.   *)
FlipEnds == mpc = "spin" ~> mpc \in {"take", "exit"}

(* A write barrier is not kept waiting for sc->mutex for ever. *)
BarrierEnds == mpc = "lock" ~> mpc = "run"
=============================================================================
