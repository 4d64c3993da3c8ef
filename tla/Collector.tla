------------------------------ MODULE Collector ------------------------------
(***************************************************************************)
(* What the concurrent garbage collector of src/src/Scheme.cpp promises,   *)
(* with the ring of cells abstracted to four colour sets.                  *)
(*                                                                         *)
(*   free   cells the mutator may take (the code's "white")                *)
(*   ecru   cells of earlier cycles the collector has not reached yet      *)
(*   grey   reached, children not yet looked at                            *)
(*   black  reached and scanned, or allocated in this cycle                *)
(*                                                                         *)
(* The mutator is the Scheme interpreter: it reads cells into its          *)
(* registers without telling the collector, and shades what it stores.     *)
(* The collector shades the children of grey cells until none is left;     *)
(* when the free list is empty as well, the colours are flipped and the    *)
(* registers are shaded.  Treadmill.tla is the detailed specification.     *)
(***************************************************************************)
EXTENDS Naturals

CONSTANTS Cells,    \* every address a cell may have
          Nil,      \* sc->NIL, an ordinary cell of the heap that is always a root
          Regs,     \* the interpreter's registers, dump frames and injected roots
          Fields    \* the pointer fields of a cell

ASSUME CollectorAssumption == Nil \in Cells

VARIABLES free, ecru, grey, black,
          heap,      \* heap[c][f]: the cell that field f of cell c points to
          regs,      \* regs[r]: the cell that register r points to
          marking,   \* the colours are flipped, the roots not yet shaded
          entitled   \* history: reachable at the last flip, or allocated since

vars == <<free, ecru, grey, black, heap, regs, marking, entitled>>

Dark  == grey \cup black
InUse == ecru \cup Dark
Kids(c) == {heap[c][f] : f \in Fields}
Roots == {Nil} \cup {regs[r] : r \in Regs}

(* S is closed under the pointers of heap h. *)
Closed(S, h) == \A c \in S : \A f \in Fields : h[c][f] \in S

(* The cells in every closed set that holds R: those reachable from R. *)
ReachFrom(R, h) == {c \in Cells : \A S \in SUBSET Cells :
                                     R \subseteq S /\ Closed(S, h) => c \in S}
Live == ReachFrom(Roots, heap)

-----------------------------------------------------------------------------
Blank == [f \in Fields |-> Nil]

Init ==
    /\ free \in SUBSET (Cells \ {Nil})
    /\ ecru \in SUBSET (Cells \ (free \cup {Nil}))
    /\ grey = {}
    /\ black = {Nil}
    /\ heap = [c \in Cells |-> Blank]
    /\ regs = [r \in Regs |-> Nil]
    /\ marking = FALSE
    /\ entitled = {Nil}

(* Between two of the collector's steps the interpreter moves the cells it *)
(* holds between its registers as it likes: no barrier is involved.        *)
Hold(S) == regs' \in [Regs -> S]

(* get_cell: a free cell becomes black, with blank fields. *)
Alloc ==
    /\ ~marking
    /\ \E x \in free :
          /\ free' = free \ {x}
          /\ black' = black \cup {x}
          /\ heap' = [heap EXCEPT ![x] = Blank]
          /\ Hold(Roots \cup {x})
          /\ entitled' = entitled \cup {x}
    /\ UNCHANGED <<ecru, grey, marking>>

(* A register is loaded from a field of a cell held in a register. *)
Load ==
    /\ ~marking
    /\ \E c \in Roots : Hold(Roots \cup Kids(c))
    /\ UNCHANGED <<free, ecru, grey, black, heap, marking, entitled>>

(* The write barrier: a cell held in a register is shaded. *)
Shade ==
    /\ ~marking
    /\ \E v \in Roots \cap ecru :
          /\ ecru' = ecru \ {v}
          /\ grey' = grey \cup {v}
    /\ UNCHANGED <<free, black, heap, regs, marking, entitled>>

(* What the interpreted program must respect: after a store, every root    *)
(* is still reachable from the cells the collector already knows of.       *)
Anchored(h) == \A S \in SUBSET Cells :
                  Dark \subseteq S /\ Closed(S, h) => Roots \subseteq S

(* Fault: the value is stored without having been shaded. *)
Store_Unshaded ==
    /\ ~marking
    /\ \E x \in Roots \cap InUse : \E k \in [Fields -> Roots \cup Kids(x)] :
          /\ heap' = [heap EXCEPT ![x] = k]
          /\ Hold(Roots)
    /\ UNCHANGED <<free, ecru, grey, black, marking, entitled>>

(* A store of shaded values into a cell held in a register. *)
Store ==
    /\ ~marking
    /\ \E x \in Roots \cap InUse : \E k \in [Fields -> Roots \cup Kids(x)] :
          /\ \A f \in Fields : k[f] \in Roots \cap Dark \/ k[f] = heap[x][f]
          /\ heap' = [heap EXCEPT ![x] = k]
          /\ \/ \A f \in Fields : heap[x][f] \in {Nil, k[f]}
             \/ Anchored(heap')
          /\ Hold(Roots)
    /\ UNCHANGED <<free, ecru, grey, black, marking, entitled>>

(* The scanner blackens a grey cell and shades its ecru children. *)
Scan ==
    /\ ~marking
    /\ \E c \in grey :
          LET kids == ecru \cap Kids(c)
          IN  /\ grey' = (grey \ {c}) \cup kids
              /\ ecru' = ecru \ kids
              /\ black' = black \cup {c}
    /\ UNCHANGED <<free, heap, regs, marking, entitled>>

(* The colours are flipped once the free and the grey list are empty;      *)
(* memory may be added to the new free list.                               *)
Flip ==
    /\ ~marking
    /\ free = {}
    /\ grey = {}
    /\ \E new \in SUBSET (Cells \ InUse) : free' = ecru \cup new
    /\ ecru' = black
    /\ black' = {}
    /\ marking' = TRUE
    /\ entitled' = Live
    /\ UNCHANGED <<grey, heap, regs>>

(* Fault: everything that survived the last cycle is kept. *)
MarkRoots_All ==
    /\ marking
    /\ grey' = ecru
    /\ ecru' = {}
    /\ marking' = FALSE
    /\ UNCHANGED <<free, black, heap, regs, entitled>>

MarkRoots ==
    /\ marking
    /\ grey' = Roots
    /\ ecru' = ecru \ Roots
    /\ marking' = FALSE
    /\ UNCHANGED <<free, black, heap, regs, entitled>>

Next ==
    \/ Alloc \/ Load \/ Store
    \/ Shade \/ Scan \/ Flip \/ MarkRoots

Spec == Init /\ [][Next]_vars

-----------------------------------------------------------------------------
TypeOK ==
    /\ free \subseteq Cells /\ ecru \subseteq Cells
    /\ grey \subseteq Cells /\ black \subseteq Cells
    /\ heap \in [Cells -> [Fields -> Cells]]
    /\ regs \in [Regs -> Cells]
    /\ marking \in BOOLEAN
    /\ entitled \subseteq Cells

(* A cell the interpreter can still reach is never on the free list (nor   *)
(* outside the heap): get_cell cannot hand it out again and finalize it.   *)
NoLiveFreed == Live \subseteq InUse /\ InUse \cap free = {}

(* The cells the collector keeps are reachable from the roots at the last  *)
(* flip or were allocated since: garbage outlives at most one flip.        *)
Precise == Dark \subseteq entitled

(* The inductive invariant: the colours are disjoint; no black cell points *)
(* at an ecru one; the heap in use is closed; the roots are reachable from *)
(* the dark cells, or, before they are shaded, are all ecru; and nothing   *)
(* outside entitled can be reached.                                        *)
Disjoint ==
    /\ free \cap InUse = {}
    /\ ecru \cap Dark = {}
    /\ grey \cap black = {}

TriColour == \A c \in black : \A f \in Fields : heap[c][f] \in Dark

RootsKnown ==
    IF marking THEN grey = {} /\ black = {} /\ Roots \subseteq ecru
               ELSE Nil \in Dark /\ Anchored(heap)

IInv ==
    /\ TypeOK
    /\ Disjoint
    /\ TriColour
    /\ Closed(InUse, heap)
    /\ Roots \subseteq InUse
    /\ RootsKnown
    /\ Precise
    /\ Roots \subseteq entitled
    /\ Closed(entitled, heap)
=============================================================================
