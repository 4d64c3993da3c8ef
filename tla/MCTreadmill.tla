----------------------------- MODULE MCTreadmill -----------------------------
(* The treadmill on a small heap.  Addresses are interchangeable: every    *)
(* order of the first segment is an initial state, so permuting the cells  *)
(* other than sc->NIL is a symmetry.                                       *)
EXTENDS Treadmill

(* Six cells over many collections, and four cells that grow to six at a   *)
(* flip, by the fixed chunk or by what a vector asks for.                  *)
Programs == {[seg |-> 6, regs |-> 1, margin |-> 0, vecs |-> {}],
             [seg |-> 4, regs |-> 1, margin |-> 4, vecs |-> {3}]}

(* Five cells and one register, or two.                                    *)
Five    == {[seg |-> 5, regs |-> 1, margin |-> 0, vecs |-> {}]}
FiveTwo == {[seg |-> 5, regs |-> 2, margin |-> 0, vecs |-> {}]}

(* Programs whose cycles keep every cell, and a heap that grows by one.    *)
Full    == {[seg |-> 4, regs |-> 1, margin |-> 0, vecs |-> {}]}
GrowOne == {[seg |-> 4, regs |-> 1, margin |-> 3, vecs |-> {2}]}

Symmetry == Permutations(Cells \ {Nil})

(* What a free cell holds and its _colour are never read: get_cell sets    *)
(* them first.                                                             *)
View == <<setting, [ring EXCEPT !.colour = [c \in Cells |-> ring.lc[c] # White /\ @[c]]],
          [c \in Cells |-> IF ring.lc[c] = White THEN Blank ELSE heap[c]],
          born, request, regs, mpc, op, spc, mutex, flipActive, scannerFinished,
          entitled>>
=============================================================================
