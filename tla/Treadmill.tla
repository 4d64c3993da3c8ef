------------------------------ MODULE Treadmill ------------------------------
(***************************************************************************)
(* The concurrent garbage collector of src/src/Scheme.cpp: a ring of cells *)
(* linked by _cw and _ccw, divided by four pointers                        *)
(*                                                                         *)
(*   clockwise:  free ... | bottom ... top | ... scan | ... (free)         *)
(*               white      ecru             grey       black              *)
(*                                                                         *)
(* and shared by two threads: the mutator (the interpreter, in get_cell,   *)
(* the write barriers and treadmill_flip) and treadmill_scanner.           *)
(* sc->mutex covers insert_treadmill and the scanner's passes; get_cell    *)
(* and the pointer swap of treadmill_flip run without it, relying on the   *)
(* flip_active / scanner_finished handshake.                               *)
(***************************************************************************)
EXTENDS Integers, Sequences, FiniteSets, SequencesExt

CONSTANTS
    Cells,          \* the addresses of cells; bound: malloc has memory for these
    Nil,            \* sc->NIL, the first cell get_cell ever returns
    Arity,          \* pointer fields of a cell (car, cdr, or vector elements)
    NRegs,          \* registers of the interpreter: args, code, value, dump ...
    Settings,       \* [seg    |-> CELL_SEGSIZE: this many cells exist at the start,
                    \*  regs   |-> how many registers the program uses,
                    \*  margin |-> the 20000 of the growth condition,
                    \*  vecs   |-> lengths the program gives to mk_vector]
    GrowChunk,      \* cells added when no allocation was requested (100000)
    MaxRequest,     \* bound: the vectors of one cycle ask for no more cells
    MayRace,        \* the scanner may run inside get_cell's unlocked update
    MayFill,        \* the program may keep every cell of a cycle alive
    MayUnlink,      \* the program may unlink a cell it holds only in a register
    MayForce,       \* force may copy another cell over the promise
    MayStoreFirst,  \* a list may be linked to a cell that nothing has shaded
    MayHide         \* cells may be held by memory that the flip does not look at

ASSUME TreadmillAssumption ==
    /\ IsFiniteSet(Cells) /\ Nil \in Cells
    /\ \A s \in Settings : /\ s.seg \in 4 .. Cardinality(Cells)
                           /\ s.regs \in 1 .. NRegs /\ s.margin \in Nat
                           /\ s.vecs \subseteq Nat /\ IsFiniteSet(s.vecs)
    /\ Arity \in Nat \ {0} /\ NRegs \in Nat \ {0}
    /\ GrowChunk \in Nat /\ MaxRequest \in Nat
    /\ {MayRace, MayFill, MayUnlink, MayForce, MayStoreFirst, MayHide} \subseteq BOOLEAN

MaxCells == Cardinality(Cells)
Fields == 1 .. Arity
White == 0  Ecru == 1  Grey == 2  Black == 3     \* _list_colour

VARIABLES
    setting,    \* fixed: which program runs
    ring,       \* _cw, _ccw, _colour, _list_colour, the four pointers, sc->dark
    born,       \* the cells allocated so far: sc->total_memory_allocated of them
    request,    \* sc->allocation_request
    heap, regs, \* the pointers in cells and registers
    mpc, op,    \* the mutator: where it is, and the operation it is doing
    spc,        \* the scanner: where it is
    mutex,      \* sc->mutex is held by the scanner
    flipActive, scannerFinished,
    entitled    \* history: reachable at the last flip, or allocated since

gcvars == <<setting, born, request, entitled>>
vars == <<setting, ring, born, request, heap, regs, mpc, op, spc, mutex,
          flipActive, scannerFinished, entitled>>

(* The four lists. *)
Whites == {c \in born : ring.lc[c] = White}
Ecrus  == {c \in born : ring.lc[c] = Ecru}
Greys  == {c \in born : ring.lc[c] = Grey}
Blacks == {c \in born : ring.lc[c] = Black}
Dark   == Greys \cup Blacks

(* What the interpreter holds: its registers, and in register 0 the cell   *)
(* under construction, from the moment get_cell has taken it.              *)
Operand   == IF mpc = "take_write" THEN Nil ELSE op.obj
Registers == [r \in 0 .. NRegs |-> IF r \in DOMAIN regs THEN regs[r]
                                   ELSE IF r > 0 THEN Nil ELSE Operand]

C == INSTANCE Collector WITH
       Regs <- 0 .. NRegs, regs <- Registers,
       free <- Whites, ecru <- Ecrus, grey <- Greys, black <- Blacks,
       marking <- mpc = "mark"

H == INSTANCE Handshake WITH
       white <- Cardinality(Whites), ecru <- Cardinality(Ecrus),
       grey <- Cardinality(Greys),
       mpc <- IF mpc = "take_write" THEN "take" ELSE mpc

-----------------------------------------------------------------------------
(* The ring. *)

(* The cells clockwise from a up to, and not including, b. *)
Arc(r, a, b) ==
    LET walk[i \in 0 .. MaxCells] == IF i = 0 THEN a ELSE r.cw[walk[i - 1]]
    IN  {walk[i] : i \in {j \in 0 .. MaxCells - 1 : \A k \in 0 .. j : walk[k] # b}}

unlink(r, p) ==
    [r EXCEPT !.ccw[r.cw[p]] = r.ccw[p], !.cw[r.ccw[p]] = r.cw[p]]

(* p is linked clockwise of at. *)
splice(r, p, at) ==
    [r EXCEPT !.ccw = [@ EXCEPT ![p] = at, ![r.cw[at]] = p],
              !.cw  = [@ EXCEPT ![p] = r.cw[at], ![at] = p]]

(* Fault: bottom stays on the cell that is moved away. *)
insert_treadmill_KeepBottom(r, p) ==
    LET at == IF p = r.top THEN r.ccw[p] ELSE r.top
        moved == [r EXCEPT !.top = at, !.scan = IF @ = at THEN p ELSE @,
                           !.inserts = @ + 1, !.lc[p] = Grey]
    IN  IF r.colour[p] = r.dark THEN r
        ELSE [splice(unlink(moved, p), p, at) EXCEPT !.colour[p] = r.dark]

(* insert_treadmill moves a light cell to the end of the grey list.  The   *)
(* pointers step off the cell first; a light cell at treadmill_free is the *)
(* OUT OF MEMORY error, which leaves the ring alone.                       *)
insert_treadmill(r, p) ==
    LET light == r.colour[p] # r.dark
        isTop == p = r.top
        isBot == ~isTop /\ p = r.bottom
        at    == IF isTop THEN r.ccw[p] ELSE r.top
        moved == [r EXCEPT !.top = at,
                           !.bottom = IF isBot THEN r.cw[p] ELSE @,
                           !.free = IF isBot /\ p = @ THEN r.cw[p] ELSE @,
                           !.scan = IF @ = at THEN p ELSE @,
                           !.inserts = @ + 1,
                           !.lc[p] = Grey]
    IN  IF ~light \/ (~isTop /\ ~isBot /\ p = r.free) THEN r
        ELSE [splice(unlink(moved, p), p, at) EXCEPT !.colour[p] = r.dark]

insert_all(r, ps) ==
    LET after[i \in 0 .. Len(ps)] ==
            IF i = 0 THEN r ELSE insert_treadmill(after[i - 1], ps[i])
    IN  after[Len(ps)]

(* The new cells are linked counter-clockwise of bottom, in the order of   *)
(* the loop: with one cell, bottom._ccw is that cell already when its own  *)
(* links are set.                                                          *)
grow(r, new) ==
    LET n      == Len(new)
        before == IF n = 1 THEN new[1] ELSE r.ccw[r.bottom]
        at(c)  == CHOOSE i \in 1 .. n : new[i] = c
        isNew(c) == c \in Range(new)
    IN  [r EXCEPT
          !.cw = [c \in Cells |->
                    IF isNew(c) THEN IF at(c) = n THEN r.bottom ELSE new[at(c) + 1]
                    ELSE IF c = before THEN new[1] ELSE @[c]],
          !.ccw = [c \in Cells |->
                    IF isNew(c) THEN IF at(c) = 1 THEN before ELSE new[at(c) - 1]
                    ELSE IF c = r.bottom THEN new[n] ELSE @[c]],
          !.colour = [c \in Cells |-> IF isNew(c) THEN ~r.dark ELSE @[c]],
          !.lc = [c \in Cells |-> IF isNew(c) THEN White ELSE @[c]]]

(* The pointers after a flip: the cells that were dark are the new ecru    *)
(* list and the old ecru list is the new free list, without touching the   *)
(* colour of a cell.                                                       *)
swap(r) ==
    LET s == [r EXCEPT !.dark = ~@, !.bottom = r.cw[r.top],
                       !.top = r.ccw[r.free], !.scan = r.ccw[r.free]]
    IN  [s EXCEPT !.lc = [c \in Cells |->
            IF c \in Arc(s, s.free, s.bottom) THEN White ELSE Ecru]]

(* alloc_cellseg links the cells of seg in a ring, its first half free;    *)
(* get_cell then takes the first one for sc->NIL.                          *)
InitRing(seg) ==
    LET n     == Len(seg)
        at(c) == IF c \in Range(seg) THEN CHOOSE i \in 1 .. n : seg[i] = c ELSE 0
        half  == n \div 2
    IN  [cw  |-> [c \in Cells |-> seg[(at(c) % n) + 1]],
         ccw |-> [c \in Cells |-> seg[((at(c) - 2) % n) + 1]],
         colour |-> [c \in Cells |-> c = Nil],
         lc |-> [c \in Cells |-> IF c = Nil THEN Black
                                 ELSE IF at(c) <= half THEN White ELSE Ecru],
         dark |-> TRUE, inserts |-> 0, free |-> seg[2],
         bottom |-> seg[half + 1], top |-> seg[n], scan |-> seg[n]]

(* The sequences of n different cells of S. *)
Orders(n, S) == {q \in [1 .. n -> S] : \A i, j \in 1 .. n : q[i] = q[j] => i = j}

-----------------------------------------------------------------------------
Blank == [f \in Fields |-> Nil]
NoOp  == [dst |-> 1, obj |-> Nil, next |-> Nil,
          fill |-> Blank, todo |-> <<>>, len |-> 0]

Regs  == DOMAIN regs
Held  == {Nil} \cup {regs[r] : r \in Regs}

Init ==
    /\ setting \in Settings
    /\ \E seg \in Orders(setting.seg, Cells) :
          /\ seg[1] = Nil
          /\ ring = InitRing(seg)
          /\ born = Range(seg)
    /\ request = -1
    /\ heap = [c \in Cells |-> Blank]
    /\ regs = [r \in 1 .. setting.regs |-> Nil]
    /\ mpc = "run" /\ op = NoOp
    /\ spc = "start" /\ mutex = FALSE
    /\ flipActive = FALSE /\ scannerFinished = FALSE
    /\ entitled = {Nil}

-----------------------------------------------------------------------------
(* The mutator. *)

(* insert_treadmill's test of a colour, made without the mutex. *)
IsDark(c) == ring.colour[c] = ring.dark

(* A program with headroom lets some cell of a full cycle die. *)
Headroom == MayFill \/ ring.free # ring.bottom \/ ~(Dark \subseteq C!Live)

(* _cons and mk_closure: get_cell, a barrier on each operand, the fields. *)
cons(r, k) ==
    /\ mpc = "run" /\ Headroom
    /\ mpc' = "get_cell"
    /\ op' = [NoOp EXCEPT !.dst = r, !.fill = k, !.todo = k]
    /\ UNCHANGED <<gcvars, ring, heap, regs, spc, mutex, flipActive, scannerFinished>>

(* mk_vector: fill_vector shades and stores sc->NIL, and the length is    *)
(* added to the request.                                                  *)
MkVector(r, n) ==
    /\ mpc = "run" /\ Headroom
    /\ request + n <= MaxRequest
    /\ mpc' = "get_cell"
    /\ op' = [NoOp EXCEPT !.dst = r, !.len = n, !.todo = <<Nil>>]
    /\ UNCHANGED <<gcvars, ring, heap, regs, spc, mutex, flipActive, scannerFinished>>

(* car, cdr, vector-ref, s_save, s_return: registers change, no barrier. *)
Load(r, v) ==
    /\ mpc = "run"
    /\ regs' = [regs EXCEPT ![r] = v]
    /\ UNCHANGED <<gcvars, ring, heap, mpc, op, spc, mutex, flipActive, scannerFinished>>

(* set-car!, set-cdr!, vector-set!, set_slot_in_env: barrier, then store.  *)
Store(r, x, f, v) ==
    /\ mpc = "run"
    /\ x # Nil
    /\ \/ MayUnlink
       \/ LET h == [heap EXCEPT ![x][f] = v]
          IN  Held \subseteq C!ReachFrom(Dark \cup {v}, h)
    /\ mpc' = "barrier"
    /\ op' = [NoOp EXCEPT !.dst = r, !.obj = x,
                          !.fill = [heap[x] EXCEPT ![f] = v], !.todo = <<v>>]
    /\ UNCHANGED <<gcvars, ring, heap, regs, spc, mutex, flipActive, scannerFinished>>

(* reverse_in_place and the loop of append, for a list x of one cell: its  *)
(* cdr is stored first, and the barrier after it is for x, the new head.   *)
Cdr == Arity

Relink(r, x, v) ==
    /\ mpc = "run"
    /\ x \notin {Nil, v} /\ heap[x][Cdr] = Nil
    /\ MayStoreFirst \/ IsDark(v)
    /\ LET cell == [heap[x] EXCEPT ![Cdr] = v]
       IN  /\ heap' = [heap EXCEPT ![x] = cell]
           /\ op' = [NoOp EXCEPT !.dst = r, !.obj = x, !.fill = cell, !.todo = <<x>>]
    /\ mpc' = "barrier"
    /\ UNCHANGED <<gcvars, ring, regs, spc, mutex, flipActive, scannerFinished>>

(* OP_SAVE_FORCED: memcpy of the whole cell of the value over the promise, *)
(* with its links and its colours, and without a barrier.                  *)
SaveForced(r, promise, value) ==
    /\ mpc = "run"
    /\ promise # Nil
    /\ MayForce \/ value = promise
    /\ ring' = [ring EXCEPT !.cw[promise] = ring.cw[value],
                            !.ccw[promise] = ring.ccw[value],
                            !.colour[promise] = ring.colour[value],
                            !.lc[promise] = ring.lc[value]]
    /\ heap' = [heap EXCEPT ![promise] = heap[value]]
    /\ regs' = [regs EXCEPT ![r] = value]
    /\ UNCHANGED <<gcvars, mpc, op, spc, mutex, flipActive, scannerFinished>>

(* get_cell with cells left on the free list. *)
GetCell ==
    /\ mpc = "get_cell" /\ ring.free # ring.bottom
    /\ mpc' = "take"
    /\ UNCHANGED <<gcvars, ring, heap, regs, op, spc, mutex, flipActive, scannerFinished>>

(* get_cell on an empty free list enters treadmill_flip. *)
StartFlip ==
    /\ mpc = "get_cell" /\ ring.free = ring.bottom
    /\ mpc' = "spin" /\ flipActive' = TRUE
    /\ UNCHANGED <<gcvars, ring, heap, regs, op, spc, mutex, scannerFinished>>

(* The rest of get_cell, without the mutex: treadmill_free and its _cw are *)
(* read, the cell is cleared, and treadmill_free is written.               *)
TakeRead ==
    /\ mpc = "take"
    /\ op' = [op EXCEPT !.obj = ring.free, !.next = ring.cw[ring.free]]
    /\ mpc' = "take_write"
    /\ UNCHANGED <<gcvars, ring, heap, regs, spc, mutex, flipActive, scannerFinished>>

(* Fault: the cell is not given the current dark colour. *)
TakeWrite_Light ==
    /\ mpc = "take_write"
    /\ ring' = [ring EXCEPT !.free = op.next, !.lc[op.obj] = Black]
    /\ heap' = [heap EXCEPT ![op.obj] = Blank]
    /\ entitled' = entitled \cup {op.obj}
    /\ request' = request + op.len
    /\ op' = [op EXCEPT !.next = Nil]
    /\ mpc' = "barrier"
    /\ UNCHANGED <<setting, born, regs, spc, mutex, flipActive, scannerFinished>>

TakeWrite ==
    /\ mpc = "take_write"
    /\ ring' = [ring EXCEPT !.free = op.next, !.colour[op.obj] = ring.dark,
                            !.lc[op.obj] = Black]
    /\ heap' = [heap EXCEPT ![op.obj] = Blank]
    /\ entitled' = entitled \cup {op.obj}
    /\ request' = request + op.len
    /\ op' = [op EXCEPT !.next = Nil]
    /\ mpc' = "barrier"
    /\ UNCHANGED <<setting, born, regs, spc, mutex, flipActive, scannerFinished>>

(* insert_treadmill by the mutator returns at once for a dark cell.  For a *)
(* light one it asks for the mutex, and with the mutex reads the colour    *)
(* again: the scanner may have reached the cell in the meantime.           *)
BarrierDark ==
    /\ mpc = "barrier" /\ op.todo # <<>> /\ IsDark(Head(op.todo))
    /\ op' = [op EXCEPT !.todo = Tail(@)]
    /\ UNCHANGED <<gcvars, ring, heap, regs, mpc, spc, mutex, flipActive, scannerFinished>>

AskMutex ==
    /\ mpc = "barrier" /\ op.todo # <<>> /\ ~IsDark(Head(op.todo))
    /\ mpc' = "lock"
    /\ UNCHANGED <<gcvars, ring, heap, regs, op, spc, mutex, flipActive, scannerFinished>>

(* Fault: the barrier forgets the cell. *)
Insert_Skipped ==
    /\ mpc = "lock" /\ ~mutex
    /\ op' = [op EXCEPT !.todo = Tail(@)]
    /\ mpc' = "barrier"
    /\ UNCHANGED <<gcvars, ring, heap, regs, spc, mutex, flipActive, scannerFinished>>

Insert ==
    /\ mpc = "lock" /\ ~mutex
    /\ ring' = insert_treadmill(ring, Head(op.todo))
    /\ op' = [op EXCEPT !.todo = Tail(@)]
    /\ mpc' = "barrier"
    /\ UNCHANGED <<gcvars, heap, regs, spc, mutex, flipActive, scannerFinished>>

(* The fields are written and the cell becomes the result. *)
Write ==
    /\ mpc = "barrier" /\ op.todo = <<>>
    /\ heap' = [heap EXCEPT ![op.obj] = op.fill]
    /\ regs' = [regs EXCEPT ![op.dst] = op.obj]
    /\ op' = NoOp /\ mpc' = "run"
    /\ UNCHANGED <<gcvars, ring, spc, mutex, flipActive, scannerFinished>>

(* treadmill_flip, once the scanner has finished: the swap, and new memory *)
(* when this cycle kept too many cells.                                    *)
AllocSize == IF request >= 0 THEN request ELSE GrowChunk
MustGrow  == ring.inserts > Cardinality(born) \div 2 - setting.margin

FlipSwap ==
    /\ mpc = "spin" /\ scannerFinished
    /\ LET n == IF MustGrow THEN AllocSize ELSE 0
           s == swap(ring)
       IN  \E new \in Orders(n, Cells \ born) :
              /\ born' = born \cup Range(new)
              /\ ring' = IF n = 0 THEN s ELSE grow(s, new)
    /\ request' = -1
    /\ mpc' = "mark"
    /\ entitled' = C!Live
    /\ UNCHANGED <<setting, heap, regs, op, spc, mutex, flipActive, scannerFinished>>

(* malloc fails: NO AVAILABLE MEMORY, exit(1). *)
FlipExit ==
    /\ mpc = "spin" /\ scannerFinished
    /\ MustGrow /\ Cardinality(born) + AllocSize > MaxCells
    /\ mpc' = "exit" /\ spc' = "exit"
    /\ UNCHANGED <<gcvars, ring, heap, regs, op, mutex, flipActive, scannerFinished>>

(* treadmill_mark_roots, under the mutex: registers, sc->NIL, a and b.     *)
(* dump_stack_copy keeps the lists it has copied in memory from malloc     *)
(* while it makes the others, and the flip does not see those registers.   *)
Unseen == IF MayHide THEN SUBSET Regs ELSE {{}}

RootSeq(unseen) ==
    [r \in Regs |-> IF r \in unseen THEN Nil ELSE regs[r]] \o <<Nil>> \o op.todo

MarkRoots ==
    /\ mpc = "mark" /\ ~mutex
    /\ \E unseen \in Unseen : ring' = insert_all(ring, RootSeq(unseen))
    /\ mpc' = "marked"
    /\ UNCHANGED <<gcvars, heap, regs, op, spc, mutex, flipActive, scannerFinished>>

EndFlip ==
    /\ mpc = "marked"
    /\ ring' = [ring EXCEPT !.inserts = 0]
    /\ flipActive' = FALSE
    /\ mpc' = "signal"
    /\ UNCHANGED <<gcvars, heap, regs, op, spc, mutex, scannerFinished>>

(* Fault: one signal, without waiting for the scanner to start. *)
Signal_Once ==
    /\ mpc = "signal" /\ scannerFinished
    /\ spc' = IF spc = "waiting" THEN "start" ELSE spc
    /\ mpc' = "take"
    /\ UNCHANGED <<gcvars, ring, heap, regs, op, mutex, flipActive, scannerFinished>>

(* Treadmill_Guard is signalled, without its lock, until the scanner has   *)
(* started: a signal that comes before the wait is lost.                   *)
Signal ==
    /\ mpc = "signal" /\ scannerFinished
    /\ spc' = IF spc = "waiting" THEN "start" ELSE spc
    /\ UNCHANGED <<gcvars, ring, heap, regs, mpc, op, mutex, flipActive, scannerFinished>>

FlipReturn ==
    /\ mpc = "signal" /\ ~scannerFinished
    /\ mpc' = "take"
    /\ UNCHANGED <<gcvars, ring, heap, regs, op, spc, mutex, flipActive, scannerFinished>>

MutatorOp ==
    \/ \E r \in Regs, k \in [Fields -> Held] : cons(r, k)
    \/ \E r \in Regs, n \in setting.vecs : MkVector(r, n)
    \/ \E r \in Regs, c \in Held : \E v \in {c} \cup Range(heap[c]) : Load(r, v)
    \/ \E r \in Regs, x \in Held, f \in Fields, v \in Held : Store(r, x, f, v)
    \/ \E r \in Regs, x \in Held, v \in Held : Relink(r, x, v)
    \/ \E r \in Regs, p \in Held, v \in Held : SaveForced(r, p, v)

MutatorStep == GetCell \/ StartFlip \/ TakeRead \/ TakeWrite \/ BarrierDark
               \/ AskMutex \/ Insert \/ Write \/ FlipSwap \/ FlipExit \/ MarkRoots \/ EndFlip \/ Signal
               \/ FlipReturn

-----------------------------------------------------------------------------
(* The scanner thread. *)

(* The condition that ends the passes over the grey list. *)
PassesDone == flipActive /\ ring.scan = ring.top

(* The mutex is taken and scanner_finished cleared: at thread start, and   *)
(* after the wait on Treadmill_Guard.                                      *)
ScanStart ==
    /\ spc = "start" /\ ~mutex
    /\ mutex' = TRUE /\ scannerFinished' = FALSE
    /\ spc' = IF PassesDone THEN "finish" ELSE "scan"
    /\ UNCHANGED <<gcvars, ring, heap, regs, mpc, op, flipActive>>

(* One cell: its children are inserted, scan moves counter-clockwise, and  *)
(* every 16384 cells the mutex is released for a moment.                   *)
ScanCell ==
    /\ spc = "scan" /\ ring.scan # ring.top
    /\ MayRace \/ mpc # "take_write"
    /\ LET r == insert_all(ring, heap[ring.scan])
       IN  ring' = [r EXCEPT !.scan = r.ccw[r.scan], !.lc[r.scan] = Black]
    /\ \/ spc' = "scan"  /\ mutex' = mutex
       \/ spc' = "yield" /\ mutex' = FALSE
    /\ UNCHANGED <<gcvars, heap, regs, mpc, op, flipActive, scannerFinished>>

(* The grey list is empty: the scanner sleeps without the mutex. *)
ScanSleep ==
    /\ spc = "scan" /\ ring.scan = ring.top
    /\ spc' = "sleep" /\ mutex' = FALSE
    /\ UNCHANGED <<gcvars, ring, heap, regs, mpc, op, flipActive, scannerFinished>>

ScanRelock ==
    /\ spc \in {"yield", "sleep"} /\ ~mutex
    /\ mutex' = TRUE
    /\ spc' = IF spc = "sleep" /\ PassesDone THEN "finish" ELSE "scan"
    /\ UNCHANGED <<gcvars, ring, heap, regs, mpc, op, flipActive, scannerFinished>>

(* The mutex is released before scanner_finished is set, and the wait on   *)
(* Treadmill_Guard comes after that.                                       *)
ScanUnlock ==
    /\ spc = "finish"
    /\ spc' = "finished" /\ mutex' = FALSE
    /\ UNCHANGED <<gcvars, ring, heap, regs, mpc, op, flipActive, scannerFinished>>

ScanFinished ==
    /\ spc = "finished"
    /\ spc' = "to_wait" /\ scannerFinished' = TRUE
    /\ UNCHANGED <<gcvars, ring, heap, regs, mpc, op, mutex, flipActive>>

ScanWait ==
    /\ spc = "to_wait"
    /\ spc' = "waiting"
    /\ UNCHANGED <<gcvars, ring, heap, regs, mpc, op, mutex, flipActive, scannerFinished>>

Scanner == ScanStart \/ ScanCell \/ ScanSleep \/ ScanRelock \/ ScanUnlock
           \/ ScanFinished \/ ScanWait

(* exit(1) is the one way the system stops. *)
Exited == mpc = "exit" /\ UNCHANGED vars

Next == MutatorOp \/ MutatorStep \/ Scanner \/ Exited

Spec == Init /\ [][Next]_vars

-----------------------------------------------------------------------------
(* treadmill_flip's checks on the ring: the cells are one cycle in both    *)
(* directions ("LOST Memory"), and the four arcs between the pointers are  *)
(* exactly the four lists, without gaps.                                   *)
RingIntact ==
    /\ \A c \in born : ring.ccw[ring.cw[c]] = c /\ ring.cw[ring.ccw[c]] = c
    /\ Arc(ring, ring.free, ring.bottom) = Whites
    /\ Arc(ring, ring.bottom, ring.cw[ring.top]) = Ecrus
    /\ Arc(ring, ring.cw[ring.top], ring.cw[ring.scan]) = Greys
    /\ Arc(ring, ring.cw[ring.scan], ring.free) = Blacks

(* sc->dark tells the reached cells from the unreached ones although no    *)
(* flip recolours a cell.                                                  *)
ColoursMatch ==
    \A c \in born :
       /\ ring.lc[c] \in {Grey, Black} => ring.colour[c] = ring.dark
       /\ ring.lc[c] = Ecru => ring.colour[c] # ring.dark

(* The treadmill implements the abstract collector: no step of the ring,   *)
(* of a barrier or of the flip does what the collector of the proofs would *)
(* not do.  So no cell that the interpreter can reach is freed, and no     *)
(* cell that was garbage at the last flip is kept.                         *)
Refines == C!Spec

(* Its two threads follow the handshake of the proofs. *)
RefinesHandshake == H!Spec

(* get_cell, TREADMILL_CHECKS: "Cell is not empty. Catastrophic error in GC". *)
CellIsEmpty == mpc = "take" => ring.lc[ring.free] = White

(* treadmill_flip, TREADMILL_CHECKS: "Top & Bottom must both be ecru!". *)
TopBottomEcru == mpc = "marked" => ring.lc[ring.top] = Ecru /\ ring.lc[ring.bottom] = Ecru

(* insert_treadmill, TREADMILL_CHECKS: "should not be inserting a free     *)
(* cell on the grey list!!!".                                              *)
RootsNotFree == mpc = "mark" => \A c \in Held : ring.lc[c] # White

(* treadmill_flip, TREADMILL_CHECKS: "LOST Memory _ccw": a walk from        *)
(* treadmill_top along _ccw meets every cell, in the ring that a flip      *)
(* finds and in the one that it leaves to the next.                        *)
CcwComplete ==
    LET walk[i \in 0 .. MaxCells] == IF i = 0 THEN ring.top ELSE ring.ccw[walk[i - 1]]
    IN  mpc \in {"spin", "mark"} => born \subseteq Range(walk)
=============================================================================
