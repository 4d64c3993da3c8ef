------------------------------- MODULE Zones -------------------------------
(***************************************************************************)
(* The memory zones of EXTZones.cpp and the code that compiled xtlang runs *)
(* around them: memzone/letz, zone_cleanup, callback, bind-func and async. *)
(*                                                                         *)
(* A zone hands out memory of one block from the front; when a request     *)
(* does not fit, it gets a larger block and keeps the old ones until it is *)
(* destroyed.  Every thread has a stack of zones and allocates from the    *)
(* top.  Addresses are those of posix_memalign: its blocks begin at        *)
(* multiples of the alignment and lie as close to each other as that       *)
(* allows, so that a write past a block and its padding hits the next one. *)
(***************************************************************************)
EXTENDS Integers, Sequences, FiniteSets

CONSTANTS Threads,       \* threads with a stack of their own: Scheme processes, audio
          Workers,       \* threads that async forks
          ZoneIds,       \* zones, each created at most once
          Funcs,         \* names bound by bind-func
          None,
          Align,         \* LLVM_ZONE_ALIGN
          MinSize,       \* the least size of an extended zone, 1024 bytes
          DefaultSize,   \* the size of the zone that an empty stack gets
          CallSize,      \* the size of the zone of a callback or a thread, 4096
          ZoneSizes,     \* sizes asked of memzone and bind-func
          Requests,      \* sizes asked of llvm_zone_malloc
          ClosureShapes, \* sizes of a closure, its environment and its table
          MaxAllocs,     \* bound on the steps that allocate
          MayStraddle,   \* a closure may be made in a zone too full for it
          MayOuter,      \* a callback may be given data of an outer zone
          MayResetHooked \* reset_zone may be called on a zone with hooks

\* Zones and requests have any size: nothing in the code aligns them.
ASSUME ZonesAssumption ==
    /\ Align \in Nat \ {0}
    /\ MinSize \in Nat /\ DefaultSize \in Nat /\ CallSize \in Nat
    /\ ZoneSizes \subseteq Nat /\ Requests \subseteq Nat
    /\ ClosureShapes \subseteq Requests \X Requests \X Requests

\* A thread of async is no Scheme process, and None is no zone.
ASSUME ThreadsAssumption == Threads \cap Workers = {} /\ None \notin ZoneIds

VARIABLES heap,      \* the zones, their blocks and the objects in them
          stack,     \* tls_llvm_zone_stack of every thread, the top first
          callbacks, \* callbacks that wait in the scheduler
          pending,   \* zones that a task of the scheduler will destroy
          varZone,   \* the _var_zone of every bound name
          futures,   \* what async made, by worker
          closures,  \* closures and the sizes written in front of them
          allocs     \* steps so far that may allocate

vars == <<heap, stack, callbacks, pending, varZone, futures, closures, allocs>>

----------------------------------------------------------------------------
(* The allocator: functions from heaps to heaps. *)

MaxOf(m, n) == IF m > n THEN m ELSE n

\* (size + LLVM_ZONE_ALIGNPAD) & ~LLVM_ZONE_ALIGNPAD
Round(n) == ((n + Align - 1) \div Align) * Align

NoZone == [state |-> "none", base |-> 0, offset |-> 0, mark |-> 0, size |-> 0,
           memories |-> {}, hooks |-> {}]

\* The heap with another zone at z, after posix_memalign gave out n bytes: the
\* next block begins at the next multiple of the alignment.
Grown(h, z, zone, n) == [h EXCEPT !.zone[z] = zone, !.brk = @ + Round(n)]

\* The heap with another zone at z and other objects.
Updated(h, z, zone, live) == [h EXCEPT !.zone[z] = zone, !.live = live]

NewZone(base, size) == [NoZone EXCEPT !.state = "open", !.base = base, !.size = size]

\* llvm_zone_create, with a fresh block of the C library
Create(h, z, size) == Grown(h, z, NewZone(h.brk, size), size)

\* Mutant: the test forgets the room for the stored size.
Fits_NoHeader(zone, r) == zone.offset + r < zone.size

Fits(zone, r) == zone.offset + r + Align < zone.size

ExtendedSize(zone, r) == MaxOf(2 * MaxOf(r + Align, zone.size), MinSize)

\* Mutant: the old block is recorded with the size of the new one.
Extended_NewSize(zone, r, at) ==
    [zone EXCEPT !.base = at, !.offset = 0, !.size = ExtendedSize(zone, r),
                 !.memories = IF zone.size = 0 THEN @
                              ELSE @ \cup {[base |-> zone.base, size |-> ExtendedSize(zone, r)]}]

\* A zone of size 0 has its block replaced, any other keeps the old one.
Extended(zone, r, at) ==
    [zone EXCEPT !.base = at, !.offset = 0, !.size = ExtendedSize(zone, r),
                 !.memories = IF zone.size = 0 THEN @
                              ELSE @ \cup {[base |-> zone.base, size |-> zone.size]}]

MakeRoom(h, z, r) ==
    IF Fits(h.zone[z], r) THEN h
    ELSE Grown(h, z, Extended(h.zone[z], r, h.brk), ExtendedSize(h.zone[z], r))

\* An object is where its size is stored; its pointer is Align further on.
ObjectAt(h, z, r) ==
    [zone |-> z, at |-> h.zone[z].base + h.zone[z].offset, len |-> Round(r + Align), req |-> r]

NewObject(h, z, r) == ObjectAt(MakeRoom(h, z, r), z, r)

\* Mutant: the offset moves by what was asked, without the stored size.
Place_NoHeader(h, z, r) ==
    Updated(h, z, [h.zone[z] EXCEPT !.offset = @ + Round(r)], h.live \cup {ObjectAt(h, z, r)})

Place(h, z, r) ==
    Updated(h, z, [h.zone[z] EXCEPT !.offset = @ + Round(r + Align)],
            h.live \cup {ObjectAt(h, z, r)})

\* llvm_zone_malloc, which runs under alloc_mutex
Malloc(h, z, r) == Place(MakeRoom(h, z, r), z, r)

ObjectsOf(h, z) == {o \in h.live : o.zone = z}

\* llvm_zone_reset: the objects of the zone are given up, the blocks are not.
Reset(h, z) == Updated(h, z, [h.zone[z] EXCEPT !.offset = 0], h.live \ ObjectsOf(h, z))

\* llvm_zone_destroy: the block, the older blocks and the zone are freed.
Destroy(h, z) ==
    Updated(h, z, [NoZone EXCEPT !.state = "gone"], h.live \ ObjectsOf(h, z))

Blocks(zone) == {[base |-> zone.base, size |-> zone.size]} \cup zone.memories

\* Mutant: only the newest block is looked at.
PtrInZone_Newest(zone, o) ==
    zone.base <= o.at + Align /\ o.at + Align < zone.base + zone.size

\* llvm_ptr_in_zone, of the pointer to an object
PtrInZone(zone, o) ==
    \E b \in Blocks(zone) : b.base <= o.at + Align /\ o.at + Align < b.base + b.size

\* zcopy of at most one object: only what is in the zone `from' is copied.
ZCopied(h, ptrs, from) == {o \in ptrs : PtrInZone(h.zone[from], o)}

ZCopyHeap(h, ptrs, from, to) ==
    IF ZCopied(h, ptrs, from) = {} THEN h
    ELSE Malloc(h, to, (CHOOSE o \in ptrs : TRUE).req)

ZCopy(h, ptrs, from, to) ==
    IF ZCopied(h, ptrs, from) = {} THEN ptrs
    ELSE {NewObject(h, to, (CHOOSE o \in ptrs : TRUE).req)}

----------------------------------------------------------------------------
(* The stacks of zones.  A frame holds the zone and the objects that the   *)
(* code running above it has pointers to.                                  *)

Frame(z, kind, held) == [zone |-> z, kind |-> kind, held |-> held]

Fresh(z) == heap.zone[z].state = "none"

CanAlloc == allocs < MaxAllocs

Top(t) == Head(stack[t])

\* The thread runs compiled code; a thread of async stops for good.
Running(t) == stack[t] # <<>> /\ Head(stack[t]).kind # "ended"

\* At most one of the objects in a set: an argument or a result is a pointer
\* to one of them or no pointer at all.
AtMostOne(S) == {{}} \cup {{o} : o \in S}

Init ==
    /\ heap = [zone |-> [z \in ZoneIds |-> NoZone], brk |-> 0, live |-> {}]
    /\ stack = [t \in Threads \cup Workers |-> <<>>]
    /\ callbacks = {}
    /\ pending = {}
    /\ varZone = [f \in Funcs |-> None]
    /\ futures = [u \in Workers |-> [state |-> "none", zone |-> None, res |-> {}]]
    /\ closures = {}
    /\ allocs = 0

\* llvm_peek_zone_stack on an empty stack pushes a default zone.
PeekEmpty(t, z) ==
    /\ t \in Threads /\ stack[t] = <<>> /\ Fresh(z)
    /\ heap' = Create(heap, z, DefaultSize)
    /\ stack' = [stack EXCEPT ![t] = <<Frame(z, "default", {})>>]
    /\ UNCHANGED <<callbacks, pending, varZone, futures, closures, allocs>>

\* zalloc: the new object is held by the code that runs on the top zone.
Alloc(t, r) ==
    /\ Running(t) /\ CanAlloc
    /\ heap' = Malloc(heap, Top(t).zone, r)
    /\ stack' = [stack EXCEPT ![t][1].held = @ \cup {NewObject(heap, Top(t).zone, r)}]
    /\ allocs' = allocs + 1
    /\ UNCHANGED <<callbacks, pending, varZone, futures, closures>>

\* __make-closure: llvm_zone_mark, the closure, its environment and its
\* address table, then llvm_zone_ptr_set_size with llvm_zone_mark_size.
ClosureHeap(h, z, rs) ==
    Malloc(Malloc(Malloc(Updated(h, z, [h.zone[z] EXCEPT !.mark = h.zone[z].offset], h.live),
                         z, rs[1]),
                  z, rs[2]),
           z, rs[3])

\* Mutant: the mark is set after the closure itself was allocated.
ClosureSize_LateMark(h, z, rs) ==
    ClosureHeap(h, z, rs).zone[z].offset - Malloc(h, z, rs[1]).zone[z].offset

ClosureSize(h, z, rs) == ClosureHeap(h, z, rs).zone[z].offset - h.zone[z].offset

\* No block boundary falls into the closure, unless MayStraddle lets it.
StraddleGuard(h, z, rs) ==
    MayStraddle \/ ClosureHeap(h, z, rs).zone[z].base = h.zone[z].base

CompleteSize(rs) == Round(rs[1] + Align) + Round(rs[2] + Align) + Round(rs[3] + Align)

MakeClosure(t, rs) ==
    LET z == Top(t).zone IN
    /\ Running(t) /\ CanAlloc
    /\ StraddleGuard(heap, z, rs)
    /\ heap' = ClosureHeap(heap, z, rs)
    /\ closures' = closures \cup {[sizes |-> rs, size |-> ClosureSize(heap, z, rs)]}
    /\ stack' = [stack EXCEPT ![t][1].held = @ \cup {NewObject(heap, z, rs[1])}]
    /\ allocs' = allocs + 1
    /\ UNCHANGED <<callbacks, pending, varZone, futures>>

\* zone_cleanup: a hook, allocated in the zone, is put on its list.
ZoneCleanup(t, r) ==
    LET z == Top(t).zone
        hook == NewObject(heap, z, r) IN
    /\ Running(t) /\ CanAlloc
    /\ heap' = LET h == Malloc(heap, z, r)
               IN  Updated(h, z, [h.zone[z] EXCEPT !.hooks = @ \cup {hook}], h.live)
    /\ allocs' = allocs + 1
    /\ UNCHANGED <<stack, callbacks, pending, varZone, futures, closures>>

\* reset_zone of the top zone, as the audio callback does after every call of
\* the dsp closure; what was in the zone is no longer held.
ResetZone(t) ==
    LET z == Top(t).zone IN
    /\ Running(t)
    /\ MayResetHooked \/ heap.zone[z].hooks = {}
    /\ heap' = Reset(heap, z)
    /\ stack' = [stack EXCEPT ![t][1].held = {o \in @ : o.zone # z}]
    /\ UNCHANGED <<callbacks, pending, varZone, futures, closures, allocs>>

\* memzone and letz begin with push_new_zone.
BeginMemzone(t, z, s) ==
    /\ Running(t) /\ Fresh(z)
    /\ heap' = Create(heap, z, s)
    /\ stack' = [stack EXCEPT ![t] = <<Frame(z, "memzone", {})>> \o @]
    /\ UNCHANGED <<callbacks, pending, varZone, futures, closures, allocs>>

AllHeld(t) == UNION {stack[t][i].held : i \in DOMAIN stack[t]}

\* The end of memzone: pop_zone, the result is copied to the zone below, and
\* the popped zone is destroyed after its hooks ran, or later by a task,
\* which runs no hooks.
EndMemzone(t, res, delayed) ==
    LET z == Top(t).zone
        below == stack[t][2]
        h == ZCopyHeap(heap, res, z, below.zone) IN
    /\ Running(t) /\ Top(t).kind = "memzone" /\ CanAlloc
    /\ heap' = IF delayed THEN h ELSE Destroy(h, z)
    /\ pending' = IF delayed THEN pending \cup {z} ELSE pending
    /\ stack' = [stack EXCEPT ![t] = [Tail(stack[t]) EXCEPT ![1].held =
                                        @ \cup ZCopy(heap, res, z, below.zone)]]
    /\ allocs' = allocs + 1
    /\ UNCHANGED <<callbacks, varZone, futures, closures>>

\* callback: a zone for the call is created and the argument copied into it.
Schedule(t, z, arg) ==
    LET made == Create(heap, z, CallSize) IN
    /\ Running(t) /\ Fresh(z) /\ CanAlloc
    /\ MayOuter \/ arg \subseteq ObjectsOf(heap, Top(t).zone)
    /\ heap' = ZCopyHeap(made, arg, Top(t).zone, z)
    /\ callbacks' = callbacks \cup {[zone |-> z, arg |-> ZCopy(made, arg, Top(t).zone, z)]}
    /\ allocs' = allocs + 1
    /\ UNCHANGED <<stack, pending, varZone, futures, closures>>

\* The _callback function pushes the zone of the call, and afterwards pops
\* and destroys it.  Callbacks run at the top level of a thread.
RunCallback(t, cb) ==
    /\ t \in Threads
    /\ \A i \in DOMAIN stack[t] : stack[t][i].kind = "default"
    /\ callbacks' = callbacks \ {cb}
    /\ stack' = [stack EXCEPT ![t] = <<Frame(cb.zone, "callback", cb.arg)>> \o @]
    /\ UNCHANGED <<heap, pending, varZone, futures, closures, allocs>>

\* Mutant: the zone of the call is popped and forgotten.
EndCallback_Forget(t) ==
    /\ Running(t) /\ Top(t).kind = "callback"
    /\ stack' = [stack EXCEPT ![t] = Tail(@)]
    /\ UNCHANGED <<heap, callbacks, pending, varZone, futures, closures, allocs>>

EndCallback(t) ==
    /\ Running(t) /\ Top(t).kind = "callback"
    /\ heap' = Destroy(heap, Top(t).zone)
    /\ stack' = [stack EXCEPT ![t] = Tail(@)]
    /\ UNCHANGED <<callbacks, pending, varZone, futures, closures, allocs>>

\* bind-func: the closure is made in a zone of its own, which replaces the one
\* of the last binding; that one is destroyed 441000 samples later.
Rebind(t, f, z, s, rs) ==
    LET made == Create(heap, z, s) IN
    /\ Running(t) /\ Fresh(z) /\ CanAlloc
    /\ StraddleGuard(made, z, rs)
    /\ heap' = ClosureHeap(made, z, rs)
    /\ closures' = closures \cup {[sizes |-> rs, size |-> ClosureSize(made, z, rs)]}
    /\ varZone' = [varZone EXCEPT ![f] = z]
    /\ pending' = pending \cup ({varZone[f]} \ {None})
    /\ allocs' = allocs + 1
    /\ UNCHANGED <<stack, callbacks, futures>>

\* The scheduler runs the task of llvm_destroy_zone_after_delay.
DestroyDelayed(z) ==
    /\ z \in pending
    /\ heap' = Destroy(heap, z)
    /\ pending' = pending \ {z}
    /\ UNCHANGED <<stack, callbacks, varZone, futures, closures, allocs>>

\* async: a zone for the thread is pushed, its closure made there, the zone
\* popped; the thread pushes it again.
Fork(t, u, z, rs) ==
    LET made == Create(heap, z, CallSize) IN
    /\ t \in Threads /\ Running(t) /\ Fresh(z) /\ CanAlloc
    /\ futures[u].state = "none"
    /\ StraddleGuard(made, z, rs)
    /\ heap' = ClosureHeap(made, z, rs)
    /\ closures' = closures \cup {[sizes |-> rs, size |-> ClosureSize(made, z, rs)]}
    /\ futures' = [futures EXCEPT ![u] = [state |-> "running", zone |-> z, res |-> {}]]
    /\ stack' = [stack EXCEPT ![u] = <<Frame(z, "borrowed", {})>>]
    /\ allocs' = allocs + 1
    /\ UNCHANGED <<callbacks, pending, varZone>>

\* The thread ends with pop_zone, which peeks at a stack that is empty now.
WorkerEnd(u, z, res) ==
    /\ Running(u) /\ Top(u).kind = "borrowed" /\ Fresh(z)
    /\ heap' = Create(heap, z, DefaultSize)
    /\ futures' = [futures EXCEPT ![u].state = "finished", ![u].res = res]
    /\ stack' = [stack EXCEPT ![u] = <<Frame(z, "ended", {})>>]
    /\ UNCHANGED <<callbacks, pending, varZone, closures, allocs>>

\* The future: join, copy the result, destroy the zone of the thread.
Join(t, u) ==
    LET z == futures[u].zone
        res == futures[u].res IN
    /\ t \in Threads /\ Running(t) /\ CanAlloc
    /\ futures[u].state = "finished"
    /\ heap' = Destroy(ZCopyHeap(heap, res, z, Top(t).zone), z)
    /\ stack' = [stack EXCEPT ![t][1].held = @ \cup ZCopy(heap, res, z, Top(t).zone)]
    /\ futures' = [futures EXCEPT ![u] = [state |-> "joined", zone |-> None, res |-> {}]]
    /\ allocs' = allocs + 1
    /\ UNCHANGED <<callbacks, pending, varZone, closures>>

Compiled(t) ==
    \/ \E z \in ZoneIds : PeekEmpty(t, z)
    \/ \E r \in Requests : Alloc(t, r) \/ ZoneCleanup(t, r)
    \/ \E rs \in ClosureShapes : MakeClosure(t, rs)
    \/ ResetZone(t)
    \/ \E z \in ZoneIds, s \in ZoneSizes : BeginMemzone(t, z, s)
    \/ \E res \in AtMostOne(AllHeld(t)), delayed \in BOOLEAN : EndMemzone(t, res, delayed)
    \/ \E z \in ZoneIds, arg \in AtMostOne(AllHeld(t)) : Schedule(t, z, arg)
    \/ \E cb \in callbacks : RunCallback(t, cb)
    \/ EndCallback(t)
    \/ \E f \in Funcs, z \in ZoneIds, s \in ZoneSizes, rs \in ClosureShapes : Rebind(t, f, z, s, rs)
    \/ \E u \in Workers, z \in ZoneIds, rs \in ClosureShapes : Fork(t, u, z, rs)
    \/ \E z \in ZoneIds, res \in AtMostOne(AllHeld(t)) : WorkerEnd(t, z, res)
    \/ \E u \in Workers : Join(t, u)

Next ==
    \/ \E t \in Threads \cup Workers : Compiled(t)
    \/ \E z \in ZoneIds : DestroyDelayed(z)

Spec == Init /\ [][Next]_vars

----------------------------------------------------------------------------
(* Properties. *)

Open(z) == heap.zone[z].state = "open"

ObjectType == [zone : ZoneIds, at : Nat, len : Nat, req : Requests]

BlockType == [base : Nat, size : Nat]

ZoneType == [state : {"none", "open", "gone"}, base : Nat, offset : Nat, mark : Nat,
             size : Nat, memories : SUBSET BlockType, hooks : SUBSET ObjectType]

HeapType == [zone : [ZoneIds -> ZoneType], brk : Nat, live : SUBSET ObjectType]

FrameType == [zone : ZoneIds, kind : {"default", "memzone", "callback", "borrowed", "ended"},
              held : SUBSET ObjectType]

\* The state has the shape of the structures of EXTZones.h and of the code
\* that the compiler emits around them.
TypeOK ==
    /\ heap \in HeapType
    /\ stack \in [Threads \cup Workers -> Seq(FrameType)]
    /\ callbacks \subseteq [zone : ZoneIds, arg : SUBSET ObjectType]
    /\ pending \subseteq ZoneIds
    /\ varZone \in [Funcs -> ZoneIds \cup {None}]
    /\ futures \in [Workers -> [state : {"none", "running", "finished", "joined"},
                                zone : ZoneIds \cup {None}, res : SUBSET ObjectType]]
    /\ closures \subseteq [sizes : ClosureShapes, size : Int]
    /\ allocs \in Nat

\* The stored size and the bytes that were asked for, up to an address.
EndsBelow(o, e) == o.at + Align + o.req <= e

\* What llvm_zone_malloc hands out lies in a block that the zone owns, whatever
\* its sizes are: the block that the object was made in, or an old one.
InBounds ==
    \A o \in heap.live : \E b \in Blocks(heap.zone[o.zone]) :
        b.base <= o.at /\ EndsBelow(o, b.base + b.size)

\* What llvm_zone_malloc clears and takes, the size rounded up, lies in such a
\* block too.  It does not: the test comes before the rounding.
ClearsOwnBlock ==
    \A o \in heap.live : \E b \in Blocks(heap.zone[o.zone]) :
        b.base <= o.at /\ o.at + o.len <= b.base + b.size

Apart(o, p) == o.at + o.len <= p.at \/ p.at + p.len <= o.at

\* No two objects share memory, nor does what one of them clears past the end
\* of its block reach another, whatever was extended, reset or destroyed in
\* between.
Disjoint == \A o, p \in heap.live : o # p => Apart(o, p)

\* llvm_ptr_in_zone finds exactly the pointers of the zone, in the old blocks
\* too: zcopy relies on it to tell what must be copied.
PtrInZoneExact ==
    \A o \in heap.live, z \in ZoneIds :
        Open(z) => (PtrInZone(heap.zone[z], o) <=> z = o.zone)

\* Every pointer that running code, a waiting callback or an unread future has
\* is to an object that is still there, and so is every cleanup hook.
HeldLive ==
    /\ \A t \in Threads \cup Workers : AllHeld(t) \subseteq heap.live
    /\ \A cb \in callbacks : cb.arg \subseteq heap.live
    /\ \A u \in Workers : futures[u].res \subseteq heap.live
    /\ \A z \in ZoneIds : Open(z) => heap.zone[z].hooks \subseteq heap.live

\* The frames of a thread that own z: a zone that async pushes again is owned
\* by the future.
Frames(t, z) ==
    {i \in DOMAIN stack[t] : stack[t][i].zone = z /\ stack[t][i].kind # "borrowed"}

FrameOwners(z) == UNION {{<<"stack", t, i>> : i \in Frames(t, z)} : t \in Threads \cup Workers}

TaskOwners(z) == {<<"pending", y>> : y \in pending \cap {z}}

CallbackOwners(z) == {<<"callback", cb.arg>> : cb \in {c \in callbacks : c.zone = z}}

NameOwners(z) == {<<"bound", f>> : f \in {g \in Funcs : varZone[g] = z}}

FutureOwners(z) == {<<"future", u>> : u \in {v \in Workers : futures[v].zone = z}}

Owners(z) ==
    FrameOwners(z) \cup TaskOwners(z) \cup CallbackOwners(z) \cup NameOwners(z) \cup FutureOwners(z)

\* Whoever will pop and destroy, or destroy, a zone is alone in that: no zone
\* is destroyed twice or under a thread that allocates from it, and none is
\* forgotten.
OneOwner ==
    \A z \in ZoneIds : Cardinality(Owners(z)) = IF Open(z) THEN 1 ELSE 0

\* The size that llvm_zone_ptr_set_size writes in front of a closure is the
\* complete size of the closure, its environment and its table.
ClosuresSized == \A c \in closures : c.size = CompleteSize(c.sizes)
=============================================================================
