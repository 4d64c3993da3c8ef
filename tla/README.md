# Extempore in TLA+

Extempore is a live-coding environment: Scheme interpreters run in threads of
one process, compile a second language through LLVM, and schedule code to run
at sample-accurate times of an audio clock. This directory holds TLA+
specifications of its C++ runtime (`src/src`, `src/include`) and of the code
that the compiler and the library put around it (`src/runtime`), TLC models of
them, and TLAPS proofs about them.

## 1. The system

| component | state | operations | hard behaviour |
|---|---|---|---|
| Garbage collector (`Scheme.cpp`) | a ring of cells with `_cw`/`_ccw` links, `_colour`, four pointers `treadmill_free/bottom/top/scan`, the bit `dark`, `allocation_request`, the flags `treadmill_flip_active`, `treadmill_scanner_finished` | `get_cell`, `insert_treadmill` (the write barrier), `treadmill_flip`, `treadmill_mark_roots`, `treadmill_scanner` | a mutator and a scanner thread share the ring; some updates are unlocked; colours are never reset |
| Interpreter (`Scheme.cpp`) | registers `args code value envir`, the dump stack, the global environment | about 150 opcodes; `scheme_load_string`, `scheme_call` | argument lists are reversed in place while continuations hold frames with them; errors, hooks and the time limit leave the loop anywhere; the next request must not notice |
| Task scheduler (`TaskScheduler.cpp`, `PriorityQueue.h`, `Task.h`) | a priority queue of tasks, `m_numFrames`, the clock `UNIV::TIME` | `add`, `timeSlice`, `queueThreadImpl` | woken by the audio callback with an unlocked signal; runs tasks that add tasks; its mode is fixed when its thread starts |
| Audio device (`AudioDevice.cpp`) | `DEVICE_TIME`, the DSP closures, worker threads and their counters | `audioCallback`, `audioCallbackMT`, `audioCallbackMTBuf` | real-time callback, busy-waiting barrier with its workers |
| Scheme process (`SchemeProcess.cpp`) | a task queue, client sockets, an interpreter | `serverImpl`, `taskImpl`, `addCallback`, `createSchemeTask` | two threads and every caller of callbacks share the queue |
| REPL, IPC (`SchemeREPL.cpp`, `ffi/ipc.inc`) | named connections | connect, write, close | stale registrations |
| Zones (`EXTZones.cpp`) | per-thread stack of bump allocators | create, malloc, mark, reset, destroy, push, pop; used by `memzone`, `callback`, `bind-func`, `async` | extension while pointers into the old block live; delayed destruction by a scheduled task; zones handed to callbacks and threads |
| OSC (`OSC.cpp`) | sockets, partial SLIP frames | encode, decode, options, UDP and TCP server threads | frames split over reads; one thread with blocking reads for all clients; options replaced by a second server |
| Closure address table (`EXTClosureAddressTable.cpp`) | linked list of names, offsets and types | add, look up, check | none concurrent |
| Monitors (`EXTMonitor.h` and friends) | a mutex and a condition | lock, unlock, wait, signal | a signal with no waiter is lost; `wait` has no predicate |
| LLVM bridge, FFI (`EXTLLVM.cpp`, `SchemeFFI.cpp`, `ffi/`) | the JIT, tables of types | compile, bind, schedule | callbacks into the scheduler |
| Globals, codecs (`UNIV.cpp`) | `TIME`, `TIME_DIVISION`, options | base64, name mangling, string replacement | clock read and written by several threads |
| Start-up (`Extempore.cpp`) | options | starts scheduler, device, processes | the order of thread starts |

`src/src/pcre`, `src/src/networking-ts-impl`, `libs` and `examples` are
third-party code or programs that Extempore runs, and are left aside, but for
`async` of `libs/core/xthread.xtm`. Of `runtime`, which is the compiler and the
library in Scheme, the pieces are modelled that give the C++ code its protocol:
`memzone`, `callback` and `bind-func`, `catch` and `throw`, `sys:sleep`.

How they interact: the audio callback advances `UNIV::TIME` and wakes the
scheduler; the scheduler pops due tasks and calls a Scheme process, which queues
them for its interpreter; the interpreter allocates cells, which drives the
collector, and schedules more tasks. Compiled code allocates from zones; the
scheduler runs its callbacks and destroys zones after a delay. OSC servers call
Scheme handlers of the process that started them.

What makes each one correct: the collector never frees a cell the interpreter
can reach, keeps no garbage beyond one flip, never loses a cell of the ring and
never stops the interpreter for good; the scheduler runs every task once, not
early, the earliest first, and never sleeps for ever over a due task; the DSP
barrier hands over a buffer only when every worker has written it; a Scheme
process runs what it is sent in order; a request gives what the language says,
or an error, whatever the requests before it did; a zone is not destroyed while
in use, and its objects do not overlap; an OSC message arrives whole, with the
arguments that were sent, at the handler of its port.

## 2. Plan

The order follows what would hurt most if it were wrong.

1. *Collector* (done). `Collector` is the abstract specification: four colour
   sets and what a mutator and a marker may do with them. `Handshake` is the
   protocol by which two threads take turns, with the ring reduced to the
   lengths of its lists. `Treadmill` is the detailed specification of both and
   is shown to implement each.
2. *Scheduler* (done). `Agenda` is what the scheduler promises; `Scheduler` is
   the thread, the audio callback that wakes it and the start-up code, shown to
   implement it.
3. *Scheme process* (done, but for its shutdown). `SchemeProcess` composes the
   clients, the server thread, the task queue, the task thread and the callbacks
   of the scheduler.
4. *Multi-threaded audio* (done). `AudioMT`.
5. *Memory zones* (done). `Zones`: bump allocation with its rounding and
   extension, the stacks of zones, and who destroys a zone.
6. *OSC* (done). `OSCMessage` is the format, `OSCDatagram` the UDP servers of
   the processes, `OSCStream` the TCP thread; `OSC` composes them.
7. *Interpreter* (done for the evaluator). `Interp`: the evaluation cycle, the
   dump stack, continuations, errors, the time limit and the requests of a
   Scheme process.
8. *Shutdown* (left): `SchemeProcess::stop`, `scheme_deinit`, `ipc:new` when it
   fails.

Theorems: every safety property that a run checks is proved, except those of
`Interp` and `CutKeepsOrder` (section 6).

## 3. The modules and the code

**Collector.** `free`, `ecru`, `grey`, `black` are the arcs between
`treadmill_free`, `bottom`, `top` and `scan`; `regs` stands for the registers,
dump frames and `imp_env`. `Alloc` is `get_cell`, `Shade` and `Store` the write
barrier and the store after it, `Load` everything that moves pointers into
registers without a barrier, `Scan` one cell of `treadmill_scanner`, `Flip` and
`MarkRoots` the two halves of `treadmill_flip`. `entitled` is a history
variable: what the collector has a reason to keep.

**Handshake.** `mpc` and `spc` are the places of the interpreter and of the
scanner; `flipActive`, `scannerFinished` and `mutex` are the code's. A signal
without a waiter is lost, as in `EXTMonitor`.

**Treadmill.** `ring` is the data structure itself: `_cw`, `_ccw`, `_colour`,
`_list_colour`, the four pointers and `dark`; `Whites`, `Ecrus`, `Greys` and
`Blacks` are its lists by `_list_colour`. `insert_treadmill`, `grow` and
the pointer swap of the flip are operators on it; the actions are the steps
between which the other thread can run: `get_cell` reads (`TakeRead`) and later
writes (`TakeWrite`) `treadmill_free`, a barrier reads the colour (`AskMutex`)
and later holds the mutex (`Insert`), and so on. `TREADMILL_CHECKS`, the
assertions that a debug build compiles in, are the properties `CellIsEmpty`,
`TopBottomEcru`, `RootsNotFree`, `CcwComplete` and, together, `RingIntact`.
Some actions carry a flag for what breaks the ring or loses a cell; section 4
says what happens when one is on.

| flag | what it lets happen |
|---|---|
| `MayRace` | the scanner runs inside the unlocked update of `get_cell` |
| `MayFill` | a whole cycle of cells stays alive |
| `MayUnlink` | `Store` cuts off what only a register holds |
| `MayForce` | `SaveForced` copies a cell, with its links and colours, over a promise (`OP_SAVE_FORCED`, 4820) |
| `MayStoreFirst` | `Relink` stores a pointer to a cell that nothing has shaded (`reverse_in_place`, 2830, and `append`, 2851) |
| `MayHide` | `MarkRoots` does not see a register: the lists that `dump_stack_copy` has copied are in memory from `malloc` (3343) |

A passing run has all six off: of the operations that the module has it shows
that the rest, with any interleaving of the scanner, keeps the ring within the
bounds. `setting` fixes the size of the first segment, the margin of the growth
test and what the program asks of vectors.

**Scheduler.** `time` is `UNIV::TIME`, written by the callback (`Tick`) when the
division is 1 and by the scheduler's thread (`PassEnd`) when it is not;
`deviceTime`, `numFrames` and `frames` are the code's. `queue` is the priority
queue as a set: `peek` takes an element with the least start time, and equal
ones, which the code orders by address, in any order. `main` is the order of
`extempore_init`: the thread first, then the device or the division.

**Agenda.** `window` is one division of the buffer: a task is run before its
start time, but never more than a window before it.

**SchemeProcess.** Connections, their descriptors and the bytes on the wire are
the kernel's (external); `numFds`, `clientSockets`, `inStrings`, `curReadFds`,
`evalStr` and `taskQueue` are the code's. A request is a body (its number,
repeated) and CR LF, so that blocks of `recv` cut it as they cut the text.
`reads` is the counter `j` of the receiving loop: when more than `MaxReads`
reads have brought no terminator the text is thrown away (562-570), with the
requests that it holds, and the history `cut` remembers whose it was.
`impEnv` is `imp_env`; a callback pins its environment when it is made
(`Schedule`), and a `DESTROY_ENV` task lets it go.

**AudioMT.** `signalCount` and `doneCount` are `sSignalCount` and
`sThreadDoneCount`; `numthreads`, `zerolatency` and `lcount` the locals of the
callback and of a worker. A buffer is the round it was computed in. `ipc` walks
through `dsp:set!` and `initMTAudio` one published assignment at a time.

**Zones.** `heap` holds the zones (`base`, `offset`, `mark`, `size`, `memories`
and `hooks` are fields of `llvm_zone_t`), the end of what the C library has
given out (external: blocks begin at multiples of the alignment and lie as close
as that allows, so that a write past a block and its padding hits the next) and
the live objects. Zones and requests have any size: the test whether an object
fits comes before its size is rounded, as in the code, so that what is cleared
may pass the end of a block by less than the alignment. `Create`, `Malloc`, `Reset` and `Destroy`
are functions from heaps to heaps, for the four operations of `EXTZones.cpp`;
every action that changes the heap is composed of them. `stack` is the stack of
each thread, and a frame also says which objects the code above it has pointers
to, because that is what `HeldLive` is about. The actions are what compiled code
does: allocate, make a closure, register a hook, reset the top zone, begin and
end `memzone` (at once or with a delay), schedule and run a callback, bind a
name again, and fork, end and join a thread of `async`.

**OSCMessage, OSCDatagram, OSCStream, OSC.** A message is a sequence of words,
each with `Word` values, and type tags; `WordsOf`/`TagOf` write it as
`processArgs` does and `Arguments` reads it back. A string has one word for each
character (four share one in the code) and one for its end; `StringAt` cuts it
at `MaxString`, `Quoted` and `Throws` are what `getOSCString` does with quotes,
and `Literal` is what the reader of Scheme makes of the result between two
quotes. A string that throws ends the program (`crashed`), one that breaks the
text of the call leaves it `Garbled`. Addresses are model values. `OSCDatagram` has the servers of a process
(`current` is `SCHEME_MAP`), the two halves of `registerScheme` between which
its thread runs already, the options, sends by way of the scheduler, and a
network (external) that loses, repeats and reorders packets. `OSCStream` is
`tcp_osc_server_thread`: `sockets`, `data`, `inPacket` and `escape` are
`client_sockets`, `data_map`, `data_packet` and `data_active_escape`, kept by
descriptor; `thread` is its place in the nested loops, a blocking `read`
included; what `select` and the kernel do is external, and a payload is what
`process_osc_data` is given, which is not read further. `paced` remembers which
clients never had two packets in one block.

**Interp.** `op args code value envir dump` are the registers, `cells` the
memory, so that lists share structure as in the code: `Reversed` is
`reverse_in_place`, `ConsPair` reuses its argument list. One action is one
opcode of `opexe_0` and its siblings; `Fit` is the test of the arguments in
`Eval_Cycle`; `Error` is `_Error_1` with both hooks, `Leave` an error that is
only prepared while the loop ends, `ThrowStd` an exception that only
`scheme_load_string` catches and `Crash` the end of the program; `Continuation`
copies the dump and `Apply` restores it. Foreign functions and the variables of
compiled closures (`cl.v`) are external: one function returns its argument or
throws, and a variable has any value that compiled code may have left. `Request` is the beginning of `scheme_load_string`
or `scheme_call`, `Finish` the end, `Tick` the clock passing the limit of a slow
request, and `TimeUp` the test at the head of the loop. A `session` is a
sequence of requests with what the language says they give. `MCInterp` writes
the programs, with `catch` and `throw` from `init.xtm` and `sys:sleep` from
`scheme.xtm`, and has a reference evaluator (`Value`) for programs of nested
expressions and escapes.

## 4. The runs

Times are seconds to three minutes with two workers.

| run | bounds | shows |
|---|---|---|
| `collector` | 4 cells, 2 registers, 1 field | no live cell is freed, nothing that was garbage at the last flip is kept |
| `handshake` | up to 3 cells in the lists | the pointer swap never overlaps the scanner; a flip ends, a barrier gets the mutex |
| `treadmill` | 6 cells; and 4 cells with 2 more, by a chunk of 2 or a vector of 3; 1 register | the ring stays one cycle with four arcs, the dark bit tells colours apart over flips, growth joins the ring, `malloc` may fail, `Refines`, `RefinesHandshake` |
| `scheduler` | 3 tasks, starts 0, 3, 11, buffers of 4, divisions 1, 2 (and 4), 12 samples | `Refines`: each task once, earliest first, not early, no step back of the clock; with a device and no division every task runs, although signals are lost |
| `process_server` | 2 clients, 2 requests of 5 bytes each, blocks of 3, one read without a terminator, descriptors used again | no request of a client whose text is not thrown away is lost, doubled or overtaken, and none is doubled or overtaken of one whose text is; a reply goes to the asker unless that has left; the server only looks at open sockets |
| `process_live` | 2 clients, 1 request of 4 bytes each, blocks of 3, 2 callbacks or other tasks, a new descriptor for each client | every request is served; an environment is pinned exactly while it is needed, and released |
| `audio_mt` | 3 workers, 4 rounds, every latency and input | the barrier, the double buffer, the callback returns |
| `zones` | a thread and a forked one, 4 zones of 0, 31, 32 or 40 bytes, alignment 4, objects of 2 and 22 bytes, closures, 4 allocations | objects lie in blocks of their zone and apart; `ptr_in_zone` is exact; no pointer that code, callbacks or futures hold dangles; every open zone has exactly one owner; closures have their size |
| `osc` | a process with 2 servers, 2 packets, 2 changes of options, words of 4 values, strings of up to 2 characters; 2 connections, blocks of 4 | arguments arrive as sent, quotes in strings quoted, at the right handler; the sender's address goes with them exactly when asked for; packets are whole, in order, and lost only where two meet in a block; the thread waits for one client only if that filled a block, had two packets meet in one, or sent something between packets |
| `interp` | about 1,100 sessions: 1,044 small programs against the reference evaluator, the rest written out, up to 7 requests | each request gives its value or its error, whatever came before it; continuations are not changed by entering them; every request ends, loops by the time limit; a text is read by its own request only |

Why these bounds are enough. Six cells leave two cells on a list while the
pointers around it meet, which is where `insert_treadmill` has its cases, and
two flips return every colour to its first meaning. A request of 5 bytes
needs two blocks of 3, so that a client which sends slowly meets the limit on
reads and one which sends at once does not; in `process_live` the limit is one
that requests do not meet. Three tasks and four buffers give ties,
tasks that are due in the slice in which they are added, and tasks beyond it.
With four rounds both halves of the double buffer are used twice. An object of
22 bytes and one of 2 do not fit a zone of 32 together, so that zones are
extended in the middle of everything, a zone of 0 is replaced, and one of 31
ends inside the padding of its last object; four zones
allow a default one, a `memzone`, one of a callback, a name or a thread and the
one that a thread leaves. Blocks of 4 bytes cut an escape in two and are filled
exactly by a packet of 2 bytes; words of 4 values make 64-bit numbers carry and
change sign; the string has a quote that is quoted. Two servers of one process are what the options depend on. The
small programs of `interp` put every kind of expression into every context that
pushes a frame, with an escape in each place. The clock of
`Scheduler` stops counting at `MaxTime`, which only hides what comes after.

`SYMMETRY` permutes cell addresses (all orders of the first segment are initial
states) and is used with safety properties only; `VIEW` forgets the contents of
free cells, which `get_cell` overwrites before they are read.

`CHECK_DEADLOCK FALSE` is set for the Scheme process (a server with no clients
left waits in `select`), for multi-threaded audio, zones and OSC (after the last
round, allocation or packet of the bound) and for the interpreter (when a
session is over). Everywhere else deadlock is checked.

Runs that are expected to fail, each against a sentence of the repository
(quoted in `PROJECT.json`, "findings"):

| run | property | what the code does |
|---|---|---|
| `treadmill_race` | `CellIsEmpty` | `get_cell` moves `treadmill_free` without the mutex |
| `scheduler_clock` | `ClockRuns` | without a device the number of frames is never set, and with a division it is read once, before it is set |

The same models show more when a constant is changed in a cfg and the named
property alone is checked. The first column is the cfg to start from; for
`Interp` the change is `Sessions <- ...`.

| cfg | change | property | what the code does |
|---|---|---|---|
| `TreadmillRace` | `MayRace = FALSE`, `MayForce = TRUE` | `CcwComplete` | `force` copies the links of the value over those of the promise: the ring has lost the promise |
| `TreadmillRace` | `MayRace = FALSE`, `MayFill = TRUE`, `Settings <- Full` | `TopBottomEcru` | in a cycle with nothing to free the pointers pass each other; the growth test counts the cycle before |
| `TreadmillRace` | `MayRace = FALSE`, `Settings <- GrowOne` | `CcwComplete` | growth by one cell links it to itself |
| `TreadmillRace` | `MayRace = FALSE`, `MayUnlink = TRUE`, `NRegs = 2`, `Settings <- FiveTwo` | `RootsNotFree` | a structure unlinked while only a register holds it is freed |
| `TreadmillRace` | the same with `MayStoreFirst` in place of `MayUnlink` | `RootsNotFree` | a list that is reversed in place or appended is linked to a cell before anything has shaded that, and the cell is freed |
| `TreadmillRace` | the same with `MayHide` | `RootsNotFree` | a list that a continuation is copying is freed by a flip meanwhile |
| `ProcessLive` | `MaySplit = TRUE`, one client and descriptor, `MaxFires = 0` | `Serves` | CR LF split between two blocks is missed |
| `ProcessLive` | `MayReuse = TRUE`, three clients and descriptors, bodies of 1, `MaxFires = 0` | `Serves` | `numFds` shrinks when a descriptor is reused, and `select` misses the higher ones |
| `ProcessLive` | one client and descriptor, bodies of 6, `BufLen = 2`, `MaxReads = 3`, `Envs = {}`, `MaxFires = 0` | `CutAtLimit` | the limit of 10 MB (`SchemeProcess.cpp:566`) counts reads: a text that comes in small pieces is thrown away far below it |
| `SchedulerClock` | `AudioModes = {FALSE}`, `TimeDivisions = {2}` | `ClockRuns` | the division with a device |
| `AudioMT` | `Setups <- EarlySetups` | `BuffersReady` | a callback during `dsp:set!` finds no buffers |
| `AudioMT` | `MaxInits = 2` | `CountBounded` | a second `dsp:set!` adds workers to the first |
| `Zones` | none | `ClearsOwnBlock` | the rounded size is cleared, after a test of the size: up to 31 bytes behind a block, padding or what the C library keeps there, are overwritten |
| `Zones` | `MayStraddle = TRUE` | `ClosuresSized` | a zone extended within a closure: its size is counted from the mark of the old block |
| `Zones` | `MayOuter = TRUE` | `HeldLive` | the argument of a callback that is in a zone below the top one is not copied |
| `Zones` | `MayResetHooked = TRUE` | `HeldLive` | `reset_zone` keeps hooks whose memory is used again |
| `OSC` | `MayReset = TRUE` | `AddressAsAsked` | a second server has default options, and takes the place of the first (`libs/core/toplap_clock.xtm:65` asks for addresses once and means all servers) |
| `OSC` | `Other` after the real in `SmallArgs` | `DeliveredAny` | an argument of another type moves the pointer by the size of the one before |
| `OSC` | `Args <- BackslashArgs` | `DeliveredAny` | a string is pasted into the text of a call: a backslash at its end breaks the call, others are lost |
| `OSC` | `Args <- QuoteArgs`, `MaxPackets = 1` | `QuotesQuoted` | for a string that begins with a quote `getOSCString` looks at the character before the first, and throws (`OSC.cpp:872`) |
| `OSC` | none | `StuckOnlyByJunk` | a client that keeps to the protocol stops the thread with a packet that fills a block, or with two in one |
| `Interp` | `StaleHandler` | `ErrorsReported` | a `catch` left by another continuation leaves its handler, and a later `throw` outside any `catch` succeeds |
| `Interp` | `AppliesNumber` | `ErrorsReported` | applying a number throws out of the evaluator, and the value of an earlier form is the answer |
| `Interp` | `DefineNumber` | `ErrorsReported` | `(define 5 (f 1))` reads the name through what is no symbol (3721); if that ends in an exception, the value of an earlier form is the answer. `set!` does the same |
| `Interp` | `DefineEmpty` | `Correct` | `(define x (f ""))` throws out of the evaluator (3724) |
| `Interp` | `EmptyCallback` | `Ends` | the same in a callback: `scheme_call` does not catch it and the program ends |
| `Interp` | `LateSleep` | `ReadsOwnText` | a `sys:sleep` of a request that was cut short reads on in its deleted text |
| `Interp` | `CaughtLoop` | `TimeLimit` | an error that a hook catches takes the time limit away |
| `Interp` | `ConsKeepsList` | `Correct` | `(apply cons l)` changes `l` |
| `Interp` | `AppendOne` | `Correct` | `append` of one list gives a list of it |
| `Interp` | `ForceFalse` | `Correct` | a promise that was forced to `#f` is true the second time |

## 5. Fairness

Weak fairness on each thread: the operating system runs every thread that can
run, and the audio device calls back for as long as it is open. In `Handshake`
a barrier needs strong fairness for the mutex, because the scanner takes it
again after every yield; the scanner sleeps between passes, so the mutex is
free again and again. A client that has begun to write a request goes on
(`writeString` is one loop), and evaluations end (the interpreter has a time
limit); clients need not come, and nobody needs to ask for a task. Once
`dsp:set!` is called it is carried through. The TCP thread of OSC runs, since
`select` returns after a second at the latest; clients and the network owe
nothing. In `Interp` the thread of the process runs and so does the clock, which
the audio device or the scheduler moves; whether a request is slow enough to
meet its limit is left open. `Zones` states no fairness: its properties are
invariants.

## 6. The proofs

All are checked by TLAPS for every value of the constants that the named
assumptions and the hypotheses of the theorem allow. The inductive invariants of
`Collector`, `Handshake`, `Scheduler` and `AudioMT` (`IInv`, `HInv`, `SInv`,
`BInv`) are defined beside the specifications, the others in the proof modules;
the runs check what follows from them.

| module | theorem | argument |
|---|---|---|
| `CollectorProofs` | `CollectorInvariance`, `CollectorSafety`, `CollectorPrecision` | `IInv`: no black cell points to an ecru one, the roots are in use, the used cells are closed under pointers. `NoLiveFreed` is not inductive: a live cell behind a black one would be freed a flip later. Reachability is "in every closed set that holds the roots", so safety needs no induction over paths: the used cells are such a set. |
| `HandshakeProofs` | `HandshakeInvariance`, `HandshakeSafety` | `HInv` ties the flags to the places of the two threads; `FlipAlone` alone does not say why the scanner cannot leave its wait. |
| `TreadmillProofs` | `TreadmillInvariance`, `TreadmillIntact`, `TreadmillColours` | A ring is described by the list `q` of its cells, clockwise from `treadmill_free`, and the lengths `w`, `e`, `g` of its white, ecru and grey lists (`Ring`); `insert_treadmill`, the walk of the scanner, the pointer swap and `grow` each give another such list, written down explicitly. `RingIntact` says less: with an ecru list of length 0 or of everything, `top` and `bottom` would meet and the next insertion break the ring. That this does not happen is `RoomInv`: some ecru cell was garbage at the last flip, so no barrier can reach it. |
| | `TreadmillRefines`, `TreadmillHandshake`, `TreadmillSafety` | `TreadmillInv` adds to the ring where every operation stands: a cell that `get_cell` took and a cell whose barrier waits for the mutex are still held (`OperandInv`), what is about to be stored has been shaded (`StoreInv`), and a flip begins without white cells (`FreeInv`). It contains `IInv` of `Collector` and `HInv` of `Handshake` under the mapping: that no grey cell is left at a flip, and that the scanner waits meanwhile, are theirs. Each action then is one of both abstract specifications or a stutter, and `NoLiveFreed` carries over. |
| `SchedulerProofs` | `SchedulerInvariance`, `SchedulerImplementsAgenda` | `SInv`: the frames of a slice belong to the division that is set and the two clocks agree when there is one division. Without the first a task could be run outside the window, without the second a tick could set the clock back. The mapping is in `Scheduler`, `A`. |
| `AudioMTProofs` | `BarrierInvariance`, `BarrierSafety`, `BarrierCount` | `BInv`: the done counter is the number of workers whose local count has reached the signal count. When it equals the number of threads the finished workers are all the workers, because a subset with as many elements is the whole set. Assumes one set-up (`MaxInits = 1`); with two, `CountBounded` fails (section 4). |
| | `BufferInvariance`, `MixedOutputFresh`, `BuffersAllocated` | `FInv` adds to `BInv` what each half of a worker's buffer holds: with zero latency only one half is used and is of this round once the worker has written; with latency the half that the callback will mix is of the round before, and the toggles of the workers that have turned agree with that of the callback. `MixFresh` speaks only of the moment of mixing. It holds for a callback at any point of `dsp:set!`; `BuffersAllocated` needs that a callback which comes that early has zero latency and no input, since otherwise `BuffersReady` fails (section 4, `EarlySetups`). |
| `ZonesProofs` | `ZonesInvariance`, `ZonesTyped`, `ZonesInBounds`, `ZonesDisjoint`, `ZonesPtrInZone` | `IInv`, mainly `HeapInv`: the offset of a zone is a multiple of the alignment and at most its size rounded up, the blocks of all zones lie apart with their padding, and every object lies in the filled part of the newest block of its zone or in an old one, with what was asked for inside the block and what is cleared inside its padding. `InBounds` alone does not say where the next object goes; `Disjoint` needs that a block reaches to the next multiple of the alignment, which is what `posix_memalign` gives: the next block begins there at the earliest. Each of `Create`, `Malloc`, `Reset` and `Destroy` keeps `HeapInv`, and every action composes them. `ZonesAssumption` gives the constants their types: zones and requests have any size. |
| | `ClosureSizes` | The offset after three allocations within one block is the sum of the rounded sizes. Hypothesis: `MayStraddle` off (section 4 has the other case). |
| | `OwnershipInvariance`, `ZonesOneOwner` | `OInv`: `Owns` is a relation between zones and places (a frame counted from the bottom of its stack, so that pushes do not rename the others, a callback, a name, a delayed task, a future) that is a function on the open zones and empty on the others; a thread of `async` borrows only the zone of its own future, and its stack is empty before it starts. Ends with `Cardinality(Owners(z)) = 1`. `ThreadsAssumption`: threads and workers are different. |
| | `HeldObjectsLive` | `HInv` adds to `OInv` where the objects are: a frame holds objects of its own zone or of zones below it, a callback objects of the zone of the call, a future objects of the zone of the thread. So when a zone goes, the only frame that may hold its objects is the one that goes with it. `HeldLive` alone says nothing of where an object is. Hypotheses: `MayOuter` and `MayResetHooked` off; each of them breaks it (section 4). |
| `OSCProofs` | `FormatRoundTrip` | For every sequence of well-formed arguments the reader finds each argument where the writer put it and with the value that its type can hold. Induction over the arguments: the partial results of the three `FlattenSeq` (words, tags, meant arguments) grow together, and the position of the reader is one more than the words written so far. The 64-bit integers are arithmetic: the quotient by `Word` is a signed word. A string is read back character by character by induction: a quote is quoted by the receiver and taken as a character by the reader, as long as there is no backslash (`LiteralReads`, `LiteralIntact`). Well-formed (`Sendable`) leaves out what the format is not made for: the types that `processArgs` does not know, which shift what follows, strings with backslashes or longer than `MaxString`, and strings that begin with a quote, on which the receiver throws (section 4). `WordAssumption`: `Word` is positive and even. |
| | `PacketsDelivered`, `AddressesAsAsked` | `DInv`: a server is registered by one process and its `proc` is that process from the end of `registerScheme` on; what is on its way was written by `processArgs` for its port; every call so far has the handler and the process of its port. Programs may send any arguments; of those that are not `Sendable` the theorem says only that the call goes to the right handler, if the receiver does not throw. `Answered`: the server that `SCHEME_MAP` names has the option that was asked for last, which needs that no server is started after that (`MayReset` off). |
| | `PacketsWhole`, `PacketsKept`, `ThreadStuck` | The stream of a client is described by marks, one for each of its bytes: how many packets end there or before, whether it is inside a packet, and what that packet is so far, unescaped, with or without an open escape (`Marks`; neighbouring marks and the byte between them satisfy `Stepped`). The streams have such marks by induction over the payloads (`StreamMarked`). `StreamInv` then compares the thread with the mark at which its client is read (`Reader`): what was handled are some of the packets that have ended there, all of them if the client is paced (`Whole`); when both are inside a packet they have the same data and escape, when the thread alone is it has no data yet, and for a paced client both are or neither (`Known`); clients that `select` named can be read or filled a block (`Served`). `WholePackets` alone does not say why the data kept for a descriptor belongs to the packet that goes on in the next block. What a block does (`ParsedBlock`) is one step from mark to mark, found by induction inside the block; the END of a packet whose start was dropped can be taken for the start of one, which the next END then ends empty. A descriptor that is used again with `data_packet` left set is covered: its client counts as unpaced, and what is taken is still whole. `StreamAssumption`: finitely many connections (descriptors are their numbers), payloads not empty. |
| `SchemeProcessProofs` | `ProcessInvariance`, `ServerSocketsOpen`, `EnvironmentsPinned` | `NetInv`: `clientSockets` has the descriptor of every open connection once, and the index of the loop stays inside it while clients are erased under it. `PinInv`: an environment is in `imp_env` iff exactly one of the scheduled callbacks, the queued tasks and the running task needs it. |
| | `ProcessReplies` | `LabelInv`: a task has the descriptor of the connection its text came from, or had before that was closed. Open connections have different descriptors (`NetInv`), so a reply goes to another client only when the asker is gone and `accept` has given its descriptor away, which the task cannot see. No hypotheses. |
| | `RequestsConserved` | `StreamInv`: of every connection the requests in process (evaluated, running or queued) are 1 to some `k`, and its bytes, from the rest of `evalStr` over `inStrings` and the wire to what the client has still to write, spell the requests after `k`. `Spelled` says so without a recursion, of neighbouring bytes: a body goes on or ends in CR, CR is followed by LF, LF by the next number. That makes it easy to cut: the first CR ends request `k + 1`, what is behind it spells the rest, and a prefix without a CR spells no request. Of a client that left some bytes are missing at the end (`rest`); of one whose text was thrown away (`cut`) nothing is said here, and the run checks `CutKeepsOrder`. `FlattenSeq`, with which `Requests` and `Asked` are written, is replaced in the proofs by its partial results. No hypotheses. |

The theorems about the treadmill have two hypotheses. `Modest` turns the six
flags of section 3 off, as the run does. `[]~GrowsByOne`
leaves out the behaviours in which a flip adds exactly one cell: a request of
`mk_vector` counts from -1, so after one vector of 2 elements, or two of 1, the
next flip with growth does that. Vectors of any length are allowed otherwise.
Each of the seven is needed: section 4 has the run in which an assertion of the
code fails without it.

Only model-checked: every liveness property (fairness and `ENABLED` are outside
the prover), `CutKeepsOrder`, and all of `Interp`, which walks lists with recursive operators.

## 7. Not modelled

Third-party code (`pcre`, `networking-ts-impl`, PortAudio, LLVM), option
parsing, logging, and the libraries and examples written in Extempore's own
languages. The closure address table, base64 and the name codecs of `UNIV.cpp`
are pure functions on text without state of their own. Of the modelled parts:
shutdown (`SchemeProcess::stop`, `scheme_deinit`, `ipc:new` when it fails),
spurious wake-ups of the scanner, whose wait has no predicate (`Scheme.cpp:2135`),
several interpreters sharing the static insert counter (`Scheme.cpp:171`), tasks
that add tasks that are due at once for ever (`TaskScheduler.cpp:68`), the
unguarded `m_taskQueue.empty()` (`SchemeProcess.cpp:344`), calls that last longer
than the delay after which the zone of a name is destroyed, the size of the kernel's socket buffers, the 1024 bytes into which `sendOSC`
encodes without a test (`OSC.cpp:1154`), the characters of OSC addresses, the
native callbacks of OSC, what the C library keeps behind a block of a zone, zones of 2 GB (whose old size is
kept in an `int`), and the reader, printer, ports, numbers, strings, vectors and
tracing of the interpreter. `PROJECT.json` lists them under "components" and
"hazards".
