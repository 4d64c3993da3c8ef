------------------------------ MODULE AudioMT ------------------------------
(***************************************************************************)
(* Multi-threaded audio: the audio callback hands each buffer to N worker  *)
(* threads (audioCallbackMT, audioCallbackMTBuf), waits for them in a spin *)
(* loop over two atomic counters, and mixes what they wrote.  With zero    *)
(* latency it mixes the buffers of this round, otherwise those of the      *)
(* round before, from the other half of a double buffer.  A Scheme process *)
(* sets this up (dsp:set!) while the callback is already running.          *)
(*                                                                         *)
(* The buffer-by-buffer variant (audioCallbackMTBuf) ignores the latency   *)
(* argument and takes the steps of the zero-latency one.                   *)
(*                                                                         *)
(* A buffer is abstracted to the round it was computed in.                 *)
(***************************************************************************)
EXTENDS Integers, FiniteSets

CONSTANTS
  N,          \* worker threads of a set-up
  MaxInits,   \* bound: how often initMTAudio is called
  MaxRounds,  \* bound: how many buffers are computed
  Setups      \* [zero  |-> the ZeroLatency argument,
              \*  input |-> IN_CHANNELS is not 0,
              \*  early |-> the callback may come while dsp:set! runs]

ASSUME AudioAssumption ==
  /\ N \in 1..16                  \* MAX_RT_AUDIO_THREADS
  /\ MaxInits \in Nat /\ MaxRounds \in Nat
  /\ Setups \subseteq [zero : BOOLEAN, input : BOOLEAN, early : BOOLEAN]

(* m_numThreads before initMTAudio, and a fault: no threads yet.           *)
Default_None == 0

Default == 50
Gens    == 1..MaxInits
Workers == Gens \X (1..N)

VARIABLES
  setup,         \* fixed: which set-up runs
  ipc,           \* where dsp:set! is
  inits,         \* how many initMTAudio calls have begun
  closure,       \* m_dsp_closure and the wrappers are set
  numThreads,    \* m_numThreads
  zeroLatency,   \* m_zeroLatency
  toggle,        \* m_toggle
  buffers,       \* which inbuf and outbuf are set; 0 is none
  started,       \* how many workers this call has started
  signalCount,   \* sSignalCount
  doneCount,     \* sThreadDoneCount
  cpc, numthreads, zerolatency,          \* the callback and its locals
  wpc, lcount, wtoggle, wzero, wbuf,     \* the workers and theirs
  out            \* the round in each half of each worker's buffer

device   == <<closure, numThreads, zeroLatency, toggle, buffers>>
init     == <<ipc, inits, started>>
callback == <<cpc, numthreads, zerolatency>>
worker   == <<wpc, lcount, wtoggle, wzero, wbuf>>
vars == <<setup, init, device, signalCount, doneCount, callback, worker, out>>

Init ==
  /\ setup \in Setups
  /\ ipc = "idle" /\ inits = 0 /\ closure = FALSE /\ started = 0
  /\ numThreads = Default /\ zeroLatency = TRUE /\ toggle = FALSE
  /\ buffers = 0
  /\ signalCount = 0 /\ doneCount = 0
  /\ cpc = "idle" /\ numthreads = 0 /\ zerolatency = FALSE
  /\ wpc = [w \in Workers |-> "none"]
  /\ lcount = [w \in Workers |-> 0]
  /\ wtoggle = [w \in Workers |-> FALSE]
  /\ wzero = [w \in Workers |-> FALSE]
  /\ wbuf = [w \in Workers |-> 0]
  /\ out = [w \in Workers |-> [half \in BOOLEAN |-> 0]]

-----------------------------------------------------------------------------
(* dsp:set!, on a Scheme process's thread.                                 *)

(* The wrappers and the closures; a second call leaves them as they are.   *)
SetClosure ==
  /\ ipc = "idle"
  /\ inits < MaxInits
  /\ ipc' = "num"
  /\ closure' = TRUE
  /\ UNCHANGED <<setup, inits, started, numThreads, zeroLatency, toggle,
                 buffers, signalCount, doneCount, callback, worker, out>>

(* initMTAudio, one assignment after the other ...                         *)
InitNum ==
  /\ ipc = "num"
  /\ ipc' = "zero"
  /\ inits' = inits + 1
  /\ numThreads' = N
  /\ UNCHANGED <<setup, started, closure, zeroLatency, toggle, buffers,
                 signalCount, doneCount, callback, worker, out>>

InitZero ==
  /\ ipc = "zero"
  /\ ipc' = "alloc"
  /\ zeroLatency' = setup.zero
  /\ toggle' = TRUE
  /\ UNCHANGED <<setup, inits, started, closure, numThreads, buffers,
                 signalCount, doneCount, callback, worker, out>>

InitAlloc ==
  /\ ipc = "alloc"
  /\ ipc' = "start"
  /\ buffers' = inits
  /\ started' = 0
  /\ UNCHANGED <<setup, inits, closure, numThreads, zeroLatency, toggle,
                 signalCount, doneCount, callback, worker, out>>

(* ... and the workers.                                                    *)
InitStart ==
  /\ ipc = "start"
  /\ started' = started + 1
  /\ ipc' = IF started + 1 = N THEN "idle" ELSE "start"
  /\ wpc' = [wpc EXCEPT ![<<inits, started + 1>>] = "new"]
  /\ UNCHANGED <<setup, inits, device, signalCount, doneCount, callback,
                 lcount, wtoggle, wzero, wbuf, out>>

-----------------------------------------------------------------------------
(* The audio callback, in its multi-threaded branches.                     *)

Ready == buffers # 0

(* Entered: the locals are read and the input is copied to inbuf.          *)
Enter ==
  /\ cpc = "idle"
  /\ closure
  /\ setup.early \/ (ipc = "idle" /\ Ready)
  /\ signalCount < MaxRounds
  /\ numthreads' = numThreads
  /\ zerolatency' = zeroLatency
  /\ cpc' = IF setup.input /\ ~Ready THEN "crash" ELSE "reset"
  /\ UNCHANGED <<setup, init, device, signalCount, doneCount, worker, out>>

Reset ==
  /\ cpc = "reset"
  /\ doneCount' = 0
  /\ cpc' = IF zerolatency THEN "signal" ELSE "mix"
  /\ UNCHANGED <<setup, init, device, signalCount, numthreads, zerolatency,
                 worker, out>>

Signal ==
  /\ cpc = "signal"
  /\ signalCount' = signalCount + 1
  /\ cpc' = "wait"
  /\ UNCHANGED <<setup, init, device, doneCount, numthreads, zerolatency,
                 worker, out>>

(* Fault: the number of threads is read once.                              *)
Spin_Stale == FALSE

(* The spin loop: not done yet, sleep and read the number of threads again *)
(* (which leaves the state as it was if that number has not changed) ...   *)
Spin ==
  /\ cpc = "wait"
  /\ doneCount # numthreads
  /\ numthreads # numThreads
  /\ numthreads' = numThreads
  /\ UNCHANGED <<setup, init, device, signalCount, doneCount, cpc,
                 zerolatency, worker, out>>

(* ... or all done.                                                        *)
WaitEnd ==
  /\ cpc = "wait"
  /\ doneCount = numthreads
  /\ doneCount' = 0
  /\ cpc' = IF zerolatency THEN "mix" ELSE "idle"
  /\ UNCHANGED <<setup, init, device, signalCount, numthreads, zerolatency,
                 worker, out>>

(* Fault: the callback forgets that the toggle was flipped.                *)
MixHalf_Flipped == ~zerolatency /\ ~toggle

(* The workers' buffers are mixed: the first half, or the other one when   *)
(* latency is not zero and the toggle, flipped first, is off.              *)
MixHalf == ~zerolatency /\ toggle    \* toggle before the flip

Mix ==
  /\ cpc = "mix"
  /\ toggle' = ~toggle
  /\ cpc' = IF ~Ready THEN "crash" ELSE IF zerolatency THEN "idle" ELSE "signal"
  /\ UNCHANGED <<setup, init, closure, numThreads, zeroLatency, buffers,
                 signalCount, doneCount, numthreads, zerolatency, worker, out>>

-----------------------------------------------------------------------------
(* A worker.  It begins with lcount 0, whatever the signal count is.       *)

WorkerStart(w) ==
  /\ wpc[w] = "new"
  /\ wpc' = [wpc EXCEPT ![w] = "wait"]
  /\ wzero' = [wzero EXCEPT ![w] = zeroLatency]
  /\ wbuf' = [wbuf EXCEPT ![w] = buffers]
  /\ UNCHANGED <<setup, init, device, signalCount, doneCount, callback,
                 lcount, wtoggle, out>>

(* Faults: a worker runs one round ahead, or does not count its rounds.    *)
WorkerWake_Ahead(w) ==
  /\ wpc[w] = "wait"
  /\ signalCount >= lcount[w]
  /\ wpc' = [wpc EXCEPT ![w] = "run"]
  /\ lcount' = [lcount EXCEPT ![w] = @ + 1]
  /\ UNCHANGED <<setup, init, device, signalCount, doneCount, callback,
                 wtoggle, wzero, wbuf, out>>

WorkerWake_Uncounted(w) ==
  /\ wpc[w] = "wait"
  /\ signalCount > lcount[w]
  /\ wpc' = [wpc EXCEPT ![w] = "run"]
  /\ UNCHANGED <<setup, init, device, signalCount, doneCount, callback,
                 lcount, wtoggle, wzero, wbuf, out>>

WorkerWake(w) ==
  /\ wpc[w] = "wait"
  /\ signalCount > lcount[w]
  /\ wpc' = [wpc EXCEPT ![w] = "run"]
  /\ lcount' = [lcount EXCEPT ![w] = @ + 1]
  /\ UNCHANGED <<setup, init, device, signalCount, doneCount, callback,
                 wtoggle, wzero, wbuf, out>>

(* The buffer is computed.                                                 *)
WorkerWrite(w) ==
  /\ wpc[w] = "run"
  /\ wpc' = [wpc EXCEPT ![w] = "done"]
  /\ out' = [out EXCEPT ![<<wbuf[w], w[2]>>][wtoggle[w]] = lcount[w]]
  /\ UNCHANGED <<setup, init, device, signalCount, doneCount, callback,
                 lcount, wtoggle, wzero, wbuf>>

WorkerDone(w) ==
  /\ wpc[w] = "done"
  /\ wpc' = [wpc EXCEPT ![w] = "wait"]
  /\ doneCount' = doneCount + 1
  /\ wtoggle' = [wtoggle EXCEPT ![w] = IF wzero[w] THEN @ ELSE ~@]
  /\ UNCHANGED <<setup, init, device, signalCount, callback, lcount, wzero,
                 wbuf, out>>

-----------------------------------------------------------------------------
Script   == SetClosure \/ InitNum \/ InitZero \/ InitAlloc \/ InitStart
Callback == Enter \/ Reset \/ Signal \/ Spin \/ WaitEnd \/ Mix
Worker(w) ==
  WorkerStart(w) \/ WorkerWake(w) \/ WorkerWrite(w) \/ WorkerDone(w)

Next == Script \/ Callback \/ \E w \in Workers : Worker(w)

Spec == Init /\ [][Next]_vars

(* dsp:set! goes on once it was called, and all threads run.               *)
FairSpec == /\ Spec
            /\ WF_vars(Script /\ ipc # "idle") /\ WF_vars(Callback)
            /\ \A w \in Workers : WF_vars(Worker(w))

-----------------------------------------------------------------------------
TypeOK ==
  /\ setup \in Setups
  /\ ipc \in {"idle", "num", "zero", "alloc", "start"}
  /\ inits \in 0..MaxInits
  /\ closure \in BOOLEAN /\ zeroLatency \in BOOLEAN /\ toggle \in BOOLEAN
  /\ numThreads \in {Default, N}
  /\ buffers \in 0..inits
  /\ started \in 0..N
  /\ signalCount \in Nat
  /\ doneCount \in Nat
  /\ cpc \in {"idle", "reset", "signal", "wait", "mix", "crash"}
  /\ wpc \in [Workers -> {"none", "new", "wait", "run", "done"}]
  /\ lcount \in [Workers -> Nat]

(* The workers that have answered the last signal.                         *)
Finished == {w \in Workers : wpc[w] = "wait" /\ lcount[w] = signalCount}

(* Why the barrier holds: outside the wait every worker has answered every *)
(* signal, and in it the counter is the number of those that have answered *)
(* the last one.  A worker that was not started yet has missed none but    *)
(* that one, for the callback waits until it has answered.                 *)
BInv ==
  /\ TypeOK
  /\ inits > 0 => numThreads = N
  /\ cpc # "idle" => numthreads \in {Default, N}
  /\ \A w \in Workers :
       (\/ inits = 0
        \/ ipc \in {"zero", "alloc"}
        \/ ipc = "start" /\ w[2] > started) => wpc[w] = "none"
  /\ ipc = "start" => started < N
  /\ ipc = "num" => inits = 0
  /\ ipc \in {"zero", "alloc", "start"} => inits = 1
  /\ cpc # "wait" =>
       /\ doneCount = 0
       /\ \A w \in Workers : wpc[w] \in {"none", "new", "wait"}
                             /\ lcount[w] = signalCount
  /\ cpc = "wait" =>
       /\ doneCount = Cardinality(Finished)
       /\ signalCount > 0
       /\ \A w \in Workers :
            /\ wpc[w] \in {"none", "new"} => lcount[w] = signalCount - 1
            /\ wpc[w] = "wait" => lcount[w] \in {signalCount - 1, signalCount}
            /\ wpc[w] \in {"run", "done"} => lcount[w] = signalCount

Computing == {w \in Workers : wpc[w] \in {"run", "done"}}

(* The barrier: no worker computes while the callback copies the input or  *)
(* mixes, although the workers are only told by a counter that the         *)
(* callback increments after it has reset the other one.                   *)
NoOverlap == cpc \in {"idle", "reset", "signal", "mix"} => Computing = {}

(* What is mixed was computed by all workers in the same round: this one   *)
(* with zero latency, the last one without, whenever the set-up ends       *)
(* relative to the first callback.                                         *)
MixFresh ==
  cpc = "mix" /\ Ready =>
    \A i \in 1..N : out[<<buffers, i>>][MixHalf] = signalCount

(* "in MT Audio sThreadDoneCount should never be greater than numthreads"  *)
CountBounded == inits > 0 => doneCount <= numThreads

(* The callback does not touch inbuf and outbuf before they are allocated. *)
BuffersReady == cpc # "crash"

(* A callback that waits for the workers returns to the audio device.      *)
CallbackReturns == (cpc = "wait") ~> (cpc = "idle")
=============================================================================
