--------------------------- MODULE AudioMTProofs ---------------------------
(***************************************************************************)
(* The barrier between the audio callback and its worker threads holds for *)
(* any number of workers and of buffers, with zero latency or not, however *)
(* the first callback falls into the set-up, as long as multi-threaded     *)
(* audio is set up once.                                                   *)
(***************************************************************************)
EXTENDS AudioMT, FiniteSetTheorems, TLAPS

(* One set-up starts N workers.                                            *)
LEMMA WorkersFinite ==
  ASSUME MaxInits = 1
  PROVE  IsFiniteSet(Workers) /\ Cardinality(Workers) = N
<1> DEFINE f == [i \in 1..N |-> <<1, i>>]
<1>1. N \in Int /\ 1 \in Int /\ 1 <= N
      BY AudioAssumption
<1>2. IsFiniteSet(1..N)
      BY <1>1, FS_Interval
<1>3. Cardinality(1..N) = N
      <2>1. Cardinality(1..N) = IF 1 > N THEN 0 ELSE N - 1 + 1
            BY <1>1, FS_Interval
      <2> QED BY <2>1, <1>1
<1>4. f \in Bijection(1..N, Workers)
      <2>1. f \in [1..N -> Workers]
            BY DEF Workers, Gens
      <2>2. \A a, b \in 1..N : f[a] = f[b] => a = b
            OBVIOUS
      <2>3. \A w \in Workers : \E i \in 1..N : f[i] = w
            BY DEF Workers, Gens
      <2> QED BY <2>1, <2>2, <2>3
              DEF Bijection, Injection, Surjection, IsInjective
<1> QED BY <1>2, <1>3, <1>4, FS_Bijection DEF ExistsBijection

(* The workers that have answered can be counted.                          *)
LEMMA FinishedFinite ==
  ASSUME MaxInits = 1
  PROVE  /\ IsFiniteSet(Finished)
         /\ Cardinality(Finished) \in 0..N
         /\ Cardinality(Finished) = N => Finished = Workers
<1>1. Finished \in SUBSET Workers
      BY DEF Finished
<1>2. /\ IsFiniteSet(Finished)
      /\ Cardinality(Finished) <= Cardinality(Workers)
      /\ Cardinality(Workers) = Cardinality(Finished) => Workers = Finished
      BY <1>1, WorkersFinite, FS_Subset
<1>3. Cardinality(Finished) \in Nat
      BY <1>2, FS_CardinalityType
<1> QED BY <1>2, <1>3, WorkersFinite, AudioAssumption

(* Before the first dsp:set! the invariant holds.                          *)
LEMMA InitEstablishesBInv == Init => BInv
<1> SUFFICES ASSUME Init PROVE BInv
    OBVIOUS
<1>1. N \in 1..16 /\ MaxInits \in Nat
      BY AudioAssumption
<1>2. /\ closure \in BOOLEAN /\ zeroLatency \in BOOLEAN /\ toggle \in BOOLEAN
      /\ setup \in Setups
      BY DEF Init
<1>3. /\ wpc \in [Workers -> {"none", "new", "wait", "run", "done"}]
      /\ lcount \in [Workers -> Nat]
      BY DEF Init
<1>4. TypeOK
      BY <1>1, <1>2, <1>3 DEF Init, TypeOK
<1> QED BY <1>1, <1>4 DEF Init, BInv

(* The steps of dsp:set! keep the invariant.                               *)
LEMMA ScriptKeepsBInv ==
  ASSUME MaxInits = 1, BInv, Script
  PROVE  BInv'
<1> USE AudioAssumption DEF device, init, callback, worker, BInv, TypeOK
<1>1. CASE SetClosure
      BY <1>1 DEF SetClosure, Finished
<1>2. CASE InitNum
      <2>1. TypeOK'
            BY <1>2 DEF InitNum
      <2>2. Finished' = Finished
            BY <1>2 DEF InitNum, Finished
      <2>3. \A w \in Workers : wpc'[w] = "none"
            BY <1>2 DEF InitNum
      <2> QED BY <1>2, <2>1, <2>2, <2>3 DEF InitNum
<1>3. CASE InitZero
      <2>1. setup.zero \in BOOLEAN
            OBVIOUS
      <2>2. TypeOK'
            BY <1>3, <2>1 DEF InitZero
      <2> QED BY <1>3, <2>2 DEF InitZero, Finished
<1>4. CASE InitAlloc
      BY <1>4 DEF InitAlloc, Finished
<1>5. CASE InitStart
      <2> DEFINE v == <<inits, started + 1>>
      <2>1. v \in Workers /\ v[2] = started + 1
            BY <1>5 DEF InitStart, Workers, Gens
      <2>2. wpc[v] = "none"
            BY <1>5, <2>1 DEF InitStart
      <2>3. /\ wpc'[v] = "new"
            /\ \A w \in Workers : w # v => wpc'[w] = wpc[w]
            /\ wpc' \in [Workers -> {"none", "new", "wait", "run", "done"}]
            BY <1>5, <2>1 DEF InitStart
      <2>4. Finished' = Finished
            BY <1>5, <2>1, <2>2, <2>3 DEF InitStart, Finished
      <2>5. \A w \in Workers : w[2] > started + 1 => w # v /\ w[2] > started
            BY <1>5, <2>1 DEF InitStart, Workers, Gens
      <2>6. TypeOK'
            BY <1>5, <2>3 DEF InitStart
      <2>7. \A w \in Workers :
              (\/ inits' = 0
               \/ ipc' \in {"zero", "alloc"}
               \/ ipc' = "start" /\ w[2] > started') => wpc'[w] = "none"
            BY <1>5, <2>3, <2>5 DEF InitStart
      <2>8. /\ ipc' = "start" => started' < N
            /\ ipc' \notin {"num", "zero", "alloc"}
            /\ inits' = 1
            BY <1>5 DEF InitStart
      <2> QED BY <1>5, <2>1, <2>2, <2>3, <2>4, <2>6, <2>7, <2>8 DEF InitStart
<1> QED BY <1>1, <1>2, <1>3, <1>4, <1>5 DEF Script

(* The steps of the audio callback keep the invariant.                     *)
LEMMA CallbackKeepsBInv ==
  ASSUME MaxInits = 1, BInv, Callback
  PROVE  BInv'
<1> USE AudioAssumption DEF device, init, callback, worker, BInv, TypeOK
<1>1. CASE Enter
      BY <1>1 DEF Enter, Finished
<1>2. CASE Reset
      BY <1>2 DEF Reset, Finished
<1>3. CASE Signal
      <2>1. Finished' = {}
            BY <1>3 DEF Signal, Finished
      <2>2. doneCount' = Cardinality(Finished')
            BY <1>3, <2>1, FS_EmptySet DEF Signal
      <2> QED BY <1>3, <2>2 DEF Signal
<1>4. CASE Spin
      <2>1. Finished' = Finished
            BY <1>4 DEF Spin, Finished
      <2> QED BY <1>4, <2>1 DEF Spin
<1>5. CASE WaitEnd
      <2>1. Cardinality(Finished) \in 0..N /\ Cardinality(Finished) \in {Default, N}
            BY <1>5, FinishedFinite DEF WaitEnd
      <2>2. Finished = Workers
            BY <2>1, FinishedFinite DEF Default
      <2>3. \A w \in Workers : wpc[w] = "wait" /\ lcount[w] = signalCount
            BY <2>2 DEF Finished
      <2> QED BY <1>5, <2>3 DEF WaitEnd
<1>6. CASE Mix
      BY <1>6 DEF Mix, Finished
<1> QED BY <1>1, <1>2, <1>3, <1>4, <1>5, <1>6 DEF Callback

(* The steps of a worker keep the invariant.                               *)
LEMMA WorkerKeepsBInv ==
  ASSUME MaxInits = 1, BInv, NEW v \in Workers, Worker(v)
  PROVE  BInv'
<1> USE AudioAssumption DEF device, init, callback, worker, BInv, TypeOK
<1>1. CASE WorkerStart(v)
      <2>1. cpc = "wait" => Finished' = Finished
            BY <1>1 DEF WorkerStart, Finished
      <2>2. /\ wpc'[v] = "wait"
            /\ \A w \in Workers : w # v => wpc'[w] = wpc[w]
            /\ wpc' \in [Workers -> {"none", "new", "wait", "run", "done"}]
            BY <1>1 DEF WorkerStart
      <2>3. TypeOK'
            BY <1>1, <2>2 DEF WorkerStart
      <2> QED BY <1>1, <2>1, <2>2, <2>3 DEF WorkerStart
<1>2. CASE WorkerWake(v)
      <2>1. cpc = "wait" /\ lcount[v] = signalCount - 1
            BY <1>2 DEF WorkerWake
      <2>2. Finished' = Finished
            BY <1>2, <2>1 DEF WorkerWake, Finished
      <2> QED BY <1>2, <2>1, <2>2 DEF WorkerWake
<1>3. CASE WorkerWrite(v)
      <2>1. Finished' = Finished
            BY <1>3 DEF WorkerWrite, Finished
      <2> QED BY <1>3, <2>1 DEF WorkerWrite
<1>4. CASE WorkerDone(v)
      <2>1. cpc = "wait" /\ lcount[v] = signalCount
            BY <1>4 DEF WorkerDone
      <2>2. v \notin Finished /\ Finished' = Finished \cup {v}
            BY <1>4, <2>1 DEF WorkerDone, Finished
      <2>3. Cardinality(Finished') = Cardinality(Finished) + 1
            BY <2>2, FinishedFinite, FS_AddElement
      <2>4. doneCount' = Cardinality(Finished')
            BY <1>4, <2>1, <2>3 DEF WorkerDone
      <2> QED BY <1>4, <2>1, <2>4 DEF WorkerDone
<1> QED BY <1>1, <1>2, <1>3, <1>4 DEF Worker

(* The barrier's invariant holds for any number of workers and of buffers, *)
(* when initMTAudio is called once.                                        *)
THEOREM BarrierInvariance ==
  ASSUME MaxInits = 1
  PROVE  Spec => []BInv
<1>1. BInv /\ [Next]_vars => BInv'
      <2> SUFFICES ASSUME BInv, [Next]_vars PROVE BInv'
          OBVIOUS
      <2>1. CASE UNCHANGED vars
            BY <2>1 DEF vars, device, init, callback, worker, BInv, TypeOK,
                        Finished
      <2> QED BY <2>1, ScriptKeepsBInv, CallbackKeepsBInv, WorkerKeepsBInv
              DEF Next
<1> QED BY <1>1, InitEstablishesBInv, PTL DEF Spec

(* No worker computes while the callback copies its input or mixes their   *)
(* output.                                                                 *)
THEOREM BarrierSafety ==
  ASSUME MaxInits = 1
  PROVE  Spec => []NoOverlap
<1>1. BInv => NoOverlap
      BY DEF BInv, NoOverlap, Computing
<1> QED BY <1>1, BarrierInvariance, PTL

(* sThreadDoneCount never exceeds the number of threads.                   *)
THEOREM BarrierCount ==
  ASSUME MaxInits = 1
  PROVE  Spec => []CountBounded
<1>1. BInv => CountBounded
      <2> SUFFICES ASSUME BInv, inits > 0 PROVE doneCount <= numThreads
          BY DEF CountBounded
      <2>1. numThreads = N
            BY DEF BInv
      <2>2. doneCount \in 0..N
            BY FinishedFinite, AudioAssumption DEF BInv
      <2> QED BY <2>1, <2>2, AudioAssumption
<1> QED BY <1>1, BarrierInvariance, PTL

-----------------------------------------------------------------------------
(* What the workers have written.  w has filled its half of the buffer in  *)
(* this round, and has turned to the other one.                            *)
Written(w) == lcount[w] = signalCount /\ wpc[w] # "run"
Turned(w)  == Written(w) /\ wpc[w] # "done"

FType ==
  /\ zerolatency \in BOOLEAN
  /\ wtoggle \in [Workers -> BOOLEAN]
  /\ wzero \in [Workers -> BOOLEAN]
  /\ wbuf \in [Workers -> {0, 1}]
  /\ out \in [Workers -> [BOOLEAN -> Nat]]

(* What a callback and a worker have read, according to how far dsp:set!   *)
(* was when they read it.                                                  *)
SetUp ==
  /\ inits = 0 \/ ipc = "zero" => zeroLatency /\ (cpc # "idle" => zerolatency)
  /\ inits = 1 /\ ipc # "zero" => (zeroLatency <=> setup.zero)
  /\ inits = 1 /\ ipc \notin {"zero", "alloc"} => buffers = 1
  /\ setup.zero /\ cpc # "idle" => zerolatency
  /\ \A w \in Workers : wpc[w] = "none" =>
       lcount[w] = 0 /\ ~wtoggle[w] /\ out[w][TRUE] = 0 /\ out[w][FALSE] = 0
  /\ \A w \in Workers : wpc[w] \notin {"none", "new"} =>
       wbuf[w] = 1 /\ (wzero[w] <=> setup.zero)
  /\ cpc = "mix" /\ zerolatency => \A w \in Workers : wpc[w] = "wait"

(* Zero latency: only the first half is used.                              *)
FirstHalf ==
  setup.zero =>
    \A w \in Workers :
      ~wtoggle[w] /\ (Written(w) => out[w][FALSE] = signalCount)

(* Otherwise the workers turn when the callback has.  A callback that came *)
(* before initMTAudio had set the latency turns after them, once.          *)
BothHalves ==
  ~setup.zero /\ inits = 1 /\ ipc # "zero" =>
    /\ cpc \in {"idle", "reset"} \/ (cpc = "mix" /\ ~zerolatency) =>
         \A w \in Workers : /\ wtoggle[w] <=> ~toggle
                            /\ out[w][toggle] = signalCount
    /\ cpc = "signal" /\ ~zerolatency =>
         \A w \in Workers : wtoggle[w] <=> toggle
    /\ cpc = "wait" /\ ~zerolatency =>
         \A w \in Workers : /\ wtoggle[w] <=> ~(Turned(w) <=> toggle)
                            /\ Written(w) => out[w][toggle] = signalCount
    /\ cpc \in {"reset", "signal"} /\ zerolatency =>
         toggle /\ \A w \in Workers : ~wtoggle[w]
    /\ cpc \in {"wait", "mix"} /\ zerolatency =>
         /\ toggle
         /\ \A w \in Workers : /\ wtoggle[w] <=> Turned(w)
                               /\ Written(w) => out[w][FALSE] = signalCount

FInv == BInv /\ FType /\ SetUp /\ FirstHalf /\ BothHalves

(* Before the first dsp:set! nothing was written.                          *)
LEMMA InitEstablishesFInv == Init => FInv
<1> SUFFICES ASSUME Init PROVE FInv
    OBVIOUS
<1>1. BInv
      BY InitEstablishesBInv
<1>2. FType
      BY DEF Init, FType
<1>3. \A w \in Workers : /\ lcount[w] = 0 /\ wpc[w] = "none" /\ ~wtoggle[w]
                         /\ out[w][TRUE] = 0 /\ out[w][FALSE] = 0
      BY DEF Init
<1>4. SetUp
      BY <1>3 DEF Init, SetUp
<1>5. FirstHalf /\ BothHalves
      BY <1>3 DEF Init, FirstHalf, BothHalves
<1> QED BY <1>1, <1>2, <1>4, <1>5 DEF FInv

(* The steps of dsp:set! keep it.                                          *)
LEMMA ScriptKeepsFInv ==
  ASSUME MaxInits = 1, FInv, Script
  PROVE  FInv'
<1>1. BInv'
      BY ScriptKeepsBInv DEF FInv
<1> USE AudioAssumption DEF device, init, callback, worker, FInv
<1>2. CASE SetClosure
      <2> USE <1>2 DEF SetClosure
      <2>1. FType'
            BY DEF FType, BInv, TypeOK
      <2>2. SetUp'
            BY DEF FType, SetUp, BInv, TypeOK
      <2>3. FirstHalf'
            BY DEF FType, SetUp, FirstHalf, Written, BInv, TypeOK
      <2>4. BothHalves'
            BY DEF FType, SetUp, BothHalves, Written, Turned, BInv, TypeOK
      <2> QED BY <1>1, <2>1, <2>2, <2>3, <2>4
<1>3. CASE InitNum
      <2> USE <1>3 DEF InitNum
      <2>1. FType'
            BY DEF FType, BInv, TypeOK
      <2>2. SetUp'
            BY DEF FType, SetUp, BInv, TypeOK
      <2>3. FirstHalf'
            BY DEF FType, SetUp, FirstHalf, Written, BInv, TypeOK
      <2>4. BothHalves'
            BY DEF FType, SetUp, BothHalves, Written, Turned, BInv, TypeOK
      <2> QED BY <1>1, <2>1, <2>2, <2>3, <2>4
<1>4. CASE InitZero
      <2>1. <<1, 1>> \in Workers
            BY DEF Workers, Gens
      <2>2. inits = 1 /\ \A w \in Workers : wpc[w] = "none"
            BY <1>4 DEF InitZero, BInv
      <2>3. \A w \in Workers : /\ lcount[w] = 0 /\ ~wtoggle[w]
                               /\ out[w][TRUE] = 0 /\ out[w][FALSE] = 0
            BY <2>2 DEF SetUp
      <2>4. cpc # "idle" => zerolatency /\ cpc # "mix"
            BY <1>4, <2>1, <2>2 DEF InitZero, SetUp
      <2>5. cpc # "wait" => signalCount = 0
            BY <2>1, <2>3 DEF BInv
      <2>6. cpc = "wait" => signalCount # 0
            BY DEF BInv, TypeOK
      <2>7. /\ ipc' = "alloc" /\ toggle' = TRUE
            /\ UNCHANGED <<setup, inits, buffers, signalCount, cpc, zerolatency,
                           wpc, lcount, wtoggle, wzero, wbuf, out>>
            /\ zeroLatency' <=> setup.zero
            BY <1>4 DEF InitZero, BInv, TypeOK
      <2>8. FType' /\ FirstHalf'
            BY <2>7 DEF FType, FirstHalf, Written
      <2>9. SetUp'
            <3>1. /\ inits' = 1 /\ ipc' = "alloc"
                  /\ zeroLatency' <=> setup'.zero
                  BY <2>2, <2>7
            <3>2. setup'.zero /\ cpc' # "idle" => zerolatency'
                  BY <2>7 DEF SetUp
            <3>3. \A w \in Workers : /\ wpc'[w] = "none" /\ lcount'[w] = 0
                                     /\ ~wtoggle'[w]
                                     /\ out'[w][TRUE] = 0 /\ out'[w][FALSE] = 0
                  BY <2>2, <2>3, <2>7
            <3>4. cpc' = "mix" => ~zerolatency'
                  BY <2>4, <2>7
            <3>5. inits' # 0 /\ ipc' # "zero" /\ ipc' \in {"zero", "alloc"}
                  BY <3>1
            <3>6. \A w \in Workers : wpc'[w] \in {"none", "new"}
                  BY <3>3
            <3> QED BY <3>1, <3>2, <3>3, <3>4, <3>5, <3>6, Zenon DEF SetUp
      <2>10. BothHalves'
            <3>1. CASE cpc \in {"idle", "reset", "signal"}
                  BY <3>1, <2>2, <2>3, <2>4, <2>5, <2>7 DEF BothHalves
            <3>2. CASE cpc = "wait"
                  <4>1. \A w \in Workers : ~Written(w)' /\ ~Turned(w)'
                        BY <3>2, <2>3, <2>6, <2>7 DEF Written, Turned
                  <4> QED BY <3>2, <2>3, <2>4, <2>7, <4>1 DEF BothHalves
            <3>3. CASE cpc = "crash"
                  BY <3>3, <2>7 DEF BothHalves
            <3> QED BY <2>4, <3>1, <3>2, <3>3 DEF BInv, TypeOK
      <2> QED BY <1>1, <2>8, <2>9, <2>10
<1>5. CASE InitAlloc
      <2> USE <1>5 DEF InitAlloc
      <2>1. FType'
            BY DEF FType, BInv, TypeOK
      <2>2. SetUp'
            BY DEF FType, SetUp, BInv, TypeOK
      <2>3. FirstHalf'
            BY DEF FType, SetUp, FirstHalf, Written, BInv, TypeOK
      <2>4. BothHalves'
            BY DEF FType, SetUp, BothHalves, Written, Turned, BInv, TypeOK
      <2> QED BY <1>1, <2>1, <2>2, <2>3, <2>4
<1>6. CASE InitStart
      <2> DEFINE v == <<inits, started + 1>>
      <2>1. v \in Workers /\ wpc[v] = "none"
            BY <1>6 DEF InitStart, Workers, Gens, BInv, TypeOK
      <2>2. /\ wpc' = [wpc EXCEPT ![v] = "new"]
            /\ \A w \in Workers : w # v => wpc'[w] = wpc[w]
            /\ wpc'[v] = "new" /\ inits = 1 /\ ipc = "start"
            /\ UNCHANGED <<setup, inits, device, signalCount, callback,
                           lcount, wtoggle, wzero, wbuf, out>>
            /\ ipc' \in {"idle", "start"}
            BY <1>6, <2>1 DEF InitStart, BInv, TypeOK
      <2>3. /\ \A w \in Workers : Written(w)' <=> Written(w)
            /\ \A w \in Workers : Turned(w)' <=> Turned(w)
            BY <2>1, <2>2 DEF Written, Turned
      <2>4. cpc # "mix" \/ ~zerolatency
            BY <2>1 DEF SetUp
      <2>5. SetUp'
            BY <2>1, <2>2, <2>4 DEF SetUp
      <2>6. FirstHalf' /\ BothHalves'
            BY <2>2, <2>3 DEF FirstHalf, BothHalves
      <2> QED BY <1>1, <2>2, <2>5, <2>6 DEF FType
<1> QED BY <1>2, <1>3, <1>4, <1>5, <1>6 DEF Script

(* The steps of the audio callback keep it.                                *)
LEMMA CallbackKeepsFInv ==
  ASSUME MaxInits = 1, FInv, Callback
  PROVE  FInv'
<1>1. BInv'
      BY CallbackKeepsBInv DEF FInv
<1> USE AudioAssumption DEF device, init, callback, worker, FInv
<1>2. CASE Enter
      <2>1. /\ cpc = "idle" /\ cpc' \in {"crash", "reset"}
            /\ zerolatency' <=> zeroLatency
            /\ zerolatency' \in BOOLEAN
            /\ UNCHANGED <<setup, init, device, signalCount, worker, out>>
            BY <1>2 DEF Enter, BInv, TypeOK
      <2>2. inits \in {0, 1}
            BY DEF BInv, TypeOK
      <2>3. FType' /\ FirstHalf'
            BY <2>1 DEF FType, FirstHalf, Written
      <2>4. SetUp'
            BY <2>1, <2>2 DEF SetUp
      <2>5. BothHalves'
            BY <2>1 DEF SetUp, BothHalves
      <2> QED BY <1>1, <2>3, <2>4, <2>5
<1>3. CASE Reset
      <2> USE <1>3 DEF Reset
      <2>1. FType'
            BY DEF FType, BInv, TypeOK
      <2>2. SetUp'
            BY DEF FType, SetUp, BInv, TypeOK
      <2>3. FirstHalf'
            BY DEF FType, SetUp, FirstHalf, Written, BInv, TypeOK
      <2>4. BothHalves'
            BY DEF FType, SetUp, BothHalves, Written, Turned, BInv, TypeOK
      <2> QED BY <1>1, <2>1, <2>2, <2>3, <2>4
<1>4. CASE Signal
      <2>1. /\ cpc = "signal" /\ cpc' = "wait" /\ signalCount' # signalCount
            /\ UNCHANGED <<setup, init, device, zerolatency, worker, out>>
            BY <1>4 DEF Signal, BInv, TypeOK
      <2>2. \A w \in Workers : ~Written(w)' /\ ~Turned(w)'
            BY <2>1 DEF Written, Turned, BInv
      <2>3. FType' /\ SetUp'
            BY <2>1 DEF FType, SetUp
      <2>4. FirstHalf' /\ BothHalves'
            BY <2>1, <2>2 DEF FirstHalf, BothHalves
      <2> QED BY <1>1, <2>3, <2>4
<1>5. CASE Spin
      <2> USE <1>5 DEF Spin
      <2>1. FType'
            BY DEF FType, BInv, TypeOK
      <2>2. SetUp'
            BY DEF FType, SetUp, BInv, TypeOK
      <2>3. FirstHalf'
            BY DEF FType, SetUp, FirstHalf, Written, BInv, TypeOK
      <2>4. BothHalves'
            BY DEF FType, SetUp, BothHalves, Written, Turned, BInv, TypeOK
      <2> QED BY <1>1, <2>1, <2>2, <2>3, <2>4
<1>6. CASE WaitEnd
      <2>1. Cardinality(Finished) \in 0..N /\ Cardinality(Finished) \in {Default, N}
            BY <1>6, FinishedFinite DEF WaitEnd, BInv
      <2>2. \A w \in Workers : wpc[w] = "wait" /\ lcount[w] = signalCount
            BY <2>1, FinishedFinite DEF Default, Finished
      <2>3. <<1, 1>> \in Workers
            BY DEF Workers, Gens
      <2>4. inits = 1 /\ ipc \notin {"zero", "alloc"}
            BY <2>2, <2>3 DEF BInv, TypeOK
      <2> QED BY <1>1, <1>6, <2>2, <2>4 DEF WaitEnd, FType, SetUp, FirstHalf,
                  BothHalves, Written, Turned, BInv, TypeOK
<1>7. CASE Mix
      <2> USE <1>7 DEF Mix
      <2>1. FType'
            BY DEF FType, BInv, TypeOK
      <2>2. SetUp'
            BY DEF FType, SetUp, BInv, TypeOK
      <2>3. FirstHalf'
            BY DEF FType, SetUp, FirstHalf, Written, BInv, TypeOK
      <2>4. BothHalves'
            BY DEF FType, SetUp, BothHalves, Written, Turned, BInv, TypeOK
      <2> QED BY <1>1, <2>1, <2>2, <2>3, <2>4
<1> QED BY <1>2, <1>3, <1>4, <1>5, <1>6, <1>7 DEF Callback

(* The steps of a worker keep it.                                          *)
LEMMA WorkerKeepsFInv ==
  ASSUME MaxInits = 1, FInv, NEW v \in Workers, Worker(v)
  PROVE  FInv'
<1>1. BInv'
      BY WorkerKeepsBInv DEF FInv
<1> USE AudioAssumption DEF device, init, callback, worker, FInv
<1>2. CASE WorkerStart(v)
      <2>1. buffers = 1 /\ inits = 1 /\ (zeroLatency <=> setup.zero)
            BY <1>2 DEF WorkerStart, BInv, TypeOK, SetUp
      <2>2. /\ wpc[v] = "new" /\ wpc'[v] = "wait"
            /\ wbuf'[v] = 1 /\ (wzero'[v] <=> setup.zero)
            /\ \A w \in Workers : w # v => /\ wpc'[w] = wpc[w]
                                           /\ wbuf'[w] = wbuf[w]
                                           /\ wzero'[w] = wzero[w]
            /\ UNCHANGED <<setup, init, device, signalCount, callback, lcount,
                           wtoggle, out>>
            BY <1>2, <2>1 DEF WorkerStart, BInv, TypeOK, FType
      <2>3. /\ \A w \in Workers : Written(w)' <=> Written(w)
            /\ \A w \in Workers : Turned(w)' <=> Turned(w)
            BY <2>2 DEF Written, Turned
      <2>4. FType'
            BY <1>2, <2>1, <2>2 DEF WorkerStart, FType, BInv, TypeOK
      <2>5. SetUp'
            BY <2>2 DEF SetUp
      <2>6. FirstHalf' /\ BothHalves'
            BY <2>2, <2>3 DEF FirstHalf, BothHalves
      <2> QED BY <1>1, <2>4, <2>5, <2>6
<1>3. CASE WorkerWake(v)
      <2>1. cpc = "wait" /\ lcount[v] = signalCount - 1 /\ signalCount > 0
            BY <1>3 DEF WorkerWake, BInv, TypeOK
      <2>2. /\ wpc'[v] = "run" /\ wpc[v] = "wait" /\ lcount'[v] = signalCount
            /\ \A w \in Workers :
                 w # v => wpc'[w] = wpc[w] /\ lcount'[w] = lcount[w]
            /\ UNCHANGED <<setup, init, device, signalCount, callback, wtoggle,
                           wzero, wbuf, out>>
            BY <1>3, <2>1 DEF WorkerWake, BInv, TypeOK
      <2>3. /\ ~Written(v) /\ ~Turned(v) /\ ~Written(v)' /\ ~Turned(v)'
            /\ \A w \in Workers : w # v => (Written(w)' <=> Written(w))
            /\ \A w \in Workers : w # v => (Turned(w)' <=> Turned(w))
            BY <2>1, <2>2 DEF Written, Turned, BInv, TypeOK
      <2>4. SetUp'
            BY <2>1, <2>2 DEF SetUp
      <2>5. FirstHalf'
            BY <2>2, <2>3 DEF FirstHalf
      <2>6. BothHalves'
            BY <2>1, <2>2, <2>3 DEF BothHalves
      <2> QED BY <1>1, <2>2, <2>4, <2>5, <2>6 DEF FType
<1>4. CASE WorkerWrite(v)
      <2>1. cpc = "wait" /\ lcount[v] = signalCount /\ <<wbuf[v], v[2]>> = v
            BY <1>4 DEF WorkerWrite, BInv, TypeOK, SetUp, Workers, Gens
      <2>2. /\ wpc[v] = "run" /\ wpc'[v] = "done"
            /\ \A w \in Workers : w # v => /\ wpc'[w] = wpc[w]
                                           /\ out'[w] = out[w]
            /\ UNCHANGED <<setup, init, device, signalCount, callback, lcount,
                           wtoggle, wzero, wbuf>>
            BY <1>4, <2>1 DEF WorkerWrite, BInv, TypeOK, FType
      <2>3. FType' /\ out'[v][wtoggle[v]] = signalCount
            BY <1>4, <2>1 DEF WorkerWrite, FType, BInv, TypeOK
      <2>4. /\ ~Written(v) /\ ~Turned(v) /\ Written(v)' /\ ~Turned(v)'
            /\ \A w \in Workers : w # v => (Written(w)' <=> Written(w))
            /\ \A w \in Workers : w # v => (Turned(w)' <=> Turned(w))
            BY <2>1, <2>2 DEF Written, Turned
      <2>5. SetUp'
            BY <2>1, <2>2 DEF SetUp
      <2>6. FirstHalf'
            <3>1. setup.zero => wtoggle[v] = FALSE
                  BY DEF FType, FirstHalf
            <3> QED BY <2>2, <2>3, <2>4, <3>1 DEF FirstHalf
      <2>7. BothHalves'
            <3> SUFFICES ASSUME ~setup.zero, inits = 1, ipc # "zero"
                         PROVE  BothHalves'
                BY <2>2 DEF BothHalves
            <3>1. ~zerolatency => wtoggle[v] = toggle
                  BY <2>1, <2>4 DEF BothHalves, FType, BInv, TypeOK
            <3>2. zerolatency => wtoggle[v] = FALSE
                  BY <2>1, <2>4 DEF BothHalves, FType
            <3> QED BY <2>1, <2>2, <2>3, <2>4, <3>1, <3>2 DEF BothHalves
      <2> QED BY <1>1, <2>3, <2>5, <2>6, <2>7
<1>5. CASE WorkerDone(v)
      <2>1. cpc = "wait" /\ lcount[v] = signalCount
            BY <1>5 DEF WorkerDone, BInv, TypeOK
      <2>2. /\ wpc'[v] = "wait" /\ wpc[v] = "done"
            /\ wtoggle'[v] <=> IF setup.zero THEN wtoggle[v] ELSE ~wtoggle[v]
            /\ \A w \in Workers :
                 w # v => wpc'[w] = wpc[w] /\ wtoggle'[w] = wtoggle[w]
            /\ UNCHANGED <<setup, init, device, signalCount, callback, lcount,
                           wzero, wbuf, out>>
            BY <1>5, <2>1 DEF WorkerDone, BInv, TypeOK, FType, SetUp
      <2>3. /\ Written(v) /\ ~Turned(v) /\ Written(v)' /\ Turned(v)'
            /\ \A w \in Workers : w # v => (Written(w)' <=> Written(w))
            /\ \A w \in Workers : w # v => (Turned(w)' <=> Turned(w))
            BY <2>1, <2>2 DEF Written, Turned
      <2>4. FType'
            BY <1>5 DEF WorkerDone, FType
      <2>5. SetUp'
            BY <2>1, <2>2 DEF SetUp
      <2>6. FirstHalf'
            BY <2>2, <2>3 DEF FirstHalf
      <2>7. BothHalves'
            BY <2>1, <2>2, <2>3 DEF BothHalves
      <2> QED BY <1>1, <2>4, <2>5, <2>6, <2>7
<1> QED BY <1>2, <1>3, <1>4, <1>5 DEF Worker

(* A step that changes nothing keeps it.                                   *)
LEMMA StutterKeepsFInv ==
  ASSUME FInv, UNCHANGED vars
  PROVE  FInv'
<1> USE DEF vars, device, init, callback, worker
<1>1. BInv'
      BY DEF FInv, BInv, TypeOK, Finished
<1>2. FType' /\ SetUp'
      BY DEF FInv, FType, SetUp
<1>3. FirstHalf' /\ BothHalves'
      BY DEF FInv, FirstHalf, BothHalves, Written, Turned
<1> QED BY <1>1, <1>2, <1>3 DEF FInv

(* What the workers have written agrees with what the callback will mix,   *)
(* in every set-up.                                                        *)
THEOREM BufferInvariance ==
  ASSUME MaxInits = 1
  PROVE  Spec => []FInv
<1>1. FInv /\ [Next]_vars => FInv'
      <2> SUFFICES ASSUME FInv, [Next]_vars PROVE FInv'
          OBVIOUS
      <2> QED BY StutterKeepsFInv, ScriptKeepsFInv, CallbackKeepsFInv,
                 WorkerKeepsFInv DEF Next
<1> QED BY <1>1, InitEstablishesFInv, PTL DEF Spec

(* What the callback mixes was computed by all workers in the same round,  *)
(* this one or with latency the last one: for any number of workers and of *)
(* buffers, and for a callback at any point of dsp:set!.                   *)
THEOREM MixedOutputFresh ==
  ASSUME MaxInits = 1
  PROVE  Spec => []MixFresh
<1>1. FInv => MixFresh
      <2> SUFFICES ASSUME FInv, cpc = "mix", Ready, NEW i \in 1..N
                   PROVE  out[<<buffers, i>>][MixHalf] = signalCount
          BY DEF MixFresh
      <2> DEFINE w == <<buffers, i>>
      <2>1. buffers = 1 /\ inits = 1 /\ w \in Workers /\ ipc # "zero"
            BY AudioAssumption DEF FInv, BInv, TypeOK, Ready, Workers, Gens,
                                   SetUp
      <2>2. Written(w)
            BY <2>1 DEF FInv, BInv, Written
      <2>3. CASE zerolatency
            <3>1. MixHalf = FALSE
                  BY <2>3 DEF MixHalf
            <3>2. out[w][FALSE] = signalCount
                  BY <2>1, <2>2, <2>3 DEF FInv, FirstHalf, BothHalves
            <3> QED BY <3>1, <3>2
      <2>4. CASE ~zerolatency
            <3>1. MixHalf = toggle
                  BY <2>4 DEF MixHalf, FInv, BInv, TypeOK
            <3>2. ~setup.zero
                  BY <2>4 DEF FInv, SetUp
            <3>3. out[w][toggle] = signalCount
                  BY <2>1, <2>4, <3>2 DEF FInv, BothHalves
            <3> QED BY <3>1, <3>3
      <2> QED BY <2>3, <2>4
<1> QED BY <1>1, BufferInvariance, PTL

(* A callback in a set-up that keeps it out until dsp:set! is done has     *)
(* buffers.                                                                *)
RInv == /\ FInv
        /\ ~setup.early /\ cpc # "idle" => Ready
        /\ cpc # "crash"

(* The callback never finds its buffers missing, when it comes during      *)
(* dsp:set! only to a zero-latency set-up without input.                   *)
THEOREM BuffersAllocated ==
  ASSUME MaxInits = 1, \A s \in Setups : s.early => s.zero /\ ~s.input
  PROVE  Spec => []BuffersReady
<1>1. Init => RInv
      BY InitEstablishesFInv DEF Init, RInv
<1>2. RInv /\ [Next]_vars => RInv'
      <2> SUFFICES ASSUME RInv, [Next]_vars PROVE RInv'
          OBVIOUS
      <2> USE AudioAssumption DEF device, init, callback, worker
      <2>1. setup \in Setups /\ setup' = setup
            <3>1. setup \in Setups
                  BY DEF RInv, FInv, BInv, TypeOK
            <3>2. CASE Script
                  BY <3>1, <3>2 DEF Script, SetClosure, InitNum, InitZero, InitAlloc,
                              InitStart
            <3>3. CASE Callback
                  BY <3>1, <3>3 DEF Callback, Enter, Reset, Signal, Spin, WaitEnd, Mix
            <3>4. CASE \E w \in Workers : Worker(w)
                  BY <3>1, <3>4 DEF Worker, WorkerStart, WorkerWake, WorkerWrite,
                              WorkerDone
            <3> QED BY <3>1, <3>2, <3>3, <3>4 DEF Next, vars
      <2>2. FInv'
            BY StutterKeepsFInv, ScriptKeepsFInv, CallbackKeepsFInv,
               WorkerKeepsFInv DEF Next, RInv
      <2>3. Ready => Ready'
            <3>1. CASE InitAlloc
                  BY <3>1 DEF InitAlloc, Ready, RInv, FInv, BInv
            <3>2. CASE ~InitAlloc
                  BY <3>2 DEF Next, Script, SetClosure, InitNum, InitZero,
                              InitStart, Callback, Enter, Reset, Signal, Spin,
                              WaitEnd, Mix, Worker, WorkerStart, WorkerWake,
                              WorkerWrite, WorkerDone, vars, Ready
            <3> QED BY <3>1, <3>2
      <2>4. CASE Enter
            BY <2>1, <2>2, <2>3, <2>4 DEF Enter, RInv
      <2>5. CASE Mix
            <3>1. Ready
                  <4>1. CASE zerolatency
                        <5>1. <<1, 1>> \in Workers
                              BY DEF Workers, Gens
                        <5>2. wpc[<<1, 1>>] = "wait"
                              BY <2>5, <4>1, <5>1 DEF Mix, RInv, FInv, SetUp
                        <5> QED BY <5>1, <5>2
                                DEF Ready, RInv, FInv, BInv, TypeOK, SetUp
                  <4>2. CASE ~zerolatency
                        BY <2>1, <2>5, <4>2 DEF Mix, RInv, FInv, SetUp
                  <4> QED BY <4>1, <4>2
            <3> QED BY <2>2, <2>5, <3>1 DEF Mix, RInv, Ready
      <2>6. CASE /\ cpc' # "crash"
                 /\ cpc' # "idle" => cpc # "idle"
            BY <2>1, <2>2, <2>3, <2>6 DEF RInv
      <2>7. CASE ~Enter /\ ~Mix
            <3>1. /\ cpc' # "crash"
                  /\ cpc' # "idle" => cpc # "idle"
                  BY <2>7 DEF Next, Script, SetClosure, InitNum, InitZero,
                              InitAlloc, InitStart, Callback, Reset, Signal,
                              Spin, WaitEnd, Worker, WorkerStart, WorkerWake,
                              WorkerWrite, WorkerDone, vars, RInv
            <3> QED BY <3>1, <2>6
      <2> QED BY <2>4, <2>5, <2>7
<1>3. RInv => BuffersReady
      BY DEF RInv, BuffersReady
<1> QED BY <1>1, <1>2, <1>3, PTL DEF Spec
=============================================================================
