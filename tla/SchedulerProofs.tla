--------------------------- MODULE SchedulerProofs ---------------------------
(***************************************************************************)
(* The scheduler implements the agenda, for any tasks, start times, buffer *)
(* size and divisions, with an audio device or without.                    *)
(***************************************************************************)
EXTENDS Scheduler, TLAPS

(* The frames of a slice are a number of samples.                         *)
LEMMA DivisionIsNatural ==
  ASSUME NEW n \in Nat, NEW d \in Nat \ {0}
  PROVE  n \div d \in Nat
OBVIOUS

(* Dividing the buffer further never widens the window.                    *)
LEMMA DivisionShrinks ==
  ASSUME NEW n \in Nat
  PROVE  n \div 4 \in 0..(n \div 1)
OBVIOUS

(* Adding a buffer moves a clock forward, up to its bound.                 *)
LEMMA PlusIsMonotone ==
  ASSUME NEW t \in 0..MaxTime, NEW n \in Nat
  PROVE  Plus(t, n) \in t..MaxTime
BY SchedulerAssumption DEF Plus

(* The state after option parsing satisfies the invariant.                 *)
LEMMA InitEstablishesSInv == Init => SInv
BY SchedulerAssumption DEF Init, SInv, TypeOK

(* Every step of a thread keeps the invariant.                             *)
LEMMA StepKeepsSInv == SInv /\ [Next]_vars => SInv'
<1> SUFFICES ASSUME SInv, [Next]_vars PROVE SInv'
    OBVIOUS
<1> USE SchedulerAssumption DEF config, clocks, tasks, Task
<1>1. CASE StartThread
      BY <1>1 DEF StartThread, SInv, TypeOK
<1>2. CASE Configure
      BY <1>2 DEF Configure, SInv, TypeOK
<1>3. CASE Tick
      <2>1. Plus(deviceTime, Frames) \in 0..MaxTime
            BY PlusIsMonotone DEF SInv, TypeOK
      <2> QED BY <1>3, <2>1 DEF Tick, SInv, TypeOK
<1>4. CASE SetFrames
      BY <1>4 DEF SetFrames, SInv, TypeOK
<1>5. CASE Signal
      BY <1>5 DEF Signal, SInv, TypeOK
<1>6. CASE BeginSlice
      <2>1. numFrames \div timeDivision \in {0, Frames \div timeDivision}
            BY DEF SInv, TypeOK
      <2>2. numFrames = 0 => numFrames \div timeDivision = 0
            BY DEF SInv, TypeOK
      <2>3. frames' \in {0, Frames \div timeDivision} /\ frames' \in Nat
            BY <1>6, <2>1, DivisionIsNatural DEF BeginSlice, SInv, TypeOK
      <2> QED BY <1>6, <2>2, <2>3 DEF BeginSlice, SInv, TypeOK
<1>7. ASSUME NEW t \in queue, Pop(t) PROVE SInv'
      BY <1>7 DEF Pop, SInv, TypeOK
<1>8. CASE Execute
      BY <1>8 DEF Execute, SInv, TypeOK
<1>9. CASE NothingDue
      BY <1>9 DEF NothingDue, SInv, TypeOK
<1>10. CASE PassEnd
      <2>1. Plus(time, frames) \in 0..MaxTime
            BY PlusIsMonotone DEF SInv, TypeOK
      <2> QED BY <1>10, <2>1 DEF PassEnd, SInv, TypeOK
<1>11. CASE Wait
      BY <1>11 DEF Wait, SInv, TypeOK
<1>12. ASSUME NEW id \in Tasks, NEW start \in Starts, Add(id, start)
       PROVE  SInv'
      BY <1>12 DEF Add, SInv, TypeOK
<1>13. CASE WakeUp
      BY <1>13 DEF WakeUp, SInv, TypeOK
<1>14. CASE UNCHANGED vars
      BY <1>14 DEF vars, SInv, TypeOK
<1> QED BY <1>1, <1>2, <1>3, <1>4, <1>5, <1>6, <1>7, <1>8, <1>9, <1>10,
           <1>11, <1>12, <1>13, <1>14
        DEF Next, Main, Callback, Thread, Adders

(* The places of the three threads, the clocks and the frames of a slice   *)
(* agree in every behaviour of TaskScheduler and audioCallback.            *)
THEOREM SchedulerInvariance == Spec => []SInv
<1>1. Init => SInv
      BY InitEstablishesSInv
<1>2. SInv /\ [Next]_vars => SInv'
      BY StepKeepsSInv
<1> QED BY <1>1, <1>2, PTL DEF Spec

-----------------------------------------------------------------------------
(* Each step of the scheduler is a step of the agenda or changes nothing   *)
(* of it.                                                                  *)
LEMMA StepImplements == SInv /\ [Next]_vars => [A!Next]_(A!vars)
<1> SUFFICES ASSUME SInv, [Next]_vars PROVE [A!Next]_(A!vars)
    OBVIOUS
<1> USE SchedulerAssumption DEF config, clocks, tasks, A!vars, A!Next
<1>1. CASE StartThread \/ BeginSlice \/ NothingDue \/ Wait \/ WakeUp
             \/ SetFrames \/ Signal
      BY <1>1 DEF StartThread, BeginSlice, NothingDue, Wait, WakeUp,
                  SetFrames, Signal
<1>2. CASE Configure
      <2>1. CASE audioNone /\ timeDivision = 1
            <3>1. (Frames \div timeDivision)' \in 0..(Frames \div timeDivision)
                  BY <1>2, <2>1, DivisionShrinks DEF Configure
            <3>2. A!Divide
                  BY <1>2, <2>1, <3>1 DEF Configure, A!Divide, SInv
            <3> QED BY <3>2
      <2>2. CASE ~(audioNone /\ timeDivision = 1)
            BY <1>2, <2>2 DEF Configure, SInv, TypeOK
      <2> QED BY <2>1, <2>2
<1>3. CASE Tick
      <2>1. Plus(deviceTime, Frames) \in deviceTime..MaxTime
            BY PlusIsMonotone DEF SInv, TypeOK
      <2>2. time' \in time..MaxTime
            BY <1>3, <2>1 DEF Tick, SInv, TypeOK
      <2>3. A!Advance
            BY <1>3, <2>2 DEF Tick, A!Advance
      <2> QED BY <2>3
<1>4. ASSUME NEW t \in queue, Pop(t) PROVE A!Next
      <2>1. frames <= Frames \div timeDivision
            BY DivisionIsNatural DEF SInv, TypeOK
      <2>2. t \in Task
            BY DEF SInv, TypeOK
      <2>3. t.start \in Nat
            BY <2>2 DEF Task
      <2>4. Frames \div timeDivision \in Nat
            BY DivisionIsNatural DEF SInv, TypeOK
      <2>5. t.start < time + (Frames \div timeDivision)
            BY <1>4, <2>1, <2>3, <2>4 DEF Pop, Due, SInv, TypeOK
      <2>6. A!Run(t)
            BY <1>4, <2>5 DEF Pop, A!Run, SInv
      <2> QED BY <2>6
<1>5. CASE Execute
      <2>1. A!Finish
            BY <1>5 DEF Execute, A!Finish, SInv
      <2> QED BY <2>1
<1>6. CASE PassEnd
      <2>1. CASE timeDivision = 1
            BY <1>6, <2>1 DEF PassEnd
      <2>2. CASE timeDivision # 1
            <3>1. Plus(time, frames) \in time..MaxTime
                  BY PlusIsMonotone DEF SInv, TypeOK
            <3>2. A!Advance
                  BY <1>6, <2>2, <3>1 DEF PassEnd, A!Advance
            <3> QED BY <3>2
      <2> QED BY <2>1, <2>2
<1>7. ASSUME NEW id \in Tasks, NEW start \in Starts, Add(id, start)
      PROVE  A!Next
      <2>1. A!Ask(id, start)
            BY <1>7 DEF Add, A!Ask, Known, A!Known
      <2> QED BY <2>1
<1>8. CASE UNCHANGED vars
      BY <1>8 DEF vars
<1> QED BY <1>1, <1>2, <1>3, <1>4, <1>5, <1>6, <1>7, <1>8
        DEF Next, Main, Callback, Thread, Adders

(* The scheduler's thread, the audio callback and the start-up code        *)
(* together run each task once, the earliest first, at most one division   *)
(* of the buffer early, on a clock that never runs back.                   *)
THEOREM SchedulerImplementsAgenda == Spec => Refines
<1>1. Init => A!Init
      BY SchedulerAssumption, DivisionIsNatural DEF Init, A!Init
<1>2. SInv /\ [Next]_vars => [A!Next]_(A!vars)
      BY StepImplements
<1> QED BY <1>1, <1>2, SchedulerInvariance, PTL DEF Spec, Refines, A!Spec
=============================================================================
