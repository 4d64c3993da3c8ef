----------------------------- MODULE Scheduler -----------------------------
(***************************************************************************)
(* The task scheduler: its thread (TaskScheduler::queueThreadImpl and      *)
(* timeSlice), its queue, the part of the audio callback that moves the    *)
(* clock and wakes the thread, and the start-up code that orders them.     *)
(*                                                                         *)
(* m_queueMutex is held from a look at the queue to the pop that follows   *)
(* it, and by add: each of these is one step.  m_guard is the monitor the  *)
(* thread waits on; the callback signals it without taking its lock.       *)
(***************************************************************************)
EXTENDS Integers, FiniteSets

CONSTANTS
  Tasks,          \* identities of tasks; each is added at most once
  NoTask,
  Starts,         \* the start times that are asked for
  Frames,         \* FramesPerBuffer of the audio device
  TimeDivisions,  \* values of --timediv
  AudioModes,     \* values of --noaudio
  MaxTime         \* bound: the clocks stop counting there

ASSUME SchedulerAssumption ==
  /\ Frames \in Nat
  /\ MaxTime \in Nat
  /\ Starts \subseteq Nat
  /\ TimeDivisions \subseteq Nat \ {0}
  /\ AudioModes \subseteq BOOLEAN
  /\ NoTask \notin [id : Tasks, start : Starts]

VARIABLES
  main,          \* where extempore_init is
  timeDivision,  \* UNIV::TIME_DIVISION
  audioNone,     \* UNIV::AUDIO_NONE
  time,          \* UNIV::TIME
  deviceTime,    \* UNIV::DEVICE_TIME
  numFrames,     \* m_numFrames
  apc,           \* where the audio callback is
  pc,            \* where the scheduler's thread is
  frames,        \* the local variable of timeSlice
  queue,         \* m_queue
  current,       \* the task in execute()
  done           \* identities of the tasks that were executed

clocks == <<time, deviceTime>>
config == <<timeDivision, audioNone>>
tasks  == <<queue, current, done>>
vars   == <<main, config, clocks, numFrames, apc, pc, frames, tasks>>

Task == [id : Tasks, start : Starts]

TypeOK ==
  /\ main \in {"start", "configure", "up"}
  /\ timeDivision \in TimeDivisions \cup {4}
  /\ audioNone \in BOOLEAN
  /\ time \in 0..MaxTime /\ deviceTime \in 0..MaxTime
  /\ numFrames \in {0, Frames}
  /\ apc \in {"off", "idle", "set_frames", "signal"}
  /\ pc \in {"none", "slice", "peek", "execute", "pass_end", "guard",
             "waiting"}
  /\ frames \in Nat
  /\ queue \subseteq Task
  /\ current \in Task \cup {NoTask}
  /\ done \subseteq Tasks

(* The options were parsed, nothing was started. *)
Init ==
  /\ main = "start"
  /\ timeDivision \in TimeDivisions
  /\ audioNone \in AudioModes
  /\ time = 0 /\ deviceTime = 0
  /\ numFrames = 0
  /\ apc = "off"
  /\ pc = "none"
  /\ frames = 0
  /\ queue = {} /\ current = NoTask /\ done = {}

-----------------------------------------------------------------------------
(* Start-up.                                                               *)

(* extempore_init starts the scheduler's thread first.  Both branches of   *)
(* queueThreadImpl call timeSlice.  Which of them was taken does not       *)
(* matter: timeSlice returns only if TIME_DIVISION is 1 by then, and it    *)
(* never becomes 1.                                                        *)
StartThread ==
  /\ main = "start"
  /\ main' = "configure"
  /\ pc' = "slice"
  /\ UNCHANGED <<config, clocks, numFrames, apc, frames, tasks>>

(* Then either the audio device, or a division of the buffer by 4.         *)
Configure ==
  /\ main = "configure"
  /\ main' = "up"
  /\ IF audioNone
       THEN /\ timeDivision' = IF timeDivision = 1 THEN 4 ELSE timeDivision
            /\ UNCHANGED apc
       ELSE /\ apc' = "idle"
            /\ UNCHANGED timeDivision
  /\ UNCHANGED <<audioNone, clocks, numFrames, pc, frames, tasks>>

(* add: a Scheme process or compiled code asks for a task.  These run once *)
(* start-up is over.                                                       *)
Known == {t.id : t \in queue} \cup done
           \cup (IF current = NoTask THEN {} ELSE {current.id})

Add(id, start) ==
  /\ main = "up"
  /\ id \notin Known
  /\ queue' = queue \cup {[id |-> id, start |-> start]}
  /\ UNCHANGED <<main, config, clocks, numFrames, apc, pc, frames,
                 current, done>>

-----------------------------------------------------------------------------
(* The audio callback.                                                     *)

Plus(t, n) == IF t + n > MaxTime THEN MaxTime ELSE t + n

(* Fault: audioCallback sets the clock whatever the division is.          *)
Tick_Undivided ==
  /\ apc = "idle"
  /\ apc' = "set_frames"
  /\ deviceTime' = Plus(deviceTime, Frames)
  /\ time' = deviceTime'
  /\ UNCHANGED <<main, config, numFrames, pc, frames, tasks>>

Tick ==
  /\ apc = "idle"
  /\ apc' = "set_frames"
  /\ deviceTime' = Plus(deviceTime, Frames)
  /\ time' = IF timeDivision = 1 THEN deviceTime' ELSE time
  /\ UNCHANGED <<main, config, numFrames, pc, frames, tasks>>

SetFrames ==
  /\ apc = "set_frames"
  /\ apc' = "signal"
  /\ numFrames' = Frames
  /\ UNCHANGED <<main, config, clocks, pc, frames, tasks>>

(* getGuard().signal(): lost unless the thread is waiting.                 *)
Signal ==
  /\ apc = "signal"
  /\ apc' = "idle"
  /\ pc' = IF pc = "waiting" THEN "slice" ELSE pc
  /\ UNCHANGED <<main, config, clocks, numFrames, frames, tasks>>

-----------------------------------------------------------------------------
(* The scheduler's thread.                                                 *)

BeginSlice ==
  /\ pc = "slice"
  /\ pc' = "peek"
  /\ frames' = numFrames \div timeDivision
  /\ UNCHANGED <<main, config, clocks, numFrames, apc, tasks>>

Due(t) == t.start < time + frames

(* peek and pop.  Equal start times are ordered by address: any of them.   *)
Pop(t) ==
  /\ pc = "peek"
  /\ \A u \in queue : t.start <= u.start
  /\ Due(t)
  /\ pc' = "execute"
  /\ queue' = queue \ {t}
  /\ current' = t
  /\ UNCHANGED <<main, config, clocks, numFrames, apc, frames, done>>

(* Fault: An exception of a task ends the thread.                         *)
Execute_Uncaught ==
  /\ pc = "execute"
  /\ pc' \in {"peek", "none"}
  /\ done' = done \cup {current.id}
  /\ current' = NoTask
  /\ UNCHANGED <<main, config, clocks, numFrames, apc, frames, queue>>

(* execute and delete.  No caller of add sets a tag.                       *)
Execute ==
  /\ pc = "execute"
  /\ pc' = "peek"
  /\ done' = done \cup {current.id}
  /\ current' = NoTask
  /\ UNCHANGED <<main, config, clocks, numFrames, apc, frames, queue>>

NothingDue ==
  /\ pc = "peek"
  /\ \A t \in queue : ~Due(t)
  /\ pc' = "pass_end"
  /\ UNCHANGED <<main, config, clocks, numFrames, apc, frames, tasks>>

(* The end of a pass: return to the wait loop, or move the clock, sleep    *)
(* and look again with the frames read when timeSlice was entered.         *)
PassEnd ==
  /\ pc = "pass_end"
  /\ IF timeDivision = 1
       THEN /\ pc' = "guard"
            /\ UNCHANGED time
       ELSE /\ pc' = "peek"
            /\ time' = Plus(time, frames)
  /\ UNCHANGED <<main, config, deviceTime, numFrames, apc, frames, tasks>>

Wait ==
  /\ pc = "guard"
  /\ pc' = "waiting"
  /\ UNCHANGED <<main, config, clocks, numFrames, apc, frames, tasks>>

(* The wait has no predicate: a spurious wake-up starts a slice.           *)
WakeUp ==
  /\ pc = "waiting"
  /\ pc' = "slice"
  /\ UNCHANGED <<main, config, clocks, numFrames, apc, frames, tasks>>

-----------------------------------------------------------------------------
Main      == StartThread \/ Configure
Callback  == Tick \/ SetFrames \/ Signal
Thread    == BeginSlice \/ (\E t \in queue : Pop(t)) \/ Execute \/ NothingDue
               \/ PassEnd \/ Wait
Adders    == \E id \in Tasks, start \in Starts : Add(id, start)

Next == Main \/ Callback \/ Thread \/ Adders \/ WakeUp

Spec == Init /\ [][Next]_vars

(* The operating system runs every thread, and the device goes on calling  *)
(* back; nobody has to ask for a task, and no wake-up has to be spurious.  *)
FairSpec == Spec /\ WF_vars(Main) /\ WF_vars(Callback) /\ WF_vars(Thread)

-----------------------------------------------------------------------------
(* The invariant: the two clocks agree when the buffer is not divided, the *)
(* frames of a slice belong to the division that is set, and without an    *)
(* audio device there are none.                                            *)
SInv ==
  /\ TypeOK
  /\ frames \in {0, Frames \div timeDivision}
  /\ audioNone => numFrames = 0 /\ frames = 0 /\ apc = "off"
  /\ main # "up" => /\ numFrames = 0 /\ frames = 0 /\ apc = "off"
                    /\ queue = {} /\ current = NoTask
  /\ current # NoTask <=> pc = "execute"
  /\ timeDivision = 1 => time = deviceTime

A == INSTANCE Agenda WITH now <- time, window <- Frames \div timeDivision,
                          pending <- queue, running <- current,
                          finished <- done

(* The scheduler implements the agenda: each task once, the earliest       *)
(* first, at most one division of the buffer ahead of a clock that never   *)
(* runs back, whichever thread moves it.                                   *)
Refines == A!Spec

(* With an audio device and an undivided buffer every task that was added  *)
(* is executed, although signals that come before the thread waits are     *)
(* lost: the clock reaches it and the thread looks again.                  *)
TasksRun == (~audioNone /\ timeDivision = 1) =>
              \A id \in Tasks : (id \in Known) ~> (id \in done)

(* The clock that tasks are scheduled against goes on, as long as the      *)
(* program runs, whatever the options are.                                 *)
ClockRuns == <>(time = MaxTime)

=============================================================================
