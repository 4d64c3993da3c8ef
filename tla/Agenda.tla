------------------------------- MODULE Agenda -------------------------------
(***************************************************************************)
(* What the task scheduler of extempore promises to the rest of the        *)
(* program: a task asked for is run once, never more than `window' samples *)
(* before its start time, and never while a task with an earlier start     *)
(* time is pending; the clock that start times refer to never runs back.   *)
(***************************************************************************)
EXTENDS Naturals

CONSTANTS Tasks,    \* identities of the tasks
          Starts,   \* start times, in samples
          MaxTime,  \* bound on the clock
          NoTask

VARIABLES now,      \* the clock
          window,   \* how far ahead of the clock a task may be run
          pending,  \* the tasks asked for and not yet taken
          running,  \* the task being run, or NoTask
          finished  \* identities of the tasks that have run

vars == <<now, window, pending, running, finished>>

Task == [id : Tasks, start : Starts]

(* Identities that have been given out. *)
Known == {t.id : t \in pending} \cup finished
           \cup (IF running = NoTask THEN {} ELSE {running.id})

Init ==
  /\ now = 0
  /\ window \in Nat
  /\ pending = {}
  /\ running = NoTask
  /\ finished = {}

(* The buffer is divided, before there is anything to run. *)
Divide ==
  /\ pending = {}
  /\ running = NoTask
  /\ window' \in 0..window
  /\ UNCHANGED <<now, pending, running, finished>>

Ask(id, start) ==
  /\ id \notin Known
  /\ pending' = pending \cup {[id |-> id, start |-> start]}
  /\ UNCHANGED <<now, window, running, finished>>

Advance ==
  /\ now' \in now..MaxTime
  /\ UNCHANGED <<window, pending, running, finished>>

Run(t) ==
  /\ running = NoTask
  /\ t \in pending
  /\ \A u \in pending : t.start <= u.start
  /\ t.start < now + window
  /\ pending' = pending \ {t}
  /\ running' = t
  /\ UNCHANGED <<now, window, finished>>

Finish ==
  /\ running # NoTask
  /\ finished' = finished \cup {running.id}
  /\ running' = NoTask
  /\ UNCHANGED <<now, window, pending>>

Next ==
  \/ Divide
  \/ \E id \in Tasks, start \in Starts : Ask(id, start)
  \/ Advance
  \/ \E t \in pending : Run(t)
  \/ Finish

Spec == Init /\ [][Next]_vars
=============================================================================
