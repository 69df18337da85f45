------------------------------ MODULE Executor ------------------------------
(***************************************************************************)
(* The executor of one core on the completion backend (crates/zero-io      *)
(* src/compio_rt/executor.rs): the tasks in slots that are used again, the *)
(* run queue that wakers of any thread push to, the loop that polls what   *)
(* is ready and then waits on the driver, the drain and the end.           *)
(*                                                                         *)
(* The core's thread runs its loop; other threads wake tasks.  One access  *)
(* to what they share (a task's scheduled flag, the queue under its lock,  *)
(* the driver's waker) is one step.  What a task waits for is a signal     *)
(* another thread raises before it wakes the task, a timer, or an          *)
(* operation of the driver.  The driver itself is external: a wait returns *)
(* when it was interrupted, when an operation completed or in time.        *)
(***************************************************************************)
EXTENDS Naturals, Sequences, FiniteSets

CONSTANTS
  Task,    (* the futures that may be spawned                               *)
  Main,    (* the one block_on runs                                         *)
  Thread,  (* the other threads                                             *)
  Nobody   (* None in a slot                                                *)

VARIABLES
  slots,      (* Tasks.slots: the task in each index, Nobody when taken out *)
  free,       (* Tasks.free                                                 *)
  live,       (* Handle.live                                                *)
  task,       (* each task: unborn, alive, ended or dropped                 *)
  id,         (* the index in each task's waker                             *)
  scheduled,  (* the flag in each task's waker                              *)
  ready,      (* Queue.ready                                                *)
  scratch,    (* the swapped queue, what is left of it                      *)
  notified,   (* the driver was interrupted since its last wait             *)
  signal,     (* what another thread has for the task, not yet seen by it   *)
  due,        (* the tasks with a timer or an operation that is due         *)
  core,       (* the core's loop: its step, the task polled, its time limit *)
  until,      (* drain's until: none, ahead or passed                       *)
  thread      (* each thread's wake: its step and task                      *)

taskVars  == <<slots, free, live, task, id>>
queueVars == <<scheduled, ready>>
worldVars == <<signal, due, until, thread>>
vars == <<slots, free, live, task, id, scheduled, ready, scratch, notified, signal, due,
          core, until, thread>>

Alive(u) == task[u] = "alive"

(* block_on spawned Main and enters its loop.                              *)
Init ==
  /\ slots = <<Main>> /\ free = <<>> /\ live = 1
  /\ task = [u \in Task |-> IF u = Main THEN "alive" ELSE "unborn"]
  /\ id = [u \in Task |-> IF u = Main THEN 1 ELSE 0]
  /\ scheduled = [u \in Task |-> u = Main] /\ ready = <<1>> /\ scratch = <<>>
  /\ notified = FALSE
  /\ signal = [u \in Task |-> FALSE] /\ due = {}
  /\ core = [at |-> "swap", task |-> Nobody, in |-> "block_on", limit |-> "none"]
  /\ until = "none"
  /\ thread = [t \in Thread |-> [at |-> "idle", task |-> Main]]

At(step) == core' = [core EXCEPT !.at = step]

(* TaskWaker::wake_by_ref on the core's own thread: no interrupt.          *)
WakeHere(u) ==
  IF scheduled[u]
  THEN UNCHANGED queueVars
  ELSE /\ scheduled' = [scheduled EXCEPT ![u] = TRUE]
       /\ ready' = Append(ready, id[u])

-----------------------------------------------------------------------------
(* Another thread: it raises the signal, then wakes the task by the waker  *)
(* it holds, which may be of a task that ended long ago.                   *)

Raise(t, u) ==
  /\ thread[t].at = "idle" /\ task[u] # "unborn"
  /\ signal' = [signal EXCEPT ![u] = Alive(u)]
  /\ thread' = [thread EXCEPT ![t] = [at |-> "swap", task |-> u]]
  /\ UNCHANGED <<taskVars, queueVars, scratch, notified, due, core, until>>

SwapScheduled(t) ==
  LET u == thread[t].task
  IN  /\ thread[t].at = "swap"
      /\ scheduled' = [scheduled EXCEPT ![u] = TRUE]
      /\ thread' = [thread EXCEPT ![t].at = IF scheduled[u] THEN "idle" ELSE "push"]
      /\ UNCHANGED <<taskVars, ready, scratch, notified, signal, due, core, until>>

PushReady(t) ==
  /\ thread[t].at = "push"
  /\ ready' = Append(ready, id[thread[t].task])
  /\ thread' = [thread EXCEPT ![t].at = "interrupt"]
  /\ UNCHANGED <<taskVars, scheduled, scratch, notified, signal, due, core, until>>

WakesQuietly(t) ==
  /\ thread[t].at = "interrupt"
  /\ thread' = [thread EXCEPT ![t].at = "idle"]
  /\ UNCHANGED <<taskVars, queueVars, scratch, notified, signal, due, core, until>>
Interrupt(t) ==
  /\ thread[t].at = "interrupt"
  /\ notified' = TRUE
  /\ thread' = [thread EXCEPT ![t].at = "idle"]
  /\ UNCHANGED <<taskVars, queueVars, scratch, signal, due, core, until>>

ThreadStep(t) == SwapScheduled(t) \/ PushReady(t) \/ Interrupt(t)

-----------------------------------------------------------------------------
(* run_ready.                                                              *)

Swap ==
  /\ core.at = "swap"
  /\ scratch' = ready /\ ready' = <<>>
  /\ At("run")
  /\ UNCHANGED <<taskVars, scheduled, notified, worldVars>>

(* The next index: its task is taken out and may be woken again from here. *)
Take ==
  /\ core.at = "run" /\ scratch # <<>>
  /\ scratch' = Tail(scratch)
  /\ LET u == slots[Head(scratch)]
     IN  IF u = Nobody
         THEN UNCHANGED <<slots, scheduled, core>>
         ELSE /\ slots' = [slots EXCEPT ![Head(scratch)] = Nobody]
              /\ scheduled' = [scheduled EXCEPT ![u] = FALSE]
              /\ core' = [core EXCEPT !.at = "poll", !.task = u]
  /\ UNCHANGED <<free, live, task, id, ready, notified, worldVars>>

(* A poll may wake any task of the core, itself included, or spawn one.    *)
WakeTask(v) ==
  /\ core.at = "poll" /\ task[v] # "unborn" /\ ~scheduled[v]
  /\ WakeHere(v)
  /\ UNCHANGED <<taskVars, scratch, notified, worldVars, core>>

spawn(v) ==
  LET new == IF free # <<>> THEN free[Len(free)] ELSE Len(slots) + 1
  IN  /\ core.at = "poll" /\ task[v] = "unborn"
      /\ slots' = IF free # <<>> THEN [slots EXCEPT ![new] = v] ELSE Append(slots, v)
      /\ free' = IF free # <<>> THEN SubSeq(free, 1, Len(free) - 1) ELSE free
      /\ task' = [task EXCEPT ![v] = "alive"] /\ id' = [id EXCEPT ![v] = new]
      /\ scheduled' = [scheduled EXCEPT ![v] = TRUE]
      /\ ready' = Append(ready, new)
      /\ live' = live + 1
      /\ UNCHANGED <<scratch, notified, worldVars, core>>

(* The poll sees the signal, if there is one, and stays pending: put back  *)
(* in its slot, on the signal and on a timer or an operation of its own.   *)
PollPending ==
  LET u == core.task
  IN  /\ core.at = "poll"
      /\ signal' = [signal EXCEPT ![u] = FALSE]
      /\ slots' = [slots EXCEPT ![id[u]] = u]
      /\ core' = [core EXCEPT !.at = "run", !.task = Nobody]
      /\ UNCHANGED <<free, live, task, id, queueVars, scratch, notified, due, until, thread>>

PollDone ==
  LET u == core.task
  IN  /\ core.at = "poll"
      /\ task' = [task EXCEPT ![u] = "ended"]
      /\ free' = Append(free, id[u]) /\ live' = live - 1
      /\ signal' = [signal EXCEPT ![u] = FALSE] /\ due' = due \ {u}
      /\ core' = [core EXCEPT !.at = "run", !.task = Nobody]
      /\ UNCHANGED <<slots, id, queueVars, scratch, notified, until, thread>>

-----------------------------------------------------------------------------
(* The loops of block_on and drain around a round.                         *)

(* block_on returns with the output of Main, and drain begins a round, its *)
(* deadline the clock's if it can hold it.                                 *)
DrainsForever ==
  /\ core.at = "run" /\ scratch = <<>>
  /\ \/ /\ core.in = "block_on" /\ Alive(Main) /\ At("park") /\ UNCHANGED until
     \/ /\ core.in = "block_on" /\ ~Alive(Main)
        /\ core' = [core EXCEPT !.at = "swap", !.in = "drain"]
        /\ until' \in {"none", "ahead"}
     \/ /\ core.in = "drain" /\ At(IF live = 0 THEN "clear" ELSE "park")
        /\ UNCHANGED until
  /\ UNCHANGED <<taskVars, queueVars, scratch, notified, signal, due, thread>>
RoundEnds ==
  /\ core.at = "run" /\ scratch = <<>>
  /\ \/ /\ core.in = "block_on" /\ Alive(Main) /\ At("park") /\ UNCHANGED until
     \/ /\ core.in = "block_on" /\ ~Alive(Main)
        /\ core' = [core EXCEPT !.at = "swap", !.in = "drain"]
        /\ until' \in {"none", "ahead"}
     \/ /\ core.in = "drain" /\ At(IF live = 0 \/ until = "passed" THEN "clear" ELSE "park")
        /\ UNCHANGED until
  /\ UNCHANGED <<taskVars, queueVars, scratch, notified, signal, due, thread>>

(* park: the queue is looked at before the wait, under its lock.           *)
Park ==
  /\ core.at = "park"
  /\ core' = [core EXCEPT !.at = "wait", !.limit = IF ready # <<>> THEN "zero" ELSE "none"]
  /\ UNCHANGED <<taskVars, queueVars, scratch, notified, worldVars>>

(* The driver: interrupted, out of time, or with something to deliver.     *)
MayReturn ==
  \/ notified \/ core.limit = "zero"
  \/ due # {}
  \/ core.in = "drain" /\ until = "passed"

Wait ==
  /\ core.at = "wait" /\ MayReturn
  /\ notified' = FALSE
  /\ At("deliver")
  /\ UNCHANGED <<taskVars, queueVars, scratch, worldVars>>

(* A wait that a signal of the system cut short, or a driver that failed.  *)
WaitCutShort ==
  /\ core.at = "wait"
  /\ At("deliver")
  /\ UNCHANGED <<taskVars, queueVars, scratch, notified, worldVars>>

(* An operation or a timer that is due wakes its task; then the next round.*)
Deliver(u) ==
  /\ core.at = "deliver" /\ u \in due
  /\ due' = due \ {u}
  /\ WakeHere(u)
  /\ UNCHANGED <<taskVars, scratch, notified, signal, until, thread, core>>

NextRound ==
  /\ core.at = "deliver" /\ due = {}
  /\ At("swap")
  /\ UNCHANGED <<taskVars, queueVars, scratch, notified, worldVars>>

(* clear: every task left is dropped, and what it held goes with it.       *)
Clear ==
  /\ core.at = "clear"
  /\ task' = [u \in Task |-> IF Alive(u) THEN "dropped" ELSE task[u]]
  /\ slots' = <<>> /\ free' = <<>> /\ live' = 0
  /\ signal' = [u \in Task |-> FALSE] /\ due' = {}
  /\ At("done")
  /\ UNCHANGED <<id, queueVars, scratch, notified, until, thread>>

CoreStep ==
  \/ Swap \/ Take \/ PollPending \/ PollDone \/ RoundEnds \/ Park \/ Wait \/ NextRound \/ Clear
  \/ \E u \in Task : WakeTask(u) \/ spawn(u) \/ Deliver(u)

-----------------------------------------------------------------------------
(* The kernel and the clock; one wait delivers what was due at its return. *)
ComesDue(u) ==
  /\ Alive(u) /\ u \notin due /\ core.at # "deliver"
  /\ due' = due \cup {u}
  /\ UNCHANGED <<taskVars, queueVars, scratch, notified, signal, core, until, thread>>

DeadlinePasses ==
  /\ core.in = "drain" /\ until = "ahead"
  /\ until' = "passed"
  /\ UNCHANGED <<taskVars, queueVars, scratch, notified, signal, due, core, thread>>

Next ==
  \/ CoreStep
  \/ \E t \in Thread : ThreadStep(t) \/ \E u \in Task : Raise(t, u)
  \/ \E u \in Task : ComesDue(u)
  \/ DeadlinePasses \/ WaitCutShort

(* The core's thread and the threads in a call are scheduled, a poll ends, *)
(* and time passes; a task need not finish.                                *)
Fairness ==
  /\ WF_vars(CoreStep) /\ WF_vars(DeadlinePasses)
  /\ \A t \in Thread : WF_vars(ThreadStep(t))

Spec == Init /\ [][Next]_vars /\ Fairness
=============================================================================
