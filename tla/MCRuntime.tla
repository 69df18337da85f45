----------------------------- MODULE MCRuntime ------------------------------
(***************************************************************************)
(* The parts of one core of the completion backend for TLC: its executor,  *)
(* its clock and the writes of a stream.  The models share no state, so a  *)
(* behaviour moves one of them, and the scene says which: the executor,    *)
(* the clock with few sleeps that come and go, the clock with a large heap *)
(* that empties, or a stream, under TLS or bare.                           *)
(***************************************************************************)
EXTENDS StreamWriteProps, TimersProps

CONSTANTS
  Task, Main, Thread, Nobody,                              (* Executor       *)
  Few,           (* the sleeps of the scene with few, of Sleep == 1 .. n     *)
  FewStarts,     (* how many registrations there are with few                *)
  HeapDurations  (* how long the sleeps of the heap are                      *)

VARIABLES scene,
  slots, free, live, task, id, scheduled, ready, scratch, notified, signal, due, core, until,
  thread

Exec  == INSTANCE ExecutorProps

execVars    == <<slots, free, live, task, id, scheduled, ready, scratch, notified, signal, due,
                 core, until, thread>>
runtimeVars == <<scene, execVars, clockVars, vars>>

-----------------------------------------------------------------------------
(* The executor of the other scenes has ended: nothing of it is fair.      *)
Stopped ==
  /\ slots = <<>> /\ free = <<>> /\ live = 0
  /\ task = [u \in Task |-> "ended"] /\ id = [u \in Task |-> 1]
  /\ scheduled = [u \in Task |-> FALSE] /\ ready = <<>> /\ scratch = <<>> /\ notified = FALSE
  /\ signal = [u \in Task |-> FALSE] /\ due = {} /\ until = "passed"
  /\ core = [at |-> "done", task |-> Nobody, in |-> "drain", limit |-> "none"]
  /\ thread = [t \in Thread |-> [at |-> "idle", task |-> Main]]

RuntimeInit ==
  /\ scene \in {"executor", "few", "heap", "stream"}
  /\ IF scene = "executor" THEN Exec!Init ELSE Stopped
  /\ ClockInit /\ Init
  /\ scene # "stream" => tls

(* Sleeps that come and go, with every waker.                              *)
FewSleeps ==
  /\ \A s \in Sleep \ Few : ~sleeps'[s].live
  /\ timers'.next_sequence <= FewStarts + 1

(* Every sleep is registered, one after the other; two of them are         *)
(* dropped, from anywhere in the heap, and time passes.                    *)
Registering == {s \in Sleep : sleeps[s].key # None}
Filling ==
  \E s \in Sleep, d \in HeapDurations :
    /\ 1 .. s - 1 = Registering /\ now = 0
    /\ Start(s, d) \/ Poll(s, CHOOSE w \in Waker : TRUE)
Emptying ==
  /\ timers.next_sequence > MaxStarts
  /\ \/ Fire \/ Tick
     \/ now = 0 /\ Len(timers.free) < 2 /\ \E s \in Sleep : DropSleep(s)

RuntimeNext ==
  \/ scene = "executor" /\ Exec!Next /\ UNCHANGED <<scene, clockVars, vars>>
  \/ scene = "few" /\ ClockNext /\ FewSleeps /\ UNCHANGED <<scene, execVars, vars>>
  \/ scene = "heap" /\ Filling /\ UNCHANGED <<scene, execVars, vars>>
  \/ scene = "heap" /\ Emptying /\ UNCHANGED <<scene, execVars, vars>>
  \/ scene = "stream" /\ Next /\ UNCHANGED <<scene, execVars, clockVars>>

RuntimeSpec == RuntimeInit /\ [][RuntimeNext]_runtimeVars /\ Exec!Fairness

-----------------------------------------------------------------------------
(* The properties of the parts on this instance.                           *)

(* run_ready, block_on, wake_by_ref: a signal raised for a task is seen by *)
(* it, whatever the other tasks and threads do.                            *)
SignalSeen == Exec!SignalSeen

(* drain, clear: a core that drains ends, with tasks that never finish, at *)
(* its deadline, or once its last task is gone.                            *)
DrainEnds == Exec!DrainEnds
=============================================================================
