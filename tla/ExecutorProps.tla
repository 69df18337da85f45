--------------------------- MODULE ExecutorProps ----------------------------
(***************************************************************************)
(* What the executor of a core must keep.                                  *)
(***************************************************************************)
EXTENDS Executor

(* A signal raised for a task is seen by it, whatever other tasks do: a    *)
(* task that wakes itself in every poll is polled once a round, and what   *)
(* other threads push waits for the next round only (run_ready, block_on). *)
SignalSeen ==
  \A u \in Task : (Alive(u) /\ signal[u]) ~> ~(Alive(u) /\ signal[u])

(* A core that drains ends at its deadline, with tasks that never finish   *)
(* and tasks that never sleep, and without one, as it is for a limit the   *)
(* clock cannot hold, once its last task is gone (drain, clear).           *)
DrainEnds == (core.in = "drain" /\ (until # "none" \/ live = 0)) ~> (core.at = "done")
=============================================================================
