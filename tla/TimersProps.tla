---------------------------- MODULE TimersProps -----------------------------
(***************************************************************************)
(* What the clock of a core must keep.                                     *)
(***************************************************************************)
EXTENDS Timers

(* The clock implements SleepSet: whatever slot a sleep had and whoever    *)
(* took it since, ending one sleep never disarms another, and a fire wakes *)
(* exactly what is due through the waker of its last poll (Key::sequence,  *)
(* entry_mut, refresh, remove, fire).                                      *)
Armed == {timers.slots[timers.heap[i]] : i \in DOMAIN timers.heap}

Abstract == INSTANCE SleepSet WITH
  live  <- {[sleep |-> s, deadline |-> sleeps[s].deadline] : s \in {x \in Sleep : sleeps[x].live}},
  armed <- {[sleep |-> e.sleep, deadline |-> e.deadline, waker |-> e.waker] : e \in Armed}

ClockPromise == Abstract!Spec
=============================================================================
