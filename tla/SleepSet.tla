------------------------------ MODULE SleepSet ------------------------------
(***************************************************************************)
(* What the clock of a core promises its sleeps (crates/zero-io            *)
(* src/compio_rt/time.rs): a sleep that waits stays armed until it ends or *)
(* its deadline passes, whatever the other sleeps do, and when the core    *)
(* fires, exactly the sleeps that are due wake, each through the waker it  *)
(* was last polled with.                                                   *)
(***************************************************************************)
EXTENDS Naturals

CONSTANTS Sleep, Waker

VARIABLES
  now,    (* the clock                                                      *)
  live,   (* the sleeps somebody holds, each with its deadline              *)
  armed,  (* the sleeps the clock has to wake, each with its deadline and   *)
          (* the waker of its last poll                                     *)
  woken   (* the wakes: the sleep and the waker called for it               *)

vars == <<now, live, armed, woken>>

Of(s, X) == {x \in X : x.sleep = s}
Due == {a \in armed : a.deadline <= now}

Init == now = 0 /\ live = {} /\ armed = {} /\ woken = {}

Begin(s) ==
  /\ Of(s, live) = {}
  /\ \E x \in live' : x.sleep = s /\ live' = live \cup {x}
  /\ UNCHANGED <<now, armed, woken>>

(* A poll before the deadline arms the sleep, or replaces its waker.       *)
Wait(s, w) ==
  /\ \E x \in Of(s, live) :
       /\ now < x.deadline
       /\ armed' = (armed \ Of(s, armed))
                     \cup {[sleep |-> s, deadline |-> x.deadline, waker |-> w]}
  /\ UNCHANGED <<now, live, woken>>

(* The sleep completes or is dropped.                                      *)
End(s) ==
  /\ Of(s, live) # {}
  /\ live' = live \ Of(s, live) /\ armed' = armed \ Of(s, armed)
  /\ woken' = woken \ Of(s, woken)
  /\ UNCHANGED now

Fire ==
  /\ Due # {}
  /\ armed' = armed \ Due
  /\ woken' = woken \cup {[sleep |-> a.sleep, waker |-> a.waker] : a \in Due}
  /\ UNCHANGED <<now, live>>

Tick == now' > now /\ UNCHANGED <<live, armed, woken>>

Next ==
  \/ \E s \in Sleep : Begin(s) \/ End(s) \/ \E w \in Waker : Wait(s, w)
  \/ Fire \/ Tick

Spec == Init /\ [][Next]_vars
=============================================================================
