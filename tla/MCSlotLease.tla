---------------------------- MODULE MCSlotLease ----------------------------
(***************************************************************************)
(* SlotLease on small instances.  A run explores several scenes, each with *)
(* bounds of its own: how many slots are used, which calls threads make,   *)
(* how many requests, targets and pins there are.  Host threads are        *)
(* interchangeable, and so are slot indexes, since the choice among the    *)
(* free ones is left open.                                                 *)
(***************************************************************************)
EXTENDS SlotLeaseInv, TLC

CONSTANT Scenes

Symmetry == Permutations(Thread) \cup Permutations(Slot)

Scene(slots, ops, most, eras, held) ==
  [slots |-> slots, ops |-> ops, requests |-> most, eras |-> eras, pins |-> held]

(* A thread that is bound, unbound and rebound while it reads one slot.    *)
Reading == Scene(1, {"view", "values", "pinned_read", "complete"}, 2, 2, 1)
(* Two slots in batches of two, one thread that completes them: three      *)
(* requests of one target, or two and a target that leaves.                *)
Batching == Scene(2, {"complete"}, 3, 1, 0)
Leaving == Scene(2, {"complete"}, 2, 2, 0)
(* Threads that read and complete while targets change hands.              *)
Rebinding == Scene(1, {"view", "complete"}, 2, 2, 0)
Returning == Scene(1, {"view"}, 1, 3, 0)
(* Threads under one slot's lock, and in its body region under a pin.      *)
Locking == Scene(1, {"write", "complete"}, 2, 1, 0)
Opening == Scene(1, {"body_alloc", "complete"}, 1, 1, 1)

OneThread == {Reading, Batching, Leaving}
TwoThreads == {Rebinding, Returning, Locking, Opening}

(* The constraint of a run: every state is within the bounds of a scene.   *)
InScene ==
  \E scene \in Scenes :
    /\ Cardinality({i \in Slot : word[i] # NewWord}) <= scene.slots
    /\ requests <= scene.requests /\ era <= scene.eras
    /\ \A t \in Thread : /\ call[t].op \in scene.ops \cup {"none"}
                         /\ Cardinality(pins[t]) <= scene.pins
=============================================================================
