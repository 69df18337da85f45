------------------------------- MODULE Timers -------------------------------
(***************************************************************************)
(* The clock of a core on the completion backend (crates/zero-io           *)
(* src/compio_rt/time.rs): the deadlines in a binary heap whose entries    *)
(* know their position, the entries in slots that are used again, and the  *)
(* sleeps that hold a key (a slot and a sequence) to theirs.               *)
(*                                                                         *)
(* Everything runs on the core's thread, each operation as a whole; what   *)
(* interleaves is who runs next: a fire frees the slot of a sleep before   *)
(* that sleep is polled again, and another sleep may take it in between.   *)
(* Slots and heap positions count from 1 here, from 0 in the code.         *)
(***************************************************************************)
EXTENDS Naturals, Sequences, FiniteSets

CONSTANTS
  Sleep,      (* the sleeps that may exist at once                          *)
  Waker,      (* the wakers of the tasks that poll them                     *)
  Durations,  (* how long a sleep may be                                    *)
  MaxInstant, (* the last instant a deadline may be                         *)
  MaxNow,     (* bound: the last instant of the run                         *)
  MaxStarts   (* bound: how many registrations there are                    *)

ASSUME ClockAssumption ==
  /\ Sleep # {} /\ Waker # {} /\ Durations \subseteq Nat
  /\ MaxInstant \in Nat /\ MaxNow \in Nat /\ MaxStarts \in Nat

VARIABLES
  now,     (* Instant::now                                                  *)
  timers,  (* Timers                                                        *)
  sleeps,  (* each Sleep: whether it exists, its deadline, its key          *)
  woken    (* the wakes since the sleep was last polled to its end          *)

clockVars == <<now, timers, sleeps, woken>>

None  == [slot |-> 0, sequence |-> 0]        (* no key, and an empty slot   *)
Vacant == [deadline |-> 0, sleep |-> CHOOSE s \in Sleep : TRUE,
           waker |-> CHOOSE w \in Waker : TRUE, position |-> 0, sequence |-> 0]
Gone  == [live |-> FALSE, deadline |-> 0, key |-> None]

ClockInit ==
  /\ now = 0 /\ woken = {}
  /\ timers = [slots |-> <<>>, free |-> <<>>, heap |-> <<>>, next_sequence |-> 1]
  /\ sleeps = [s \in Sleep |-> Gone]

-----------------------------------------------------------------------------
(* The heap.                                                               *)

deadline_of(t, slot) == t.slots[slot].deadline

(* heap.swap with the positions of both entries.                           *)
Swap(t, i, j) ==
  [t EXCEPT !.heap  = [@ EXCEPT ![i] = t.heap[j], ![j] = t.heap[i]],
            !.slots = [@ EXCEPT ![t.heap[j]].position = i, ![t.heap[i]].position = j]]

(* A round of sift_up's loop, and the loop: it ends at the root at last.   *)
Rise(x) ==
  LET t == x.timers
      parent == x.at \div 2
  IN  IF x.at <= 1 \/ deadline_of(t, t.heap[x.at]) >= deadline_of(t, t.heap[parent])
      THEN x
      ELSE [timers |-> Swap(t, x.at, parent), at |-> parent]
sift_up(t, i) ==
  LET after[k \in 0 .. i] == IF k = 0 THEN [timers |-> t, at |-> i] ELSE Rise(after[k - 1])
  IN  after[i].timers

(* A round of sift_down's loop, and the loop: it ends at a leaf at last.   *)
Earlier(t, a, b) ==
  IF a <= Len(t.heap) /\ deadline_of(t, t.heap[a]) < deadline_of(t, t.heap[b]) THEN a ELSE b
Sink(x) ==
  LET earliest == Earlier(x.timers, 2 * x.at + 1, Earlier(x.timers, 2 * x.at, x.at))
  IN  IF earliest = x.at THEN x
      ELSE [timers |-> Swap(x.timers, x.at, earliest), at |-> earliest]
sift_down(t, i) ==
  LET after[k \in 0 .. Len(t.heap)] ==
        IF k = 0 THEN [timers |-> t, at |-> i] ELSE Sink(after[k - 1])
  IN  after[Len(t.heap)].timers

insert(t, s, deadline, w) ==
  LET slot  == IF t.free # <<>> THEN t.free[Len(t.free)] ELSE Len(t.slots) + 1
      entry == [deadline |-> deadline, sleep |-> s, waker |-> w,
                position |-> Len(t.heap) + 1, sequence |-> t.next_sequence]
      grown == IF t.free # <<>> THEN t.slots ELSE Append(t.slots, Vacant)
      put   == [slots |-> [grown EXCEPT ![slot] = entry],
                free  |-> IF t.free # <<>> THEN SubSeq(t.free, 1, Len(t.free) - 1) ELSE <<>>,
                heap  |-> Append(t.heap, slot),
                next_sequence |-> t.next_sequence + 1]
  IN  [timers |-> sift_up(put, Len(put.heap)),
       key    |-> [slot |-> slot, sequence |-> t.next_sequence]]

(* take: the last slot of the heap fills the hole, then finds its place.   *)
take(t, slot) ==
  LET position == t.slots[slot].position
      last  == Len(t.heap)
      moved == IF position # last THEN Swap(t, position, last) ELSE t
      cut   == [moved EXCEPT !.slots[slot] = Vacant, !.free = Append(@, slot),
                             !.heap = SubSeq(@, 1, last - 1)]
  IN  IF position < last THEN sift_down(sift_up(cut, position), position) ELSE cut

(* entry_mut: a key opens the entry of its own registration only.          *)
AnyInSlot(t, key) == key # None /\ t.slots[key.slot].sequence # 0
Registered(t, key) ==
  key # None /\ t.slots[key.slot].sequence = key.sequence

remove(t, key) == IF Registered(t, key) THEN take(t, key.slot) ELSE t

refresh(t, key, w) ==
  IF Registered(t, key) THEN [t EXCEPT !.slots[key.slot].waker = w] ELSE t

(* fire: take the root while it is due, waking what it holds; at most all  *)
(* there is.                                                               *)
FireFirst(x, at) ==
  LET t == x.timers
      e == t.slots[t.heap[1]]
  IN  IF t.heap = <<>> \/ deadline_of(t, t.heap[1]) > at
      THEN x
      ELSE [timers |-> take(t, t.heap[1]),
            wakes  |-> x.wakes \cup {[sleep |-> e.sleep, waker |-> e.waker]}]
fire(t, at) ==
  LET after[k \in 0 .. Len(t.heap)] ==
        IF k = 0 THEN [timers |-> t, wakes |-> {}] ELSE FireFirst(after[k - 1], at)
  IN  after[Len(t.heap)]

-----------------------------------------------------------------------------
(* The sleeps, and the core that fires.                                    *)

(* sleep_on: a deadline past the clock's range never comes.                *)
Never == MaxInstant + 1
Start(s, d) ==
  /\ ~sleeps[s].live
  /\ sleeps' = [sleeps EXCEPT ![s] =
       [live |-> TRUE, deadline |-> IF now + d > MaxInstant THEN Never ELSE now + d,
        key |-> None]]
  /\ UNCHANGED <<now, timers, woken>>

Ended(s) ==
  /\ timers' = remove(timers, sleeps[s].key)
  /\ sleeps' = [sleeps EXCEPT ![s] = Gone]
  /\ woken' = {x \in woken : x.sleep # s}
  /\ UNCHANGED now

(* Sleep::poll, by a task with waker w, woken by this sleep or not.        *)
Poll(s, w) ==
  /\ sleeps[s].live /\ sleeps[s].deadline # Never
  /\ \/ now >= sleeps[s].deadline /\ Ended(s)
     \/ /\ now < sleeps[s].deadline /\ sleeps[s].key # None
        /\ timers' = refresh(timers, sleeps[s].key, w)
        /\ UNCHANGED <<now, sleeps, woken>>
     \/ /\ now < sleeps[s].deadline /\ sleeps[s].key = None
        /\ timers.next_sequence <= MaxStarts
        /\ LET r == insert(timers, s, sleeps[s].deadline, w)
           IN  timers' = r.timers /\ sleeps' = [sleeps EXCEPT ![s].key = r.key]
        /\ UNCHANGED <<now, woken>>

DropSleep(s) == sleeps[s].live /\ Ended(s)

(* The last step of Handle::park.                                          *)
Fire ==
  LET r == fire(timers, now)
  IN  /\ r.wakes # {}
      /\ timers' = r.timers /\ woken' = woken \cup r.wakes
      /\ UNCHANGED <<now, sleeps>>

Tick ==
  /\ now < MaxNow
  /\ now' = now + 1
  /\ UNCHANGED <<timers, sleeps, woken>>

ClockNext ==
  \/ \E s \in Sleep : \/ \E d \in Durations : Start(s, d)
                      \/ \E w \in Waker : Poll(s, w)
                      \/ DropSleep(s)
  \/ Fire \/ Tick

ClockSpec == ClockInit /\ [][ClockNext]_clockVars
=============================================================================
