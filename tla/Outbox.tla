------------------------------- MODULE Outbox -------------------------------
(***************************************************************************)
(* The outbox of one WebSocket connection (crates/zero-realtime            *)
(* src/outbox.rs): the queue between the threads that send on a connection *)
(* and the task that writes it.                                            *)
(*                                                                         *)
(* Every operation runs under the queue's lock, so it is one step on the   *)
(* record below; the worker's total (OutboxTotal) moves by compare-and-    *)
(* swap under that lock.  The octet count the code also keeps in an atomic *)
(* is stored under the lock with the queue's own and is the same number.   *)
(***************************************************************************)
EXTENDS Naturals, Sequences

CONSTANTS
  HighWater,    (* high_water: past it the outbox is not writable           *)
  LimitFactor,  (* LIMIT_FACTOR: an outbox holds this many marks at most    *)
  TotalLimit,   (* OutboxTotal.limit: what the outboxes of a worker hold    *)
  InboxLimit    (* Rooms.inbox_limit: the broadcast octets that may wait    *)

ASSUME OutboxAssumption ==
  /\ {HighWater, LimitFactor, TotalLimit, InboxLimit} \subseteq Nat
  /\ HighWater > 0

(* Terminate and End are one command to a WebSocket connection.            *)
Kinds == {"frame", "close", "end", "join", "leave", "broadcast"}

(* Command::ends                                                           *)
ends(entry) == entry.kind \in {"close", "end"}

EmptyQueue ==
  [entries |-> <<>>, bytes |-> 0, broadcast_bytes |-> 0, overflowed |-> FALSE,
   ending |-> FALSE, closed |-> FALSE, passed |-> FALSE, waker |-> FALSE]

IsSent(entry) == entry.kind # "broadcast"

(* Outbox::push: refused once closed or ending, past the outbox's cap, or  *)
(* past the worker's total; otherwise counted on both.                     *)
CanPush(q, total, entry) ==
  /\ ~q.closed /\ ~q.ending
  /\ q.bytes + entry.octets <= HighWater * LimitFactor
  /\ total + entry.octets <= TotalLimit
push(q, entry) ==
  [q EXCEPT !.bytes = @ + entry.octets,
            !.passed = @ \/ q.bytes + entry.octets > HighWater,
            !.ending = @ \/ ends(entry),
            !.entries = Append(@, entry),
            !.waker = FALSE]

(* Outbox::broadcast: past the limit every waiting broadcast is dropped.   *)
retained(entries) ==
  LET upto[k \in 0 .. Len(entries)] ==
        IF k = 0 THEN <<>>
        ELSE IF IsSent(entries[k]) THEN Append(upto[k - 1], entries[k]) ELSE upto[k - 1]
  IN  upto[Len(entries)]
CanBroadcast(q) == ~q.closed /\ ~q.ending /\ ~q.overflowed
Overflows(q, entry) == q.broadcast_bytes + entry.octets > InboxLimit
broadcast(q, entry) ==
  IF Overflows(q, entry)
  THEN [q EXCEPT !.overflowed = TRUE, !.entries = retained(@),
                 !.broadcast_bytes = 0, !.waker = FALSE]
  ELSE [q EXCEPT !.broadcast_bytes = @ + entry.octets, !.entries = Append(@, entry),
                 !.waker = FALSE]

(* Outbox::poll_ready: ready, or the task registers to be woken.           *)
Ready(q) == q.entries # <<>> \/ q.overflowed
register(q) == [q EXCEPT !.waker = TRUE]

(* Outbox::take and Outbox::seal leave the octets counted.                 *)
take(q) == [q EXCEPT !.entries = <<>>, !.broadcast_bytes = 0, !.overflowed = FALSE]
sealOpen(q) == [q EXCEPT !.entries = <<>>, !.broadcast_bytes = 0]
seal(q) == [q EXCEPT !.entries = <<>>, !.broadcast_bytes = 0, !.closed = TRUE]

(* Outbox::release: how much leaves the count, the queue after it, and     *)
(* whether it fell below half the mark after passing it.                   *)
Freed(q, octets) == IF octets <= q.bytes THEN octets ELSE q.bytes
DrainsBefore(q, octets) == q.passed /\ q.bytes * 2 < HighWater
Drains(q, octets) == q.passed /\ (q.bytes - Freed(q, octets)) * 2 < HighWater
release(q, octets) ==
  [q EXCEPT !.bytes = @ - Freed(q, octets), !.passed = @ /\ ~Drains(q, octets)]

(* Outbox::close drops what waits and everything still counted.            *)
closeQueue(q) == [EmptyQueue EXCEPT !.ending = q.ending, !.closed = TRUE]
=============================================================================
