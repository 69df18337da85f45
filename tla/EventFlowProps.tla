--------------------------- MODULE EventFlowProps ---------------------------
(***************************************************************************)
(* What the way of an event from its connection to the host must keep.     *)
(***************************************************************************)
EXTENDS EventFlow

(* The events posted and not taken yet or queued to be, those and what a   *)
(* connection still holds, and those of one connection.                    *)
Waiting == UNION {Range(ring[e].events) : e \in Entry}
OnTheWay == Waiting \cup Range(disp.events)
InCore == OnTheWay \cup Range(refused) \cup UNION {Range(con[c].held) : c \in Peer}
Of(events, c) == {e \in events : e.conn = c}

(* Where the events of a connection are, from the one the host takes next  *)
(* to the one reported last: batches by epoch, then the dispatcher's       *)
(* queue, the close events that wait, and what the connection holds.       *)
Placed(c, rank, events) ==
  {[rank |-> rank, at |-> k, n |-> events[k].n] : k \in {j \in DOMAIN events : events[j].conn = c}}
Line(c) ==
  (UNION {Placed(c, ring[e].epoch, ring[e].events) : e \in Entry})
    \cup Placed(c, intake.published + 1, disp.events)
    \cup Placed(c, intake.published + 2, refused)
    \cup Placed(c, intake.published + 3, con[c].held)
Ahead(a, b) == a.rank < b.rank \/ (a.rank = b.rank /\ a.at < b.at)

-----------------------------------------------------------------------------
(* The host takes the events of a connection in the order they happened,   *)
(* and none is missing or doubled unless a target was lost or a task was   *)
(* dropped on the way: whatever a batch refused as full puts back, a close *)
(* event held apart, or a batch of an earlier target left behind           *)
(* (Pending::flush, post_refused, Dispatcher::refused, take_events).  A    *)
(* drain that finished left nothing on the way: every connection is over   *)
(* and was taken to its close (Turned::finished, connection_opened).       *)
DrainedEmpty ==
  /\ disp.events = <<>> /\ refused = <<>> /\ disp.unacked = <<>>
  /\ \A c \in Peer : con[c].life \in {"none", "over"}
  /\ \A c \in Peer \ lost : host.last[c] = con[c].said

EventsInOrder ==
  /\ \A c \in Peer :
       /\ \A a \in Line(c) : a.n > host.last[c]
       /\ \A a, b \in Line(c) : a = b \/ (a.n < b.n /\ Ahead(a, b)) \/ (b.n < a.n /\ Ahead(b, a))
       /\ c \notin lost => {a.n : a \in Line(c)} = host.last[c] + 1 .. con[c].said
  /\ run = "done" /\ ~failed => DrainedEmpty

-----------------------------------------------------------------------------
(* The ledger counts an event acknowledged only once no batch and no queue *)
(* holds it, and its octets only then: the host holds nothing the core     *)
(* stopped counting (Ledger::settle, which learns of batches by epoch).    *)
Messages(events) == {e \in events : e.kind = "message"}
LedgerSound ==
  ~failed =>
    /\ \A e \in OnTheWay : e.seq > led.acked
    /\ outstanding(led) >= Cardinality(Messages(OnTheWay))

-----------------------------------------------------------------------------
(* What a flooding client makes the core hold is bounded: the events of    *)
(* one connection that its client can cause by MAX_PENDING_EVENTS_PER_CONN *)
(* and the octets of all by half the budget and one message of each        *)
(* connection.  A connection that was not paused yet reads one more while  *)
(* others fill the budget, and a drained outbox is reported even paused    *)
(* (Pending::settle).                                                      *)
Caused(c) == {e \in Of(InCore, c) : e.kind \in {"open", "message"}}
HeldBounded ==
  ~failed =>
    /\ \A c \in Peer : Cardinality(Caused(c)) <= MaxPending
    /\ Cardinality(Messages(InCore)) <= HalfBudget + Cardinality(Peer)

-----------------------------------------------------------------------------
(* An event a connection holds for want of room is handed over, or dropped *)
(* with the target, as long as the host goes on taking batches: neither a  *)
(* target that refused a batch with nothing in flight, nor a change that   *)
(* came as the dispatcher went to sleep, nor a wait on the ledger that is  *)
(* over, is slept on (QUEUE_FULL_RETRY, Intake::register, Kick,            *)
(* Ledger::poll_change).                                                   *)
Dead == host.alive = 0 /\ host.attached # 0
EventsHandedOver == \A c \in Peer : con[c].held # <<>> ~> con[c].held = <<>> \/ Dead

(* A drain ends once it began: the connections close, their last events    *)
(* are handed over and the dispatcher's task ends (dispatch.rs run).       *)
DrainFinishes == shutdown ~> run = "done" \/ Dead
=============================================================================
