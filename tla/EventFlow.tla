----------------------------- MODULE EventFlow ------------------------------
(***************************************************************************)
(* How the events of realtime connections reach the host: the connection   *)
(* tasks of one core and their pending events (crates/zero-host            *)
(* src/realtime/events.rs, mod.rs, ws.rs), the core's ledger, the          *)
(* dispatcher's event queue, batches, ring entries, retry timer and drain  *)
(* (crates/zero-rt src/dispatch.rs, ring.rs, and run), and the             *)
(* acknowledgments that come back through the intake (intake.rs).          *)
(*                                                                         *)
(* The dispatcher task and the connection tasks share one worker thread: a *)
(* connection task runs only while the dispatcher sleeps.  The host's      *)
(* threads run at any time, so a dispatcher turn is cut where it takes the *)
(* intake's lock, reads an epoch, or offers a batch.  Payloads are left    *)
(* out: an event is its connection, its place among that connection's      *)
(* events and whether it carries octets.  Requests take part as batches    *)
(* that compete with the events for the ring; SlotLease follows the slots. *)
(***************************************************************************)
EXTENDS Naturals, Sequences, SequencesExt, FiniteSets, FiniteSetsExt

CONSTANTS
  Peer,         (* the connections of the core                              *)
  Batch,        (* DispatchLimits.batch                                     *)
  InFlight,     (* DispatchLimits.in_flight, the entries of the ring        *)
  Queued,       (* DispatchLimits.queued                                    *)
  MaxPending,   (* MAX_PENDING_EVENTS_PER_CONN                              *)
  HalfBudget,   (* half of the core's request-memory budget, in octets      *)
  Capacity,     (* the batches the target's queue holds                     *)
  MaxInputs     (* bound: messages and drains reported, requests queued,    *)
                (* crowdings of the target, targets lost and panics         *)

ASSUME FlowAssumption ==
  /\ IsFiniteSet(Peer)
  /\ Batch \in Nat \ {0} /\ InFlight \in Nat \ {0} /\ Queued \in Nat \ {0}
  /\ MaxPending \in Nat \ {0} /\ HalfBudget \in Nat /\ Capacity \in Nat /\ MaxInputs \in Nat

VARIABLES
  disp,     (* Dispatcher: its queues, batches in flight, target and flags  *)
  ring,     (* BatchRing: what each entry holds                             *)
  intake,   (* Intake: the inbox flags and both epochs                      *)
  led,      (* Ledger                                                       *)
  refused,  (* Local.refused: close events of connections never started     *)
  con,      (* each connection's life, Pending, Wait and task               *)
  run,      (* the step of the dispatcher task                              *)
  kicked,   (* Kick.kicked                                                  *)
  shutdown, (* the worker's shutdown signal                                 *)
  failed,   (* CoreHost.failed                                              *)
  host,     (* the targets: who lives, the batches queued, what was taken   *)
  inputs,   (* how much of what MaxInputs bounds happened                   *)
  lost      (* history: the connections that had events dropped             *)

flowVars == <<disp, ring, intake, led, refused, con, run, kicked, shutdown, failed, host, inputs,
              lost>>

Entry == 1 .. InFlight
QueueBound == Queued * Batch
FreeEntry == [epoch |-> 0, kind |-> "none", events |-> <<>>]
NoWait == [paused |-> FALSE, since |-> 0, room |-> FALSE]
NewDispatcher(target) ==
  [events |-> <<>>, ready |-> 0, unacked |-> <<>>, target |-> target, full |-> FALSE,
   retry |-> "none", prefer |-> FALSE, draining |-> FALSE, connections |-> 0]
HasTarget(d) == d.target # 0

Fresh ==
  /\ disp = NewDispatcher(1)
  /\ ring = [e \in Entry |-> FreeEntry]
  /\ intake = [dirty |-> FALSE, waker |-> FALSE, woken |-> FALSE, detach |-> FALSE,
               attach |-> 0, published |-> 0, acked |-> 0]
  /\ led = [pushed |-> 0, pushed_octets |-> 0, posted |-> 0, marks |-> <<>>, acked |-> 0,
            acked_octets |-> 0, open |-> FALSE, for_acks |-> {}, for_room |-> {}]
  /\ refused = <<>>
  /\ con = [c \in Peer |-> [life |-> "none", held |-> <<>>, sequences |-> <<>>, said |-> 0,
                            wait |-> NoWait, task |-> "none", woken |-> FALSE]]
  /\ kicked = FALSE /\ shutdown = FALSE /\ failed = FALSE
  /\ host = [attached |-> 1, alive |-> 1, targets |-> 1, queue |-> <<>>, ack |-> 0,
             last |-> [c \in Peer |-> 0], crowd |-> FALSE]
  /\ inputs = 0 /\ lost = {}

FlowInit == Fresh /\ run = "turn"

(* One more of what MaxInputs bounds.                                      *)
Arises == inputs < MaxInputs /\ inputs' = inputs + 1

(* Octets are counted in messages.                                         *)
OctetsOf(events) == Cardinality({k \in DOMAIN events : events[k].kind = "message"})

(* How many of these numbers a loop takes off the front up to a floor.     *)
Passed(numbers, floor) ==
  CHOOSE n \in 0 .. Len(numbers) :
    /\ \A k \in 1 .. n : numbers[k] <= floor
    /\ n < Len(numbers) => numbers[n + 1] > floor
Behind(s, n) == SubSeq(s, n + 1, Len(s))

-----------------------------------------------------------------------------
(* The ledger (events.rs).                                                 *)

(* Wake every connection of a list, which is emptied.                      *)
WakeAll(cs, peers) ==
  [c \in Peer |-> [cs[c] EXCEPT !.woken = @ \/ (c \in peers /\ cs[c].task \in {"wait", "endwait"})]]

(* Ledger::took, for each of the events.                                   *)
took(l, events) ==
  [l EXCEPT !.pushed = @ + Len(events), !.pushed_octets = @ + OctetsOf(events)]

outstanding(l) == l.pushed_octets - l.acked_octets

(* Ledger::settle after a turn that left `queued`: a mark for what was     *)
(* posted since the last turn, and every mark up to the floor.             *)
MarkedEarly(l, queued) ==
  LET posted == l.pushed - Len(queued)
  IN  IF posted > l.posted
      THEN [l EXCEPT !.posted = posted,
                     !.marks = Append(@, [epoch |-> intake.published - 1, through |-> posted,
                                          octets |-> l.pushed_octets - OctetsOf(queued)])]
      ELSE l
Marked(l, queued) ==
  LET posted == l.pushed - Len(queued)
  IN  IF posted > l.posted
      THEN [l EXCEPT !.posted = posted,
                     !.marks = Append(@, [epoch |-> intake.published, through |-> posted,
                                          octets |-> l.pushed_octets - OctetsOf(queued)])]
      ELSE l

Epochs(s) == [k \in DOMAIN s |-> s[k].epoch]
Floored(l, floor) ==
  LET n == Passed(Epochs(l.marks), floor)
  IN  IF n = 0 THEN l
      ELSE [l EXCEPT !.acked = l.marks[n].through, !.acked_octets = l.marks[n].octets,
                     !.marks = Behind(@, n)]

(* Which connections settle wakes.                                         *)
Waking(before, after, open) ==
  IF after.acked > before.acked THEN before.for_acks \cup before.for_room
  ELSE IF open THEN before.for_room ELSE {}

(* Ledger::poll_change for a wait                                          *)
Changed(l, w) == l.acked > w.since \/ (w.room /\ l.open)
Registered(l, w, c) ==
  IF w.room THEN [l EXCEPT !.for_room = @ \cup {c}] ELSE [l EXCEPT !.for_acks = @ \cup {c}]

-----------------------------------------------------------------------------
(* Pending events of a connection (events.rs), on the connection's record  *)
(* p, the dispatcher d and the ledger l.                                   *)

(* Pending::flush: in order, while the queue takes them; dropped with no   *)
(* target.                                                                 *)
Room(d) == QueueBound - Len(d.events)
Taking(p, d) == IF Room(d) >= Len(p.held) THEN Len(p.held) ELSE Room(d)
Numbered(events, from) == [k \in DOMAIN events |-> [events[k] EXCEPT !.seq = from + k]]
flush(p, d, l) ==
  LET n == Taking(p, d)
      over == Numbered(SubSeq(p.held, 1, n), l.pushed)
  IN  IF p.held = <<>> THEN [p |-> p, d |-> d, l |-> l, took |-> FALSE]
      ELSE IF ~HasTarget(d)
      THEN [p |-> [p EXCEPT !.held = <<>>], d |-> d, l |-> l, took |-> FALSE]
      ELSE [p |-> [p EXCEPT !.held = Behind(@, n),
                            !.sequences = @ \o [k \in 1 .. n |-> l.pushed + k]],
            d |-> [d EXCEPT !.events = @ \o over],
            l |-> [took(l, over) EXCEPT !.open = @ /\ n = Len(p.held)],
            took |-> n > 0]

(* Pending::settle, whose flush came first.                                *)
settleUnbounded(p, l) ==
  LET kept == Behind(p.sequences, Passed(p.sequences, l.acked))
      room == p.held # <<>>
  IN  [p EXCEPT !.sequences = kept,
                !.wait = [paused |-> room \/ outstanding(l) > HalfBudget,
                          since |-> l.acked, room |-> room]]
settle(p, l) ==
  LET kept == Behind(p.sequences, Passed(p.sequences, l.acked))
      room == p.held # <<>>
  IN  [p EXCEPT !.sequences = kept,
                !.wait = [paused |-> \/ room \/ outstanding(l) > HalfBudget
                                     \/ Len(kept) + Len(p.held) >= MaxPending,
                          since |-> l.acked, room |-> room]]

(* Pending::report: after what is held already, then flushed.              *)
Reported(c, p, kind) ==
  [p EXCEPT !.said = @ + 1,
            !.held = Append(@, [conn |-> c, n |-> p.said + 1, kind |-> kind, seq |-> 0])]

Drops(p, d) == p.held # <<>> /\ ~HasTarget(d)
Apply(c, f) ==
  /\ disp' = f.d /\ led' = f.l
  /\ con' = [con EXCEPT ![c] = f.p]
  /\ kicked' = (kicked \/ f.took)

-----------------------------------------------------------------------------
(* A connection's task.  It runs while the dispatcher's task sleeps.       *)

Idle == run \in {"asleep", "done"}
Only(c, life) == Idle /\ con[c].life = life

(* HostHandler::handle and CoreHost::admit, with Dispatcher::admit.        *)
Admits ==
  /\ ~shutdown /\ ~failed
  /\ HasTarget(disp) /\ ~disp.draining /\ disp.ready < QueueBound

(* A request that reserves a connection is admitted and waits.             *)
Lease(c) ==
  /\ Only(c, "none") /\ Admits
  /\ con' = [con EXCEPT ![c].life = "leased"]
  /\ UNCHANGED <<disp, ring, intake, led, refused, run, kicked, shutdown, failed, host, inputs, lost>>

(* Its lease ends without its action: the sweep of after_turn settles it;  *)
(* the retirement kicks the dispatcher.                                    *)
LeaseEnds(c) ==
  /\ Only(c, "leased")
  /\ con' = [con EXCEPT ![c].life = IF failed THEN "over" ELSE "orphan"]
  /\ kicked' = TRUE
  /\ UNCHANGED <<disp, ring, intake, led, refused, run, shutdown, failed, host, inputs, lost>>

(* Local::claim: the connection counts as open before its task starts.     *)
Claim(c) ==
  /\ Only(c, "leased")
  /\ con' = [con EXCEPT ![c].life = IF failed THEN "over" ELSE "claimed"]
  /\ disp' = IF failed THEN disp ELSE [disp EXCEPT !.connections = @ + 1]
  /\ kicked' = (kicked \/ ~failed)
  /\ UNCHANGED <<ring, intake, led, refused, run, shutdown, failed, host, inputs, lost>>

(* The close events that wait, then these: Local::report_closed for each   *)
(* and post_refused, on a dispatcher d, a ledger l and the queue r.        *)
CloseEvent(c) == [conn |-> c, n |-> con[c].said + 1, kind |-> "close", seq |-> 0]
PostRefused(r, d, l) ==
  LET n == IF Room(d) >= Len(r) THEN Len(r) ELSE Room(d)
      over == Numbered(SubSeq(r, 1, n), l.pushed)
  IN  IF ~HasTarget(d) THEN [r |-> <<>>, d |-> d, l |-> l, took |-> FALSE]
      ELSE [r |-> Behind(r, n), d |-> [d EXCEPT !.events = @ \o over],
            l |-> [took(l, over) EXCEPT !.open = @ /\ n = Len(r)], took |-> n > 0]
Closes(conns) == [k \in DOMAIN conns |-> CloseEvent(conns[k])]
ReportClosed(events, r, d, l) ==
  IF ~HasTarget(d) THEN [r |-> r, d |-> d, l |-> l, took |-> FALSE]
  ELSE PostRefused(r \o events, d, l)

Over(p) == [p EXCEPT !.life = "over", !.task = "none", !.held = <<>>, !.sequences = <<>>,
                     !.wait = NoWait, !.woken = FALSE]
closed(d) == [d EXCEPT !.connections = IF @ = 0 THEN 0 ELSE @ - 1]

(* Local::dropped, and a claim past its deadline.                          *)
DropClaim(c) ==
  LET f == ReportClosed(Closes(<<c>>), refused, disp, led)
  IN  /\ Only(c, "claimed")
      /\ con' = [con EXCEPT ![c].life = "over", ![c].said = @ + 1]
      /\ refused' = f.r /\ disp' = closed(f.d) /\ led' = f.l
      /\ kicked' = TRUE
      /\ lost' = IF HasTarget(disp) THEN lost ELSE lost \cup {c}
      /\ UNCHANGED <<ring, intake, run, shutdown, failed, host, inputs>>

(* serve: the task starts and reports the connection open.                 *)
Serve(c) ==
  LET p == Reported(c, [con[c] EXCEPT !.life = "served", !.task = "settle"], "open")
  IN  /\ Only(c, "claimed")
      /\ Apply(c, flush(p, disp, led))
      /\ lost' = IF Drops(p, disp) THEN lost \cup {c} ELSE lost
      /\ UNCHANGED <<ring, intake, refused, run, shutdown, failed, host, inputs>>

(* The loop of ws.rs run: settle, pause or resume the reads, then wait.    *)
Settle(c) ==
  LET f == flush(con[c], disp, led)
      p == settle(f.p, f.l)
      waits == p.wait.paused /\ ~Changed(f.l, p.wait)
      asks == IF p.wait.paused THEN Registered(f.l, p.wait, c) ELSE f.l
  IN  /\ Only(c, "served") /\ con[c].task = "settle"
      /\ disp' = f.d
      /\ led' = IF waits THEN asks ELSE f.l
      /\ con' = [con EXCEPT ![c] = IF p.wait.paused /\ ~waits
                                   THEN [p EXCEPT !.task = "settle"]
                                   ELSE [p EXCEPT !.task = "wait", !.woken = FALSE]]
      /\ kicked' = (kicked \/ f.took)
      /\ lost' = IF Drops(con[c], disp) THEN lost \cup {c} ELSE lost
      /\ UNCHANGED <<ring, intake, refused, run, shutdown, failed, host, inputs>>

(* A frame arrives; a paused connection reads none.  A drained outbox is   *)
(* reported paused or not.                                                 *)
Report(c, kind) ==
  LET p == Reported(c, [con[c] EXCEPT !.task = "settle", !.wait = NoWait, !.woken = FALSE], kind)
  IN  /\ Only(c, "served") /\ con[c].task = "wait" /\ Arises
      /\ kind = "message" => ~con[c].wait.paused
      /\ Apply(c, flush(p, disp, led))
      /\ lost' = IF Drops(p, disp) THEN lost \cup {c} ELSE lost
      /\ UNCHANGED <<ring, intake, refused, run, shutdown, failed, host>>

(* The ledger woke the task: it looks again, or registers again.           *)
Repoll(c) ==
  LET w == con[c].wait
  IN  /\ Idle /\ con[c].task \in {"wait", "endwait"} /\ con[c].woken
      /\ IF Changed(led, w)
         THEN /\ con' = [con EXCEPT ![c].woken = FALSE, ![c].wait = NoWait,
                                    ![c].task = IF @ = "wait" THEN "settle" ELSE "end"]
              /\ UNCHANGED led
         ELSE /\ con' = [con EXCEPT ![c].woken = FALSE]
              /\ led' = IF w.paused THEN Registered(led, w, c) ELSE led
      /\ UNCHANGED <<disp, ring, intake, refused, run, kicked, shutdown, failed, host, inputs, lost>>

(* Served::end: the close event goes out like any other, then the loop     *)
(* waits until it is handed over.                                          *)
End(c) ==
  LET p == Reported(c, [con[c] EXCEPT !.task = "end", !.wait = NoWait, !.woken = FALSE], "close")
  IN  /\ Only(c, "served") /\ con[c].task = "wait"
      /\ Apply(c, flush(p, disp, led))
      /\ lost' = IF Drops(p, disp) THEN lost \cup {c} ELSE lost
      /\ UNCHANGED <<ring, intake, refused, run, shutdown, failed, host, inputs>>

Ending(c) ==
  LET f == flush(con[c], disp, led)
      p == settle(f.p, f.l)
  IN  /\ Only(c, "served") /\ con[c].task = "end"
      /\ IF p.held = <<>>
         THEN /\ con' = [con EXCEPT ![c] = Over(p)]
              /\ disp' = closed(f.d) /\ led' = f.l /\ kicked' = TRUE
         ELSE /\ con' = [con EXCEPT ![c] =
                           [p EXCEPT !.woken = FALSE,
                                     !.task = IF Changed(f.l, p.wait) THEN "end" ELSE "endwait"]]
              /\ led' = IF Changed(f.l, p.wait) THEN f.l ELSE Registered(f.l, p.wait, c)
              /\ disp' = f.d /\ kicked' = (kicked \/ f.took)
      /\ lost' = IF Drops(con[c], disp) THEN lost \cup {c} ELSE lost
      /\ UNCHANGED <<ring, intake, refused, run, shutdown, failed, host, inputs>>

(* The task is dropped at the drain's deadline: the close event is offered *)
(* once, and what is not taken is gone (Drop for Served).                  *)
DropTask(c) ==
  LET p == IF con[c].task \in {"end", "endwait"} THEN con[c] ELSE Reported(c, con[c], "close")
      f == flush(p, disp, led)
  IN  /\ Only(c, "served") /\ shutdown
      /\ con' = [con EXCEPT ![c] = Over(f.p)]
      /\ disp' = closed(f.d) /\ led' = f.l /\ kicked' = TRUE
      /\ lost' = IF f.p.held # <<>> \/ Drops(p, disp) THEN lost \cup {c} ELSE lost
      /\ UNCHANGED <<ring, intake, refused, run, shutdown, failed, host, inputs>>

(* A request is queued (Dispatcher::push); its slot's life is SlotLease's. *)
Job ==
  /\ Idle /\ Arises /\ Admits
  /\ disp' = [disp EXCEPT !.ready = @ + 1] /\ kicked' = TRUE
  /\ UNCHANGED <<ring, intake, led, refused, con, run, shutdown, failed, host, lost>>

(* What a task does once it is polled, whatever its client does.           *)
TaskStep(c) ==
  \/ LeaseEnds(c) \/ Claim(c) \/ Serve(c) \/ DropClaim(c) \/ Settle(c) \/ Repoll(c)
  \/ Ending(c) \/ DropTask(c) \/ (shutdown /\ End(c))

Talk(c) == Lease(c) \/ End(c) \/ \E kind \in {"message", "drained"} : Report(c, kind)
-----------------------------------------------------------------------------
(* The dispatcher's turn (dispatch.rs turn, CoreHost::turn).               *)

Goto(step) == run' = step

(* Dispatcher::lose_target: the queues are dropped, the ring is freed and  *)
(* the floor settled at what was posted.                                   *)
Losing == {e.conn : e \in Range(disp.events)}
LoseTarget(d) ==
  [d EXCEPT !.target = 0, !.events = <<>>, !.ready = 0, !.unacked = <<>>,
            !.full = FALSE, !.retry = "none"]
Unfree(r, entries) == [e \in Entry |-> IF e \in entries THEN FreeEntry ELSE r[e]]
Busy(d) == {u.entry : u \in Range(d.unacked)}
Untaken == {e.conn : e \in UNION {Range(ring[u].events) : u \in Busy(disp)}}

(* take_intake, first part: the inbox is drained under its lock, and the   *)
(* target change it held applied, the detach first.                        *)
DrainIntake ==
  LET loses == intake.detach
      d1 == IF loses THEN LoseTarget(disp) ELSE disp
  IN  /\ run = "turn"
      /\ Goto("acks")
      /\ disp' = [d1 EXCEPT !.target = IF intake.attach # 0 THEN intake.attach ELSE @,
                            !.draining = @ \/ shutdown]
      /\ ring' = IF loses THEN Unfree(ring, Busy(disp)) ELSE ring
      /\ intake' = [intake EXCEPT !.dirty = FALSE, !.detach = FALSE, !.attach = 0,
                                  !.acked = IF loses THEN intake.published ELSE @]
      /\ lost' = IF loses THEN lost \cup Losing \cup Untaken ELSE lost
      /\ UNCHANGED <<led, refused, con, kicked, shutdown, failed, host, inputs>>

(* take_intake, last part: batches up to the floor leave, and a refused    *)
(* target may be tried again.  The retry that is due does the same.        *)
ReadAcks ==
  LET n == Passed(Epochs(disp.unacked), intake.acked)
      cleared == n > 0 \/ disp.retry = "due"
  IN  /\ run = "acks"
      /\ Goto("post")
      /\ disp' = [disp EXCEPT !.unacked = Behind(@, n),
                              !.full = @ /\ ~cleared,
                              !.retry = IF cleared THEN "none" ELSE @]
      /\ ring' = Unfree(ring, {disp.unacked[k].entry : k \in 1 .. n})
      /\ UNCHANGED <<intake, led, refused, con, kicked, shutdown, failed, host, inputs, lost>>

(* One round of post: the batch is filled, published and offered.          *)
Kind ==
  IF disp.ready = 0 THEN "events"
  ELSE IF disp.events = <<>> \/ ~disp.prefer THEN "requests" ELSE "events"
MayPost ==
  /\ HasTarget(disp) /\ ~disp.full /\ Len(disp.unacked) < InFlight
  /\ disp.ready > 0 \/ disp.events # <<>>
Filled == SubSeq(disp.events, 1, IF Len(disp.events) < Batch THEN Len(disp.events) ELSE Batch)
Unfilled == Behind(disp.events, Len(Filled))
Own(target) == {k \in DOMAIN host.queue : host.queue[k].target = target}
Answer ==
  IF disp.target # host.alive THEN "gone"
  ELSE IF host.crowd \/ Cardinality(Own(host.alive)) >= Capacity THEN "full" ELSE "taken"

PostTaken ==
  LET entry == Min(Entry \ Busy(disp))
      epoch == intake.published + 1
      batch == [entry |-> entry, epoch |-> epoch, kind |-> Kind, target |-> disp.target]
  IN  /\ run = "post" /\ MayPost /\ Answer = "taken"
      /\ intake' = [intake EXCEPT !.published = epoch]
      /\ ring' = [ring EXCEPT ![entry] =
                    [epoch |-> epoch, kind |-> Kind,
                     events |-> IF Kind = "events" THEN Filled ELSE <<>>]]
      /\ disp' =
           [disp EXCEPT
              !.events = IF Kind = "events" THEN Unfilled ELSE @,
              !.ready = IF Kind = "requests" THEN (IF @ > Batch THEN @ - Batch ELSE 0) ELSE @,
              !.prefer = (Kind = "requests"),
              !.unacked = Append(@, [epoch |-> epoch, entry |-> entry])]
      /\ host' = [host EXCEPT !.queue = Append(@, batch)]
      /\ UNCHANGED <<led, refused, con, run, kicked, shutdown, failed, inputs, lost>>

(* The target refuses: what the batch carried goes back in front, and      *)
(* with nothing in flight only the retry timer tries again.                *)
AgainReversed(filled, rest) == Reverse(filled) \o rest
Again(filled, rest) == filled \o rest
RetryNever(d) == d.retry
RetryAt(d) == IF d.unacked = <<>> THEN "set" ELSE d.retry
PostFull ==
  /\ run = "post" /\ MayPost /\ Answer = "full"
  /\ disp' = [disp EXCEPT !.prefer = (Kind = "requests"), !.full = TRUE, !.retry = RetryAt(disp),
                          !.events = IF Kind = "events" THEN Again(Filled, Unfilled) ELSE @]
  /\ Goto("after")
  /\ UNCHANGED <<ring, intake, led, refused, con, kicked, shutdown, failed, host, inputs, lost>>

(* The target is gone: the loss the worker finds by itself.                *)
PostGone ==
  /\ run = "post" /\ MayPost /\ Answer = "gone"
  /\ disp' = LoseTarget([disp EXCEPT !.prefer = (Kind = "requests")])
  /\ ring' = Unfree(ring, Busy(disp))
  /\ intake' = [intake EXCEPT !.acked = intake.published]
  /\ lost' = lost \cup Losing \cup Untaken
  /\ Goto("after")
  /\ UNCHANGED <<led, refused, con, kicked, shutdown, failed, host, inputs>>

(* realtime::after_turn: the close events that waited, the ledger, the     *)
(* sweep of the connections no action will claim, in some order; then      *)
(* whether the drain is over.                                              *)
Orphans == {c \in Peer : con[c].life = "orphan"}
Idling ==
  /\ disp.ready = 0 /\ disp.events = <<>> /\ disp.unacked = <<>> /\ disp.connections = 0
  /\ \A c \in Peer : con[c].life # "leased"
Open(d) == ~HasTarget(d) \/ Room(d) > 0
Unlisted(before, after, open) ==
  [after EXCEPT !.open = open,
                !.for_acks = IF after.acked > before.acked THEN {} ELSE @,
                !.for_room = IF after.acked > before.acked \/ open THEN {} ELSE @]
Orders == {order \in [1 .. Cardinality(Orphans) -> Orphans] :
             Range(order) = Orphans /\ IsInjective(order)}
Swept(f, order) ==
  LET g == ReportClosed(Closes(order), f.r, f.d, f.l)
  IN  [g EXCEPT !.took = @ \/ f.took]
EndOrphans ==
  [c \in Peer |-> IF c \in Orphans THEN [con[c] EXCEPT !.life = "over", !.said = @ + 1] ELSE con[c]]

AfterTurn ==
  /\ run = "after" \/ (run = "post" /\ ~MayPost)
  /\ \E f \in {PostRefused(refused, disp, led)} :
     \E l \in {Floored(Marked(f.l, f.d.events), intake.acked)} :
     \E order \in Orders :
     \E g \in {Swept([f EXCEPT !.l = Unlisted(f.l, l, Open(f.d))], order)} :
       /\ disp' = g.d /\ led' = g.l /\ refused' = g.r
       /\ con' = WakeAll(EndOrphans, Waking(f.l, l, Open(f.d)))
       /\ kicked' = (kicked \/ g.took)
       /\ Goto(IF disp.draining /\ Idling /\ ~g.took /\ g.r = <<>> THEN "done" ELSE "register")
  /\ lost' = IF HasTarget(disp) THEN lost ELSE lost \cup Orphans \cup {e.conn : e \in Range(refused)}
  /\ UNCHANGED <<ring, intake, shutdown, failed, host, inputs>>

(* run: one poll of the wait between two turns registers with the intake,  *)
(* takes the kick, and looks at the timer and the shutdown.                *)
Alarm == disp.retry = "due" \/ (shutdown /\ ~disp.draining)
Polled == run = "register" \/ (run = "asleep" /\ (intake.woken \/ kicked \/ Alarm))
RegisterBlindly ==
  /\ Polled
  /\ intake' = [intake EXCEPT !.waker = TRUE, !.woken = FALSE]
  /\ Goto(IF kicked \/ Alarm THEN "turn" ELSE "asleep")
  /\ kicked' = FALSE
  /\ UNCHANGED <<disp, ring, led, refused, con, shutdown, failed, host, inputs, lost>>
Register ==
  /\ Polled
  /\ IF intake.dirty
     THEN Goto("turn") /\ UNCHANGED <<intake, kicked>>
     ELSE /\ intake' = [intake EXCEPT !.waker = TRUE, !.woken = FALSE]
          /\ Goto(IF kicked \/ Alarm THEN "turn" ELSE "asleep")
          /\ kicked' = FALSE
  /\ UNCHANGED <<disp, ring, led, refused, con, shutdown, failed, host, inputs, lost>>

(* A panic in a turn: CoreHost::host_failed starts an empty dispatcher,    *)
(* closes the claims, forgets the ledger, and the task ends.               *)
HostFails ==
  /\ run \in {"turn", "acks", "post", "after"} /\ Arises
  /\ failed' = TRUE /\ run' = "done"
  /\ disp' = NewDispatcher(0) /\ refused' = <<>>
  /\ led' = [led EXCEPT !.marks = <<>>, !.posted = led.pushed, !.acked = led.pushed,
                        !.acked_octets = led.pushed_octets, !.open = TRUE,
                        !.for_acks = {}, !.for_room = {}]
  /\ con' = WakeAll([c \in Peer |-> IF con[c].life \in {"claimed", "orphan"}
                                    THEN [con[c] EXCEPT !.life = "over"] ELSE con[c]],
                    led.for_acks \cup led.for_room)
  /\ lost' = Peer
  /\ UNCHANGED <<ring, intake, kicked, shutdown, host>>

TurnStep ==
  \/ DrainIntake \/ ReadAcks \/ PostTaken \/ PostFull \/ PostGone \/ AfterTurn
  \/ Register

-----------------------------------------------------------------------------
(* Time, the host and other cores.                                         *)

RetryDue ==
  /\ disp.retry = "set"
  /\ disp' = [disp EXCEPT !.retry = "due"]
  /\ UNCHANGED <<ring, intake, led, refused, con, run, kicked, shutdown, failed, host, inputs, lost>>

Shutdown ==
  /\ ~shutdown /\ shutdown' = TRUE
  /\ UNCHANGED <<disp, ring, intake, led, refused, con, run, kicked, failed, host, inputs, lost>>

(* Under the inbox's lock a change wakes a registered dispatcher.          *)
Dirtied(i) ==
  [i EXCEPT !.dirty = TRUE, !.woken = @ \/ (i.waker /\ run = "asleep"), !.waker = FALSE]

(* The host takes the oldest batch of its queue (BatchRing::take_events):  *)
(* an entry that moved on is refused.                                      *)
Holds(b) == ring[b.entry].epoch = b.epoch /\ ring[b.entry].kind = b.kind
LastTaken(events, c, before) ==
  LET of == {k \in DOMAIN events : events[k].conn = c}
  IN  IF of = {} THEN before ELSE events[Max(of)].n
HostTake ==
  LET b == Head(host.queue)
      taken == IF Holds(b) THEN ring[b.entry].events ELSE <<>>
  IN  /\ host.queue # <<>> /\ host.ack = 0
      /\ host' = [host EXCEPT !.queue = Tail(@), !.ack = IF b.target = host.attached THEN b.epoch ELSE 0,
                              !.last = [c \in Peer |-> LastTaken(taken, c, @[c])]]
      /\ ring' = IF Holds(b) THEN [ring EXCEPT ![b.entry].events = <<>>] ELSE ring
      /\ UNCHANGED <<disp, intake, led, refused, con, run, kicked, shutdown, failed, inputs, lost>>

(* Intake::complete with the epoch of the batch taken: the next epoch, and *)
(* one that was posted, or nothing.                                        *)
HostAck ==
  LET next == host.ack = intake.acked + 1 /\ host.ack <= intake.published
  IN  /\ host.ack # 0
      /\ intake' = IF next THEN Dirtied([intake EXCEPT !.acked = host.ack]) ELSE intake
      /\ host' = [host EXCEPT !.ack = 0]
      /\ UNCHANGED <<disp, ring, led, refused, con, run, kicked, shutdown, failed, inputs, lost>>

(* The host detaches its target (registry.rs release_target): it refuses   *)
(* posts and its thread may no longer acknowledge.                         *)
Detach ==
  /\ host.attached # 0 /\ Arises
  /\ host' = [host EXCEPT !.attached = 0, !.alive = 0, !.ack = 0]
  /\ intake' = Dirtied([intake EXCEPT !.detach = TRUE, !.attach = 0])
  /\ UNCHANGED <<disp, ring, led, refused, con, run, kicked, shutdown, failed, lost>>

(* A target stops by itself; the next post finds it gone.                  *)
Dies ==
  /\ host.alive # 0 /\ Arises
  /\ host' = [host EXCEPT !.alive = 0]
  /\ UNCHANGED <<disp, ring, intake, led, refused, con, run, kicked, shutdown, failed, lost>>

Attach ==
  LET target == host.targets + 1
  IN  /\ host.attached = 0
      /\ host' = [host EXCEPT !.attached = target, !.alive = target, !.targets = target]
      /\ intake' = Dirtied([intake EXCEPT !.attach = target])
      /\ UNCHANGED <<disp, ring, led, refused, con, run, kicked, shutdown, failed, inputs, lost>>

(* Batches of other cores fill a target that several cores share, and go.  *)
Crowd ==
  /\ ~host.crowd /\ Arises
  /\ host' = [host EXCEPT !.crowd = TRUE]
  /\ UNCHANGED <<disp, ring, intake, led, refused, con, run, kicked, shutdown, failed, lost>>
Uncrowd ==
  /\ host.crowd
  /\ host' = [host EXCEPT !.crowd = FALSE]
  /\ UNCHANGED <<disp, ring, intake, led, refused, con, run, kicked, shutdown, failed, inputs, lost>>
-----------------------------------------------------------------------------
HostStep == HostTake \/ HostAck

FlowNext ==
  \/ \E c \in Peer : TaskStep(c) \/ Talk(c)
  \/ Job \/ TurnStep \/ HostFails
  \/ RetryDue \/ Shutdown \/ HostStep \/ Detach \/ Dies \/ Attach \/ Crowd \/ Uncrowd

FlowSpec == FlowInit /\ [][FlowNext]_flowVars

(* The worker polls every woken task in turn, so a task that is woken      *)
(* again and again is polled; the timer fires; a host that lives takes its *)
(* batches and acknowledges them, and other cores' batches are taken too.  *)
FlowFairness ==
  /\ WF_flowVars(TurnStep) /\ WF_flowVars(RetryDue)
  /\ \A c \in Peer : SF_flowVars(TaskStep(c))
  /\ WF_flowVars(HostStep) /\ WF_flowVars(Uncrowd)

FlowFairSpec == FlowSpec /\ FlowFairness
=============================================================================
