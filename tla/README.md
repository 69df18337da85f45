# TLA+ models of zero-server

zero-server is an HTTP server core in Rust that language bindings load. Its I/O
workers each own one core; host threads of a binding answer requests that the workers
lease to them, and push to realtime connections the workers serve. What these models
are about is the boundary between those two kinds of thread: it is lock-light, spread
over many files, and its failures (a pointer into a reused request, a lost push, a
shutdown nobody applies) need several steps of several threads to show. Beside it
stands the driver of an HTTP/1.1 connection, one task whose difficulty is the order in
which handlers, reads, writes and deadlines come, and below it what carries both: the
server's own runtime on completion I/O (executor, clock, cores and their shutdown) and
the writing side of its streams, bare and under TLS.

## 1. Inventory

| Part | State | Operations | Interacts with |
|---|---|---|---|
| Slot word (`zero-rt/slot.rs`) | one atomic word: state, generation, pins, cancel flag | claim, hold, lease, unlease, begin_import, close, close_leased, retire, pin, unpin, check | everything that holds a slot id |
| Arena and accesses (`zero-rt/arena.rs`, `zero-host/access.rs`) | per slot: word, lease epoch, payload under a mutex, published view; per thread: a pin table | with_read, with_write, read_view, with_view, with_values, pin, unpin, body_alloc | host threads, allocator |
| Allocator (`zero-rt/alloc.rs`) | free lists, quarantine of (index, epoch) | allocate, retire, release, shelve | dispatcher, lease guard |
| Intake (`zero-rt/intake.rs`) | completions, attach and detach under a mutex; published, acked, bound thread, detaching as atomics | complete, attach, detach, bind_thread, drain, publish, settle, register | host threads to worker |
| Dispatcher (`zero-rt/dispatch.rs`) | ready jobs, events, ring entries in flight, late list, target | turn = take_intake, poll_late, post; lose_target | intake, allocator, target |
| Lease guard (`zero-host/lease.rs`, `handler.rs`) | one waiter per request future | dispatch, import, drop | connection driver, dispatcher |
| Registry (`zero-host/registry.rs`) | claimed worker indexes, the target of each | claim, Claim::drop, claim_target, release_target | servers |
| Pull target (`zero-host/target.rs`) | a bounded queue of batches, woken, gone, bound thread | post, poll, wake, stop, detach, complete, bind_thread | workers, host threads |
| Server (`zero-host/server.rs`) | Ready, Starting, Running, Stopping, Stopped; the claim | new, start, shutdown, attach, attach_pull, detach, wait | registry, workers, reaper |
| Outbox (`zero-realtime/outbox.rs`) | entries, octets, high-water state, waker; the worker's total | push, broadcast, take, seal, release, close | senders, connection task |
| WebSocket task (`zero-realtime/websocket.rs`, `zero-ws/session.rs`) | session state, output, input, deadlines | recv_event: pour, flush, feed, read; seal, finish | outbox, rooms, peer, shutdown |
| Rooms (`zero-realtime/rooms.rs`) | members of each room | broadcast, join, leave | outboxes |
| Connection table (`zero-host/realtime/conns.rs`, `mod.rs`) | entries with generations, a free list, reservations and their count; a core's claims and served connections | reserve, close, sweep, close_reserved, close_all; claim, abandon, serve, end, fail | host threads, worker, leases |
| Events (`zero-host/realtime/events.rs`, `mod.rs`) | per connection: held events and sequences; per core: ledger of epochs, refused close events | report, flush, settle, poll_change, after_turn | connection tasks, dispatcher, intake |
| Batch ring (`zero-rt/ring.rs`) | entries with an epoch, a kind and content | start, take_events, read, free | dispatcher, host threads |
| HTTP/1.1 driver (`zero-http/conn.rs`, `ring.rs`) | input, ring of requests, write in progress, deadlines, close and claim flags, body budget | tick: expire, process_input, start_runnable, plan_write; wait; apply | peer, handlers, shutdown |
| Clock (`zero-io/compio_rt/time.rs`) | a heap of slots, the slots with their sequence, a free list | insert, refresh, remove, take, fire; Sleep: poll, drop | executor, every sleep of the core |
| Executor (`zero-io/compio_rt/executor.rs`) | tasks by index, free indexes, the run queue, a scheduled flag per waker | spawn, wake, run_ready, park, block_on, drain, clear | wakers of any thread, the driver |
| Cores (`zero-io/compio_rt/worker.rs`, `shutdown.rs`, `listen.rs`, `zero-rt/worker.rs`, `zero-http/server.rs`, `zero-tls/accept.rs`) | threads; the shutdown flag and its wakers; a slot of sockets per core; handshakes in progress | serve, request, until, push, poll_next, close, run_core, drain, join | clients, executor, handlers |
| Stream writes (`zero-io/compio_rt/tcp.rs`, `zero-tls/outbox.rs`, `buffered.rs`, `unbuffered.rs`) | the send in flight, octets carried over; records queued, octets owed | writev, flush, resume, close_write, drop at an await | connection driver, kernel |
| Router, codecs, static files, HTTP/3 | mostly sequential | parse, route, answer | driver, handler |

Hard behaviours and what would be right:

- a view of a request is read without a lock, so a slot must not be reused before the
  host said it is done, across refusals, lost targets and rebound threads;
- a slot index must come back exactly once, however a request ends (answered, its
  future dropped at any await, its target lost, pinned while it ends);
- a push must reach the wire in order or be refused, while the task that writes it is
  cancelled, paused, closing or shutting down;
- octets must be counted once, or the worker's bound on memory stops meaning anything;
- a target's detach, a server's stop and the next server on the same index overlap;
- a connection is set up by a host thread, claimed by an action, swept with a lease and
  closed with its core: one of them must close it, and only one may free its entry;
- an event is held, queued, batched, refused, put back and acknowledged by epoch: it
  must reach the host once, in order, and nothing may sleep on it;
- responses leave in request order whatever completes, times out, closes or claims;
- a dropped write may have a send in flight or its octets encrypted: written again they
  must reach the peer once, and be reported once;
- a wake of a task races the core's decision to wait on its driver;
- a shutdown must take effect from every state.

`PROJECT.json` lists all parts, modelled or not, and the hazards at their lines.

## 2. Modules

| Module | Models | Extends |
|---|---|---|
| `SlotWord` | `slot.rs`: the word's transitions as pure operators, a guard `CanX` and a result `x` each | |
| `SlotLease` | arena, allocator, intake, dispatcher turn, lease guard, host accesses of **one worker** | `SlotWord` |
| `SlotLeaseProps` | the safety properties of the lease protocol | `SlotLease` |
| `SlotLeaseInv` | the inductive invariant in named parts | `SlotLeaseProps` |
| `SlotLeaseProofs` | the theorems, in the order of the argument: types and epochs, slots, what hosts are promised | `SlotLeaseInv` |
| `Outbox` | `outbox.rs`: operations on one queue as pure operators | |
| `WsConn`, `WsConnProps` | connection tasks of one worker, senders, a room, peers, the shutdown | `Outbox` |
| `WsConnProofs` | its inductive invariant, and the theorems | `WsConnProps` |
| `HostTargets`, `HostTargetsProps` | worker indexes, targets, polls, and the life of servers | |
| `HostTargetsInv`, `HostTargetsProofs` | its inductive invariant, and the theorems | `HostTargetsProps` |
| `ConnTable`, `ConnTableProps` | the connection table of **one worker index** and the cores that serve it in turn | |
| `ConnTableInv`, `ConnTableProofs` | its inductive invariant, and the theorems | `ConnTableProps` |
| `IdLife` | the abstract life of a connection id: opens once, ends once; `ConnTableProps` refines it (`IdsNameOnce`) | |
| `EventFlow`, `EventFlowProps` | connection tasks, ledger, dispatcher with ring and retry, intake wakers, a target: the way of an event | |
| `EventFlowProofs` | its inductive invariant in named parts; what its operators keep of it; a lemma per action, and the theorems | `EventFlowProps` |
| `HttpConn`, `HttpConnProps` | the HTTP/1.1 driver of **one connection** | |
| `HttpConnInv` | its inductive invariant in named parts | `HttpConnProps` |
| `HttpConnProofs` | what its operators return; a lemma per action, and the theorems | `HttpConnInv` |
| `SleepSet` | what the clock of a core promises its sleeps; `TimersProps` refines it (`ClockPromise`) | |
| `Timers`, `TimersProps` | the clock of **one core**: heap, slots, keys, sleeps | |
| `TimersProofs` | what the loops of the heap do; its inductive invariant, and the refinement | `TimersProps` |
| `Executor`, `ExecutorProps` | the executor of **one core** and the threads that wake its tasks | |
| `Cores`, `CoresProps` | the cores of **one server** from start to join: signal, handoff of sockets, accept loops, drain | |
| `StreamWrite`, `StreamWriteProps` | the writing side of **one stream**, bare or under TLS | |
| `StreamWriteProofs` | its inductive invariant, and the theorem | `StreamWriteProps` |
| `MCRealtime` | `ConnTable` and `WsConn` side by side in one instance | `ConnTableProps`, `WsConnProps` |
| `MCRuntime` | `Executor`, `Timers` and `StreamWrite` side by side in one instance | `StreamWriteProps`, `TimersProps` |
| `MC...` | the other instances for TLC | |

### SlotLease: how it corresponds to the code

A request is named by a slot and a generation (`SlotId`, one worker). The payload is
abstracted to the generation of the request whose data it holds, or `Cleared`: that is
all that a stale pointer can get wrong. Steps are cut where another thread can see a
difference: host threads take one step per shared load (`LoadBound`, `LoadDetaching`,
`LoadEpoch`, `LoadAcked` are the four loads of `view_allowed`, in order; `ReadView`,
`Snapshot`, `Recheck` are `read_view`), and the worker takes one per lock or store
that a host observes (`Drain`, `LoseLeases`, `LoseJob`, `Settle...`, `LoadFloor`,
`Release`, `LateRetire`, `FillJob`, `Publish`, `Offer...`). The future of a request is
the waiter record: `DropFuture` may happen at any await.

`views` and `regions` are bookkeeping of the model: the pointers a thread was handed
and may still read under the contract of `access.rs` (until the later of its unpin and
its acknowledgment, and never past its target's stop). `era` numbers targets.

An event batch is `PostEvents`: it takes an epoch of its own, is offered and
acknowledged like any other, and carries no slot; `EventFlow` follows what it carries.
Left out of `SlotLease`: the in-flight bound and the ring's entries (`PostNext` may stop
at any time instead), the retry timer, admission (all in `EventFlow`), the gauges and
limbo. `seen` lets every host thread know every id a host was given, which is more than
a real host does.

### WsConn

The task is the loop of `recv_event`; `pc` is where it is, and steps end at awaits and
at the outbox's lock. `Cancel` is the host loop dropping the future at an await and
calling it again; `DropTask` is the task itself going away (the drop of `Attached`). A
frame is its kind and the order in which it was accepted; `log` and `behind` are
history. A peer sends a few frames of four kinds: data, ping, Close, and a frame that
fails the protocol.

### HostTargets

Worker indexes are held by servers; a pull target serves one or all of a server's
indexes; a binding's own target is `Own`. A poll is cut at the target's lock, at each
`Intake::bind_thread` and at the condition variable. `finish` and `PullTarget::detach`
release one index per step, with no lock between two, as in the code. The cores ending
is the guard of `Reap`: a server that drains.

### ConnTable

An entry's word is `gen` and `open`; an id is an index and a generation. Host threads
take one step per shared access of `reserve` (take an index, store the word, check the
lease again, list, count) and hold the slot's exchange from `Accept` to `Record`. The
worker is one thread: `wk` is the procedure it is in (`one`, `sweep`, `fail`,
`reserved`, `all`, `scan`), and each close is cut into closing the word, taking the
reservation off and freeing the index, as `Table::close` does. `drop_reservation` is
one step because only the worker takes listed reservations off. A lease is followed by
its state alone: `leased`, `answered`, `gone`. `IdLife` is what the ids promise.

### EventFlow

`run` is the step of the dispatcher's task: `turn`, `acks`, `post`, `after` (the turn,
cut where it takes the intake's lock, reads an epoch or offers a batch), `register`,
`asleep`, `done`. Connection tasks share its thread, so they move only while it sleeps.
`flush`, `settle`, `took`, `Marked`, `Floored` are the functions of `events.rs` on
records, and `Passed` and `Behind` the loops that take marks, numbers and batches off a
front up to a floor. The sweep of orphans goes through them in any order. Requests compete for the ring as batches without content. The host takes
batches in order and acknowledges them; `Detach`, `Attach`, `Dies`, `Crowd` are the
target going, coming, stopping by itself and being filled by other cores. `HostFails` is
a panic in the turn. `lost` is history: connections whose events were dropped with a
target, a task or a failed core; only for the others is every event owed.

### HttpConn

`pc` goes through one turn: `expire`, `input`, `start`, `plan`, `wait`. The peer, the
handlers and the shutdown move while the task waits, which is the only place where it
can see them. The peer's stream is the script `asked`; octets are pieces (of a head, a
body, a chunk's size line), so a read may end inside any of them. A place of the stream
is a mark `<<r, k>>`, the k-th piece of request r: `sent`, `got` and `parsed` are how far
the peer has sent, the connection has read and the driver has parsed, so the socket holds
what lies between the first two and `Conn.input` what lies between the last two. Clearing
the input sets `parsed` to `got`. What the core's body budget is charged with is counted
octet by octet (`Charges`), in the entry (`body_bytes`) or in its handler's record.
Time is abstract: a deadline that is set may have passed at any tick, and at most one
fires per tick, as in `expire`. `wire`, `interim` and `claims` are history: the responses
written, the 100s and how many responses went before each, and what became of each claim
of the connection.

A claim is made by a handler that runs (`Claim`, in its record: `claiming`), any number of
times, a later one in the place of an earlier; its request must have asked for an upgrade,
or be one whose response may stream. What becomes of it when the handler completes is the
`fate` of the answer: it is `kept` and the response carries it (`claim`), or it is `void`,
for the handler failed, panicked or changed the status, or the head is too large and goes
`bare`, without the claim but with the `Connection` the claim asked for. `claims` goes from
`claimed` to `kept` and then to `handed` or `dropped`; or to `void`; or to `lost`, when the
future of a handler that claimed is dropped with its record (`Charged::drop`).

### Timers and SleepSet

Every operation runs whole on the core's thread; the model interleaves who is next. The
heap, the slots and the free list are those of the code, counted from 1. A loop is its
round (`Rise`, `Sink`, `FireFirst`), taken as often as there are entries: a round that
finds the loop ended changes nothing. `Poll` is `Sleep::poll` with any waker, `Ended` the
drop that removes by key. A fire frees the
slot of a sleep that does not know it yet, and `next_sequence` is what keeps its key
from opening the slot's next owner. `SleepSet` knows no slots: sleeps are armed or not,
and a fire wakes what is due.

### Executor

One step per access to what threads share: a waker swaps the flag, pushes under the
queue's lock, interrupts the driver; the core swaps the queue, takes a task (and clears
its flag), polls it, looks at the queue, waits. A poll may wake any task, itself too,
spawn one, stay pending or end. `until` is the deadline of the drain, or none, which is
what a limit the clock cannot hold comes to (`checked_add`). `signal` is what another thread has for a task, raised
before the wake; `due` is an operation or timer ready to be delivered. `WaitCutShort`
is a wait that returned early (`Interrupted`, or a failed driver).

### Cores

The mode in which the first core's `distribute` hands sockets to every core's `Slot`.
`at` is a task's place in a poll of `until` (`flag`, `future`, `stop`, `parked`), `doing`
what its future is: the accept or a pause. `gate` is the head of `run_core`'s loop and
its wait with a connection in hand (`held`): at the cap of handshakes, or while the core
is over its budget. `Slot::close` is two steps, because the mark is
stored outside the lock. A core is `starting` until its loop runs, `drain` until its
tasks ended or the deadline passed, then `gone`; `unwound` is a thread that panicked
before its loop. `scene` is what a server meets, fixed from its start: the clients already
in the listener's queue, those who may come later, what may go wrong, and the cores whose
request memory may run short.

### StreamWrite

The driver's octets are numbered; under TLS a write becomes a record, a header and its
octets, and the reading side may queue records of its own (`Collect`), also behind
close_notify, while `linger` reads on: such a record stays in the queue. `call` is the
call in progress, `io` where the transport's `writev` waits: for a send it found in
flight (`old`) or its own (`new`). The kernel takes any part of a send at its own time,
or answers that it would block. `Drop` is the driver dropping the future at an await. The
driver then starts at the same octet, as the seam asks, with any length. `made` and
`wire` are history: every record in order, and what the peer reads.

## 3. Runs

| Run | Instance | Shows |
|---|---|---|
| `lease_one_thread` | 1 thread, 1 or 2 slots, scenes | `TypeOK`, `SnapshotOwn`, `IndexOnce`, `EpochOrder`, `FloorAdvances` |
| `lease_two_threads` | 2 threads, 1 or 2 slots, scenes | `ViewFrozen`, `LockedAccessOwn`, `RegionOwned`, `AckedByBound` |
| `realtime` | table: 3 slots, 2 threads, 2 entries, 2 cores; 1 connection with everything; 2 sharing the total | `FreeOnce`, `StoppedClosed`, `Accounted`, `IdsNameOnce`; `OctetsCounted`, `OneClose`, `KeptInOrder` |
| `ws_liveness` | 1 connection, fair | `EntriesTaken`, `DrainReported`, `ShutdownEnds` |
| `ws_end_after_pushed` | 1 connection | **violated**: `EndAfterPushed` |
| `events` | 1 connection, batches of 2, 1 in flight, a target that holds 1 batch, fair | `EventsInOrder`, `LedgerSound`, `HeldBounded`, `EventsHandedOver`, `DrainFinishes` |
| `targets` | 2 servers or 2 pull targets, 1 or 2 indexes, fair | `FreeIndexClean`, `BoundEverywhere`, `StoppedByOwn`, `StopEnds`, `PollNotStuck` |
| `targets_all_or_none` | 1 server, 2 indexes, 1 target | **violated**: `BindsAllOrNone` |
| `http_connection` | 2 or 3 requests in 13 mixes, 2 pipelined, 1 read hold, fair | `InOrder` (with `ContinueFirst` and `UnsafeAlone`), `BodiesCounted`, `ClaimSettled`, `UpgradeKeepsInput`, `ShutdownEnds` |
| `http_chunk_stall` | a chunked request | **violated**: `StalledReads` |
| `runtime` | executor: 2 tasks, 2 threads, fair; clock: 3 sleeps with 2 wakers, and a heap of 6; a stream of 5 octets, under TLS and bare | `SignalSeen`, `DrainEnds`; `ClockPromise`; `WireExact` |
| `cores` | 2 cores, 1 handshake at a time, fair; 1 late client and every fault, or 2 waiting clients and a core short of memory | `AllEnd`, `HandedSpawned` |

Bounds and why they are enough for the cases that matter:

- lease runs go through *scenes* (`MCSlotLease`): each scene allows some calls and
  bounds requests, targets and pins, and a state is explored while it fits one of them.
  `Reading` uses a slot twice under two targets with a pin, so a stale id meets its
  slot's next request; `Batching` has two slots and batches; `Leaving`, `Rebinding` and
  `Returning` let calls start under one target and end under the second or third;
  `Locking` and `Opening` are the writers. Scenes are a state constraint and those runs
  check safety only: what is explored is a prefix-closed part of the behaviours;
- table: three requests on two entries reuse an entry and exhaust the table; two threads
  overlap in `reserve`; the next core meets what the first left. When more than two
  requests came, threads answer one at a time (`FewAtOnce`);
- outbox: `MaxQueued` commands and broadcasts with a high-water mark of two octets: a
  push can pass the mark, reach the outbox's limit and the worker's, and overflow the
  inbox; two connections under one total are sent frames and ended (`OfTwo`);
- events: `MaxInputs` bounds messages, drains, requests, lost and crowded targets and
  panics together; with a queue of two and a ring of one entry two of them suffice to
  hold an event back, have a batch refused with nothing in flight, and lose a target
  under a batch on its way;
- targets: the queue is full after one batch (`MaxBatches`); two indexes make a detach
  or a binding partial. `Cast`, an action constraint, keeps the second server and the
  second target from appearing together or on the large instance. It holds back only
  steps no fairness asks for (a server or target that begins, a thread that binds), so
  it takes no fair step away from a behaviour;
- http: two requests fill the pipeline and a third waits behind it; the mixes cover safe and unsafe, with and
  without a body, chunked, expecting 100 or something else, closing, upgrading, streaming
  (two of them at once, so that one claim can cost the other its handler), too large,
  malformed and rejected; `http_chunk_stall` has the mix that stalls first;
- runtime goes through scenes as well (`MCRuntime`), and the executor of the scenes about
  something else has ended, so that its fairness asks for nothing. Clock: three
  registrations use a slot again while a fired sleep still holds its key, and one
  duration leads past the last instant; of six sleeps, armed one after the other with
  every choice of deadlines, two are dropped from anywhere in the heap before time
  passes: that is the smallest heap in which the entry that fills a hole may have to
  rise. Executor: two threads overlap in the wake of one task, and hold the waker of a
  task that ended. Streams: two writes at least when bare and three under TLS,
  each dropped any number of times, with lengths below and above what a send in flight
  holds and above a chunk, and a record of the reading side on either end of the close;
- cores: two cores are needed for one to see the end of the other's handoff, and for the
  handoff to be between two threads: `distribute` runs on the first core and takes the
  cores in turn, so the second client is the first to go to another thread's slot. Two
  scenes (`MCScenes`), since both at once are too many states. In the first one client
  comes at any time and anything fails. In the second two clients wait in the queue and the
  second core, which gets the second of them, goes over its budget and back at any moment:
  its push meets the poll, the registration and the pause of the loop on the other side,
  and the loop pauses with the connection in hand, also while a stop is asked for.

In `realtime` and the lease runs slots and threads are symmetric (no property or action
orders them; `IdsNameOnce` is about indexes and generations, which are not permuted).
Connections may all have ended, servers all have stopped, cores all be down and streams
all be written, so those runs do not check deadlock; the lease runs do.

### Fairness

- `WsConn`: the executor polls a task that can go on (`Runs`, weak). Strong fairness
  of `Write`: the peer keeps taking octets, or the write timeout of the stream fails
  it. Of `Wake` and `GoAway`: the host loop polls `recv_event` first each time it is
  woken (`realtime/ws.rs`, `run`), so cancelling it for a ledger change or a ping
  cannot starve it. Of `CloseTimeout`: the deadline is absolute, kept across calls in
  `close_deadline`, so pausing and resuming do not move it.
- `EventFlow`: the executor polls every woken task, so a task that is woken again and
  again is polled (strong, per connection) though the dispatcher runs in between; the
  dispatcher's task goes on (weak); the retry timer fires; a host that lives takes its
  batches and acknowledges them, and other cores' batches leave a shared target. A
  target that is attached and dead with no further post is nobody's to notice: both
  properties except it (`Dead`).
- `HttpConn`: the task goes on when it is woken (weak). Strong fairness of the total
  deadline and of the write with its send deadline: ticks are many and time goes on, so
  a deadline that stays set is found passed; of `SeeShutdown`: the signal stays set and
  is polled last, so it is seen once reads stop completing at once. Nothing is assumed
  of peers and handlers.
- `HostTargets`: a start ends, a reaper runs once the cores ended, a detach and a
  finish go through their loops, a poll that holds or can take the lock goes on;
  strong fairness where the lock of a target, taken and released by others, is in the
  way. Nothing is assumed of hosts: no poll, no acknowledgment, no shutdown has to
  happen.
- `Executor`: the core's thread and a thread inside a wake are scheduled, and time
  passes (weak). A poll ends; nothing is assumed of what it decides, and a task need
  never finish: `DrainEnds` asks for the end of a drain that has a deadline, and of one
  without only once its last task is gone.
- `Cores`: threads are scheduled, timers fire, accepts complete, a drain's deadline
  passes and handshakes end by their timeout (weak); a task that was woken is polled
  though the other task of its core is busy (strong: what `Executor` shows as
  `SignalSeen`). Memory need not come back: `HandedSpawned` excepts a connection whose core
  is over its budget again and again. Nobody need connect, finish a connection or ask for a stop.

### Findings

- `ws_end_after_pushed`: `pour` closes a connection that fell behind its rooms with
  1013 *before* it applies the entries it took, so frames pushed earlier are dropped
  and an `End` behind them still ends the connection, although `outbox.rs` says an End
  ends it once what was pushed before it is written.
- `targets_all_or_none`: `bind` checks every index and then binds them one by one; a
  `bind_thread` by another thread in between leaves the first indexes bound to a
  thread whose poll is refused, although `target.rs` says such a poll binds none.
- `http_chunk_stall`: after a read that ends inside a chunk's size line (or its CRLF, or
  the trailers) the decoder consumed nothing, the input is not empty and no head is
  being read, so `wait` does not want to read: the rest of the body stays in the socket
  and the request is answered 408, although `chunked.rs` says the rest is presented
  again with more bytes.

Seven more places where a comment and the code part were met while modelling. Each shows
as a violation of the formula given, added to the module's properties; they are not kept
as runs.

- `zero-http/conn.rs`, `complete`: the head deadline of a partial head behind a response
  that closes or claims the connection still fires, and a 408 goes out behind what the
  comment calls the connection's last response. `HttpConn`, three `get` requests, three
  pipelined: `\A k \in DOMAIN wire : wire[k].claim # "none" => k = Len(wire)`. `OneEach`
  and `EndInv` state what does hold: at most that one answer follows.
- `zero-http/handler.rs`, `dropped` (lines 82-86: called for a claim whose connection
  "ended before its response head was written"; "a handler that set up state for the claim
  can release it now"): only `give_record` calls it, for a claim still in its record. A
  handler cancelled after it claimed takes the record down with its future
  (`Charged::drop`), a handler that fails or panics after it claimed, and one that changes
  its status, have the claim cleared (`clear_response`, `serialize`), and a second claim
  replaces the first: none of these is reported, and none reaches `taken`. `HttpConn`:
  `\A r \in Request : pc = "closed" => claims[r] \notin {"void", "lost"}`. `ClaimSettled`
  states what does hold: a claim its response carries is handed over or reported.
- `zero-http/conn.rs`, `serialize` (the bare 500 in the place of a head that is too large):
  for a stream's claim it keeps the `close` of the streamed head, so it says
  `Connection: close` while the claim is void and the connection goes on, and so another
  response follows one that says close. `HttpConn`, two streams: `\A i, j \in DOMAIN wire :
  i < j => ~wire[i].says`. `Ends` excepts such a head (`stray`).
- `zero-host/realtime/conns.rs`, `drop_reservation` ("the reservation is no longer the
  table's to settle"): `reserve` lists a reservation before it counts it. A sweep in
  between brings the count to zero with another reservation listed; the claim of that one
  then skips the list, and a later sweep closes the live connection. `ConnTable`, three
  slots and two threads: `[][wk.pc = "shut" /\ wk.job = "sweep" /\ IsOpen(wk.conn) /\ wk' # wk
  => wk.conn \notin claims \cup served]_tableVars`.
- `zero-io/compio_rt/shutdown.rs`, `until` ("never reported as the future's own
  outcome"): a request between the flag and the future lets an accept see the slot that
  the first core closed because of it; the core returns "the listener closed", and `join`
  an error, on a stop where nothing failed. `Cores`, two cores:
  `scene.fault = {} => \A c \in Core : outcome[c] # "err"`.
- `zero-io/compio_rt/listen.rs`, `poll_next` ("`None` once the listener is gone"): only the
  end of `distribute` closes the slots. A first core that ends by itself drains to its
  deadline and drops `distribute` with the listener; the other cores wait at their slots
  until a stop is asked for. `Cores`, two cores: `\A c \in Core : (at[Dist] \in
  {"ended", "dropped"} /\ core[c] = "running") ~> core[c] # "running"`.
- `zero-rt/worker.rs`, lines 6-8 (a panic outside a task is reported): the application's
  code that builds a core's handler runs outside `contain`; its panic unwinds the thread
  and reaches no status callback. `Cores`: `\A c \in Core : core[c] = "unwound" =>
  "WorkerPanic" \in events[c]`.

## 4. Theorems

Checked by TLAPS, for every set of slots and threads, batch size, number of pins,
requests, epochs and eras that the named assumptions of the modules allow.

- `TypeCorrect` (`SlotLeaseProofs`): `Spec => []TypeOK`. Not inductive as it stands:
  `published - 1` after a refused post is a number only because a batch on offer was
  published (`PhaseOK`), and a step of a call keeps its shape only because a call in a
  `complete` step is a completion (`CallOK`). `TypeInv` adds both. One lemma per group
  of steps; `FrameTyped` takes care of the groups of variables a step leaves alone.
- `EpochsOrdered` (`SlotLeaseProofs`): `Spec => []EpochInv`. The invariant is
  stated over `Posted`, the epoch a target may have taken: one below `published` while
  a batch is on offer. Stated over `published` it would not be inductive, since a
  refused post takes `published` back: what must hold is that nothing (no stamp, no
  id a host holds, no acknowledgment in flight) ever counted on the epoch on offer.
- `FloorMoves` (`SlotLeaseProofs`): `Spec => FloorAdvances`, from `EpochInv`: a
  settle moves the floor forward because the floor was within `Posted`.

- `IndexesOnce`, `EpochsCovered` (`SlotLeaseProofs`): `IndexOnce` and `EpochOrder`.
  `SlotInv` ties the allocator's lists, the words and the waiters together slot by slot;
  `EpochInv` bounds the stamps. A quarantine entry is released only when its stamp is
  below the floor, which was read earlier in the turn: the floor only grows, so the old
  value is safe.
- `LeaseHolds` (`SlotLeaseProofs`): `LeaseInv`, the whole of it, is inductive. Its
  parts are `SlotInv` (who owns an index), `TargetInv` (what the loss of a target still
  has to do), `LockInv` (who is inside a slot's lock), `PinInv` and `RegionInv` (pins and
  body regions), `AckInv` (acknowledgments in flight), `RuleInv` (what a call that went
  through some of the four loads of `view_allowed` may count on) and `ViewInv` (what
  protects a pointer that was handed out). The argument behind the last two is
  `Retained(id, epoch)`: a slot whose lease was posted under `epoch` either still
  carries the request or sits in the quarantine with a stamp at or above `epoch`, so it
  cannot be released before that epoch is acknowledged. The thread that holds the
  pointer is the one whose acknowledgment moves the floor, or its target is lost and
  the contract ends its right to read. Proved from "what a step may do" lemmas, one per
  group of state (`LockEffect`, `RegionEffect`, `RuleEffect`), so that each part is
  shown against a few kinds of steps and not against every action.
- `ViewsFrozen`, `SnapshotsOwn`, `LockedAccesses`, `RegionsOwned` follow from `LeaseInv`,
  and `AcksByBound` (an action property) from it and the effect of a step.
- `EntriesFreeOnce`, `StopCloses`, `NoneForgotten` (`ConnTableProofs`): the properties of
  the connection table. Its invariant says which entries each step of a reservation and
  of the worker's procedures owns, so that exactly one of them frees an index, and that
  the scan at the end of a core has passed no open entry.
- `NamesOnce` (`ConnTableProofs`): `Spec => IdsNameOnce`, the refinement of `IdLife`. An
  id reads open exactly while its entry is open under its generation; each step of the
  table is one opening, a set of closings, or a stutter of the abstract names.
- `TargetsHold` (`HostTargetsProofs`): `TargetsInv` is inductive. `TargetInPlace` says
  that a target not yet stopped is on every index it serves; `PollHolds` that a poll
  binding its indexes has the queue's lock, hence that its target is not stopped under
  it, and that what it has gone through is bound to it; `StopReleases` that an index of
  a stopping server which still has a target is still in the loop of `finish`.
- `FreeIndexesClean`, `OwnersBound` and `TargetsStopOwn` follow: the first needs
  `StopReleases` (nothing is left on an index that `Claim::drop` gives back), the second
  `PollHolds`, the third that a target in the loop of its detach is already stopped.

- `HttpInvariant` (`HttpConnProofs`): `HttpInv`, `ClosedInv` and `ClaimInv` are inductive, for every script of
  requests, every way handlers answer and every limit. Its parts: `StreamInv` (what is
  parsed lies behind what is read, a body is parsed to where its entry says, and the next
  head is the next request's), `RingInv` (only the last entry's body arrives, what is being
  written is done, nothing follows an upgrade), `OrderInv` (numbers grow through ring and
  wire, none is skipped until something ends the connection, and behind that there is at
  most the driver's answer to a head that timed out), `ContinueInv` (a 100 that is owed or
  being written was not written before) and `SettleInv` (a claim in the ring
  holds back what follows it, and the claim taken has its head on the wire, with nothing
  parsed behind an upgrade). `ClaimInv` is where a claim is: in the record of its handler,
  then with the entry whose response carries it until its head is written, then taken; one
  that was dropped is that of a request whose response never went out. It is carried on its
  own (`Claim...` lemmas), for it needs the order and the order does not need it. The order is not inductive without
  `EndInv`: a ring with a response that ends the connection may lose its entries or get one
  more, and what makes the wire still right is that it gets only one, and no head after it.
  Most actions change the ring without pushing or writing an entry; `RingEvolves` says how
  an entry may change in place and which may be dropped, and `EvolveOrder`,
  `EvolveStages`, `EvolveContinue` and `EvolveSettle` carry the parts over such a step
  once. The others push one entry (`PushStep`) or write some (`Written`).
  `HttpConnProofs` has the sums: `ChargesSplit`, `ChargesReplace` and `ChargesAppend`
  are about the cardinality of a set of octets, so that no induction over the ring is
  needed.
- `HttpInOrder`, `HttpBodiesCounted`, `HttpClaimSettled`, `HttpUpgradeKeepsInput`
  (`HttpConnProofs`): the four invariants of the run `http_connection`, from these.

- `StreamInvariant`, `WireIsExact` (`StreamWriteProofs`): `WireExact`, under TLS and bare,
  for every amount written and every size of a write, a chunk and a record. `WireExact` is
  about the wire and the records and says nothing of what a call or a send in flight
  holds, so it is not inductive. `StreamInv` places each of them in the one row of units
  there is (`PartOf`): the writer believes the first `Base` units to be out; what it took
  from its queue and what a dropped write left in flight both begin right there, and the
  wire is ahead of `Base` by exactly what is owed to the next write (`Owed`). A drop moves
  a part back to the queue and `Base` stays where it is. Once the write side is closed the
  queue holds nothing but records of the reading side, made since.
- `WsInvariant` (`WsConnProofs`): `WsInv` is inductive, for any finite set of
  connections, any commands and any limits. It is local but for the worker's total:
  `ConnOk` relates the values one connection has. `KeepOk` says which accepted frames are
  on the wire, in the output or in the outbox; it needs `EndOk` (once a Close went out or
  an End was applied nothing is left to apply, and the outbox refuses more), `OrderOk`
  (numbers grow along wire, output and outbox) and `ClosesOk`. A pour applies the entries
  it took one after another, so `FoldOk` states the invariant with a prefix of them
  applied, and `ApplyInduction` carries it from none to all.
- `OctetsAreCounted`, `OneCloseSent`, `FramesKeptInOrder` (`WsConnProofs`): the three
  invariants of `WsConnProps` that the run `realtime` checks, from `WsInv`. The worker's
  total is the cardinality of the set of octets counted, so that a step of one connection
  moves it by what it moves that connection's octets (`Counts...`).
- `FlowInvariant` (`EventFlowProofs`): `FlowInv` is inductive, for any finite set of
  connections and every batch size, number of batches in flight, capacity of a target and
  budget. `EventsInOrder` reads an event's place off the ring's epochs and the queues; it
  is not inductive, since what a refused batch puts back, a host takes or a settle forgets
  depends on state it does not speak of. The parts: `SeqInv` (events carry the number of
  their push, the queue holds the last of them without a gap, and a batch's lie before
  those of a later epoch), `OrderInv` (along these numbers a connection's events are in
  its own order, between what the host took last and what the connection holds, and none
  is missing unless it is lost; a close event that waits is its connection's only one),
  `RingInv` (which entry holds which epoch's batch, and that the host's queue still has
  every batch with events), `LedgerInv` (each mark covers only batches up to its epoch, so
  that settling it gives back no octets of a later one), `BoundInv` and `ReadsInv` (a
  connection that reads holds nothing and has room for one more message, and counts as one
  against the budget before it reads it), `LifeInv` (the dispatcher's count of connections
  is exact, which is why the end of a drain leaves nothing). After a failed host the
  ledger's parts are not promised; numbers and order are. The parts take the state they
  speak of as parameters, because the end of a turn posts twice in one step, first the
  close events that waited and then those of the sweep: one lemma serves both.
- `EventsStayInOrder`, `LedgerCountsAll`, `ClientsAreBounded` (`EventFlowProofs`):
  `EventsInOrder`, `LedgerSound` and `HeldBounded`, the three invariants of the run on
  `EventFlow`, from `FlowInv`.
- `ClockInvariant` (`TimersProofs`): `ClockInv` is inductive, for any number of sleeps,
  any deadlines and a heap of any size. That a fire wakes what is due and leaves the rest
  rests on the earliest deadline being at the root (`Ordered`, `RootLeast`), and that a
  removal hits the right place on the entries knowing theirs (`Shape`); so both are part
  of it. `Keyed` is about the key a sleep still holds after its entry was fired: it opens
  the entry of that sleep, or the sleep is due, whoever has the slot; `Held` is the way
  back, from an entry to the one sleep that holds its key. A removal puts the last entry
  into a hole, where it is too early or too late but never both (`Refilled`): one of the
  two repairs orders the heap and the other does nothing. Each repair goes through states
  that are ordered but for one entry (`Rising`, `Sinking`), which the swap of a round
  moves on, until the root or a leaf.
- `ClockImplements` (`TimersProofs`): `ClockPromise`, that the clock implements
  `SleepSet`. What is armed is what the slots hold (`HeapArms`). A poll that finds a key
  before the deadline finds its own entry by `Keyed` (`PollFinds`), so it is a `Wait` of
  `SleepSet`; without the invariant it could have been disarmed and would wait forever.

Assumptions: `WordAssumption`, `LeaseAssumption`, `TableAssumption`, `TargetsAssumption`,
`HttpAssumption`, `OutboxAssumption`, `ConnAssumption`, `StreamAssumption`,
`FlowAssumption` and `ClockAssumption`, which say that bounds are numbers, that a chunk
is at least one octet and a batch, a ring, a queue and `MaxPending` at least one event,
that sets of threads, servers, targets and connections are finite, that there is a sleep
and a waker, that `None` and `Own` are none of their sets' members and which kinds of
requests, answers, commands and peer frames there are. TLC evaluates them on every run.
Each inductive invariant was checked with TLC before it was proved, on the instances of
its module's runs (`HttpInv` also with three pipelined and four requests, among them an upgrade with
a body; `WsInv` with one connection and every command; `FlowInv` also, in part, with two
connections and two batches in flight).

Induction over data. What a recursive definition computes cannot be proved through the
library's induction theorems, whose predicate is an operator. Where it is needed
(`Octets`, `retained` and the fold of `pour` in `WsConnProofs`, the loops of the heap in
`TimersProofs`) the proof goes through a
set instead: the naturals up to the length at which the claim fails have a least element
if there is one (`LeastNat`, `UpTo`), and the recursive function, written with a local
function over `0 .. n`, is given by its trace (`Trace`). That holds for definitions of
our own; the library's `FoldLeft` and `SelectSeq` cannot be opened by the prover.

Only model-checked: the eleven liveness properties (`EntriesTaken`, `DrainReported`,
`ShutdownEnds`, `EventsHandedOver`, `DrainFinishes`, `StopEnds`, `PollNotStuck`,
`SignalSeen`, `DrainEnds`, `AllEnd` and `HandedSpawned`), since fairness and ENABLED are
beyond the prover. Those of `Executor` and `Cores` are all of that kind, so nothing is
proved about these two. Every invariant, action property and refinement of a passing run
is a theorem.

## 5. Not modelled

`PROJECT.json` gives the reason per part. In short: codecs, routing, policies and
file serving are sequential functions over octets, which the repository covers with
conformance vectors and fuzzing; sockets belong to the system, records and handshakes to
rustls, and the executor, timers and channels of the readiness backend to tokio;
bindings and the C ABI marshal the host API modelled here; the repository's tools
(`xtask`), examples and conformance vectors, over a fifth of its lines, are not part of
the running system. The map therefore covers the concurrent core and a small
share of the repository's lines, and would not reach a third of them without modelling
codecs octet by octet.

Of the runtime, cores with a listener of their own, reads and readiness of streams,
failed sends, the cancellation of operations and the buffer pool are not modelled.

Memory is sequentially consistent in the models: the code's acquire and release pairs
are covered by its own loom tests, not here. Panics that poison a lock are not
modelled. Generations do not wrap within the bounds: an id kept for 2^30 reuses of its
index is outside what the code promises; nor do the sequences of the clock, which are of
64 bits.

## 6. Plan

In order:

1. Proofs: `FreeOnce`-like ownership of the indexes of `Executor`.
2. `SseConn`: the event stream task over `Outbox`, and an abstract ordered stream of
   frames with an end that both connection tasks implement.
3. The late list's Import entries and the limbo of the allocator in `SlotLease`.
4. Pure algorithms against reference definitions: the chunked decoder, the router's
   match, the close code rules.

The set of runs is kept small: instances of one module are joined by scenes or by a
constraint, and models that share no state by an MC module, before a run is added.
