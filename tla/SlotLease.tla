----------------------------- MODULE SlotLease -----------------------------
(***************************************************************************)
(* The tier 3 lease protocol of one worker index: the slots of its arena   *)
(* (zero-rt arena.rs), the intake that host threads and the worker share   *)
(* (intake.rs), the worker's allocator and dispatcher turn (alloc.rs,      *)
(* dispatch.rs), the futures that wait on leases (zero-host lease.rs) and  *)
(* the calls of host threads (zero-host access.rs, target.rs, registry.rs).*)
(*                                                                         *)
(* The worker is one thread: between two turns (wpc = "idle") its request  *)
(* futures run, and a turn goes through the phases of Dispatcher::turn.  A *)
(* step of the worker ends where it touches an atomic or a lock that host  *)
(* threads also touch.  A call of a host thread is split at every load of  *)
(* a shared word, so a call may use what it read long ago.                 *)
(*                                                                         *)
(* Left to other modules: which free index is taken (Allocator), the ring, *)
(* the in-flight bound and the timers (Dispatcher).  Here the worker may   *)
(* stop posting at any time and re-poll a late slot at any time.           *)
(***************************************************************************)
EXTENDS SlotWord, Sequences, FiniteSets

CONSTANTS
  Slot,         (* the slot indexes of the arena                            *)
  Thread,       (* the host threads                                         *)
  None,         (* the token 0 of the bound word, an unheld lock, no slot   *)
  BatchSize,    (* DispatchLimits::batch                                    *)
  MaxPins,      (* MAX_PINS: the pins one thread may hold                   *)
  CallOps,      (* the calls host threads make                              *)
  MaxRequests,  (* bound: requests allocated                                *)
  MaxEpoch,     (* bound: the newest epoch published                        *)
  MaxEra        (* bound: one more than the stops and detaches of targets   *)

Calls == {"view", "values", "read", "pinned_read", "write", "body_alloc", "complete"}

(* MaxRequests is at most GenMask: no generation of a slot comes round     *)
(* within the horizon, which the 30 bits of a SlotId make 2^30 requests.   *)
ASSUME LeaseAssumption ==
  /\ IsFiniteSet(Slot)
  /\ IsFiniteSet(Thread)
  /\ None \notin Thread \cup Slot
  /\ CallOps \subseteq Calls
  /\ {BatchSize, MaxEra} \subseteq Nat \ {0}
  /\ MaxPins \in Nat
  /\ MaxRequests \in 0..GenMask
  /\ MaxEpoch \in Nat
  /\ Cardinality(Thread) <= MaxReaders

Gen == 0..GenMask
Epoch == 0..MaxEpoch
Id == [slot: Slot, gen: Gen]
NoId == [slot |-> None, gen |-> 0]
Cleared == GenMask + 1          (* the payload of a released slot           *)
Content == 0..Cleared           (* the generation a payload was written for *)

NoTarget == 0
Era == 1..MaxEra

(* A future's waiter: its slot's generation and how far it got.            *)
(* "waiting": outcome None; "sealed", "gone": the outcome the dispatcher   *)
(* recorded; "importing": after begin_import; "taken": the response moved  *)
(* out, the slot not yet retired.                                          *)
Waiter == [gen: Gen, at: {"none", "waiting", "sealed", "gone", "importing", "taken"}]

Ops == {"none"} \cup Calls
Steps == {"start", "bound", "detaching", "epoch", "acked", "read_view", "snapshot",
          "recheck", "lock", "locked", "inside", "check", "apply", "apply_id"}

(* The call a host thread is in: what it does, the step it takes next, the *)
(* id it was given, the era it loaded the bound word in (0 on the pin path *)
(* of the view rule), the epoch it loaded or acknowledges, and what its    *)
(* snapshot saw.                                                           *)
Call == [op: Ops, at: Steps, id: Id \cup {NoId}, era: {0} \cup Era, epoch: Epoch, snap: Content]

(* A pointer into a slot a host thread may still read: era is that of the  *)
(* rule it was handed out under, 0 when only a pin protects it.            *)
View == [thread: Thread, id: Id, era: {0} \cup Era, epoch: Epoch]

VARIABLES
  word,         (* Slot.word                                                *)
  lease_epoch,  (* Slot.lease_epoch                                         *)
  payload,      (* the generation the payload and the view were written for *)
  lock,         (* the host thread that holds the payload's lock            *)
  staged,       (* whether a body region is open in the exchange            *)
  published,    (* Intake.published                                         *)
  acked,        (* Intake.acked: the acknowledgment floor                   *)
  bound,        (* Intake.bound                                             *)
  detaching,    (* Intake.detaching                                         *)
  inbox,        (* Inbox.completed, attach, detach                          *)
  free,         (* Allocator.warm and cold together                         *)
  quarantine,   (* Allocator.quarantine: <<index, stamp>>, oldest first     *)
  requests,     (* how many requests were allocated                         *)
  ready,        (* Dispatcher.ready                                         *)
  posting,      (* Dispatcher.posting                                       *)
  late,         (* the Retire entries of Dispatcher.late                    *)
  target,       (* Dispatcher.target, by the era it was attached in         *)
  waiter,       (* WaiterTable.entries                                      *)
  wpc,          (* the phase of the worker's turn                           *)
  taking,       (* Change.attach while a detach is applied                  *)
  floor,        (* the floor the worker loaded for a release                *)
  attached,     (* WorkerShared.target: "no", "live" or "stopped"           *)
  era,          (* counts the steps that end a target: its stop, its detach *)
  seen,         (* ids hosts received, with the epoch of their batch        *)
  delivered,    (* the newest epoch a target took                           *)
  pins,         (* each thread's pin table                                  *)
  regions,      (* the ids each thread holds an open body region of         *)
  views,        (* the pointers host threads may still read                 *)
  call          (* the call each host thread is in                          *)

arenaVars  == <<word, lease_epoch, payload, lock, staged>>
intakeVars == <<published, acked, bound, detaching, inbox>>
allocVars  == <<free, quarantine, requests>>
queueVars  == <<ready, posting, late, target, waiter>>
turnVars   == <<wpc, taking, floor>>
targetVars == <<attached, era, seen, delivered>>
threadVars == <<pins, regions, views, call>>
vars == <<word, lease_epoch, payload, lock, staged, published, acked, bound, detaching,
          inbox, free, quarantine, requests, ready, posting, late, target, waiter, wpc,
          taking, floor, attached, era, seen, delivered, pins, regions, views, call>>

Phases == {"idle", "lose", "lose_jobs", "settle", "floor", "release", "late", "post",
           "fill", "offer", "gone", "gone_jobs", "settle_gone", "exhausted"}

ArenaOK ==
  /\ word \in [Slot -> Word]
  /\ lease_epoch \in [Slot -> Epoch]
  /\ payload \in [Slot -> Content]
  /\ lock \in [Slot -> Thread \cup {None}]
  /\ staged \in [Slot -> BOOLEAN]

IntakeOK ==
  /\ published \in Epoch
  /\ acked \in Epoch
  /\ bound \in Thread \cup {None}
  /\ detaching \in BOOLEAN
  /\ inbox \in [completed: SUBSET Id, attach: {NoTarget} \cup Era, detach: BOOLEAN]

AllocOK ==
  /\ free \in SUBSET Slot
  /\ quarantine \in Seq(Slot \X Epoch)
  /\ requests \in 0..MaxRequests

QueueOK ==
  /\ ready \in Seq(Id)
  /\ posting \in Seq(Id)
  /\ late \in SUBSET Id
  /\ target \in {NoTarget} \cup Era
  /\ waiter \in [Slot -> Waiter]

TurnOK ==
  /\ wpc \in Phases
  /\ taking \in {NoTarget} \cup Era
  /\ floor \in Epoch

TargetOK ==
  /\ attached \in {"no", "live", "stopped"}
  /\ era \in Era
  /\ seen \in SUBSET (Id \X Epoch)
  /\ delivered \in Epoch

ThreadOK ==
  /\ pins \in [Thread -> SUBSET Id]
  /\ regions \in [Thread -> SUBSET Id]
  /\ views \in SUBSET View
  /\ call \in [Thread -> Call]

TypeOK == ArenaOK /\ IntakeOK /\ AllocOK /\ QueueOK /\ TurnOK /\ TargetOK /\ ThreadOK

NoCall == [op |-> "none", at |-> "start", id |-> NoId, era |-> 0, epoch |-> 0, snap |-> 0]
NoWaiter == [gen |-> 0, at |-> "none"]

Init ==
  /\ word = [i \in Slot |-> NewWord]
  /\ lease_epoch = [i \in Slot |-> 0]
  /\ payload = [i \in Slot |-> Cleared]
  /\ lock = [i \in Slot |-> None]
  /\ staged = [i \in Slot |-> FALSE]
  /\ published = 0 /\ acked = 0 /\ bound = None /\ detaching = FALSE
  /\ inbox = [completed |-> {}, attach |-> NoTarget, detach |-> FALSE]
  /\ free = Slot /\ quarantine = <<>> /\ requests = 0
  /\ ready = <<>> /\ posting = <<>> /\ late = {} /\ target = NoTarget
  /\ waiter = [i \in Slot |-> NoWaiter]
  /\ wpc = "idle" /\ taking = NoTarget /\ floor = 0
  /\ attached = "no" /\ era = 1 /\ seen = {} /\ delivered = 0
  /\ pins = [t \in Thread |-> {}]
  /\ regions = [t \in Thread |-> {}]
  /\ views = {}
  /\ call = [t \in Thread |-> NoCall]

IdOf(i) == [slot |-> i, gen |-> word[i].gen]
Waiting(id) == waiter[id.slot].at = "waiting" /\ waiter[id.slot].gen = id.gen

-----------------------------------------------------------------------------
(* The worker between two turns: the futures of requests.                  *)

(* claim, export and hold of a free slot whose lock no host holds, all     *)
(* under that lock, and the push of the job (dispatch in lease.rs).        *)
Claim(i, w, shelf, content) ==
  /\ i \in shelf
  /\ lock[i] = None
  /\ CanClaim(w[i], w[i].gen)
  /\ CanHold(claim(w[i]), w[i].gen)
  /\ requests < MaxRequests
  /\ requests' = requests + 1
  /\ free' = shelf \ {i}
  /\ word' = [w EXCEPT ![i] = hold(claim(@))]
  /\ payload' = [content EXCEPT ![i] = w[i].gen]
  /\ staged' = [staged EXCEPT ![i] = FALSE]
  /\ waiter' = [waiter EXCEPT ![i] = [gen |-> w[i].gen, at |-> "waiting"]]
  /\ ready' = Append(ready, [slot |-> i, gen |-> w[i].gen])

(* An admitted request takes a free index.                                 *)
Allocate(i) ==
  /\ wpc = "idle" /\ target # NoTarget
  /\ Claim(i, word, free, payload)
  /\ UNCHANGED <<lease_epoch, lock, intakeVars, quarantine, posting, late, target,
                 turnVars, targetVars, threadVars>>

(* With no free index, CoreHost::allocate loads the floor, releases the    *)
(* quarantine up to it and tries again.                                    *)
AllocateExhausted ==
  /\ wpc = "idle" /\ target # NoTarget
  /\ requests < MaxRequests
  /\ \A i \in free : lock[i] # None
  /\ floor' = acked
  /\ wpc' = "exhausted"
  /\ UNCHANGED <<arenaVars, intakeVars, allocVars, queueVars, taking, targetVars, threadVars>>

(* Allocator::release pops the quarantine's front while its stamp is at    *)
(* most the floor; a popped payload is cleared unless a host holds its     *)
(* lock, and its index is free again.                                      *)
Releasable(n) ==
  /\ \A k \in 1..n : quarantine[k][2] <= floor
  /\ n < Len(quarantine) => quarantine[n + 1][2] > floor
Popped(n) == {quarantine[k][1] : k \in 1..n}
Released(n) == free \cup Popped(n)
ReleasedPayloadUnlocked(n) ==
  [i \in Slot |-> IF i \in Popped(n) THEN Cleared ELSE payload[i]]
ReleasedPayload(n) ==
  [i \in Slot |-> IF i \in Popped(n) /\ lock[i] = None THEN Cleared ELSE payload[i]]

ReleaseAndAllocate ==
  /\ wpc = "exhausted"
  /\ \E n \in 0..Len(quarantine) :
       /\ Releasable(n)
       /\ quarantine' = SubSeq(quarantine, n + 1, Len(quarantine))
       /\ \/ \E i \in Slot : Claim(i, word, Released(n), ReleasedPayload(n))
          \/ /\ \A i \in Released(n) : lock[i] # None       (* answered 503 *)
             /\ free' = Released(n)
             /\ payload' = ReleasedPayload(n)
             /\ UNCHANGED <<word, staged, waiter, ready, requests>>
  /\ wpc' = "idle" /\ floor' = 0
  /\ UNCHANGED <<lease_epoch, lock, intakeVars, posting, late, target, taking,
                 targetVars, threadVars>>

(* The stamp of a retirement: the newest posted epoch.                     *)
StampAcked == acked
Stamp == published

(* The late list with one more slot to retire.                             *)
DeferredNone(id) == late
Deferred(id) == late \cup {id}

(* Allocator::retire stamped with the newest posted epoch, over the words  *)
(* w the caller may have closed first; a pinned slot goes on the late list *)
(* and any other refusal changes nothing.                                  *)
RetireOrDefer(w, id) ==
  \/ /\ CanRetire(w[id.slot], id.gen)
     /\ word' = [w EXCEPT ![id.slot] = retire(@)]
     /\ quarantine' = Append(quarantine, <<id.slot, Stamp>>)
     /\ late' = late \ {id}
  \/ /\ check(w[id.slot], id.gen, RetireStates) /\ w[id.slot].readers > 0
     /\ word' = w
     /\ late' = Deferred(id)
     /\ UNCHANGED quarantine
  \/ /\ ~check(w[id.slot], id.gen, RetireStates)
     /\ word' = w
     /\ late' = late \ {id}
     /\ UNCHANGED quarantine

(* LeaseGuard::close, by the slot's state.                                 *)
Closed(id) ==
  [word EXCEPT ![id.slot] =
     CASE CanCloseLeased(@, id.gen) -> close_leased(@)
       [] CanClose(@, id.gen)       -> close(@)
       [] OTHER                     -> @]

(* The close of close_and_retire: only a lease a dropped future left.      *)
LeaseClosed(id) ==
  [word EXCEPT ![id.slot] = IF CanCloseLeased(@, id.gen) THEN close_leased(@) ELSE @]

(* LeaseGuard::retire: close, stop waiting, retire or defer.               *)
GuardRetire(i) ==
  LET id == [slot |-> i, gen |-> waiter[i].gen]
  IN  /\ RetireOrDefer(Closed(id), id)
      /\ waiter' = [waiter EXCEPT ![i] = NoWaiter]

GuardFrame == UNCHANGED <<lease_epoch, payload, lock, staged, intakeVars, free, requests,
                          ready, posting, target, turnVars, targetVars, threadVars>>

(* The wait ended with TargetGone: answered 503, the slot retired.         *)
FutureGone(i) ==
  /\ wpc = "idle" /\ waiter[i].at = "gone"
  /\ GuardRetire(i)
  /\ GuardFrame

(* The connection went away: the future is dropped wherever it waits.      *)
DropFuture(i) ==
  /\ wpc = "idle" /\ waiter[i].at \in {"waiting", "sealed", "gone", "importing"}
  /\ GuardRetire(i)
  /\ GuardFrame

(* The host completed the slot: begin_import, or a lease already lost.     *)
ImportBegin(i) ==
  /\ wpc = "idle" /\ waiter[i].at = "sealed"
  /\ \/ /\ CanBeginImport(word[i], waiter[i].gen)
        /\ word' = [word EXCEPT ![i] = begin_import(@)]
        /\ waiter' = [waiter EXCEPT ![i].at = "importing"]
        /\ UNCHANGED <<quarantine, late>>
     \/ /\ ~CanBeginImport(word[i], waiter[i].gen)
        /\ GuardRetire(i)
  /\ GuardFrame

(* A staged body is left alone while any pin is counted in.                *)
MayTakeAny(i) == TRUE
MayTake(i) == ~(staged[i] /\ word[i].readers > 0)

(* with_worker: the lock is taken without waiting.                         *)
ImportTake(i) ==
  /\ wpc = "idle" /\ waiter[i].at = "importing"
  /\ lock[i] = None
  /\ check(word[i], waiter[i].gen, RetireStates)
  /\ MayTake(i)
  /\ staged' = [staged EXCEPT ![i] = FALSE]
  /\ waiter' = [waiter EXCEPT ![i].at = "taken"]
  /\ UNCHANGED <<word, lease_epoch, payload, lock, intakeVars, allocVars, ready, posting,
                 late, target, turnVars, targetVars, threadVars>>

(* The response is taken: the slot retires.                                *)
ImportRetire(i) ==
  /\ wpc = "idle" /\ waiter[i].at = "taken"
  /\ GuardRetire(i)
  /\ GuardFrame

-----------------------------------------------------------------------------
(* The worker's turn.                                                      *)

(* Intake::drain, then a wake for every completed id whose future waits.   *)
Drain ==
  /\ wpc = "idle"
  /\ waiter' = [i \in Slot |->
       IF Waiting([slot |-> i, gen |-> waiter[i].gen])
          /\ [slot |-> i, gen |-> waiter[i].gen] \in inbox.completed
       THEN [waiter[i] EXCEPT !.at = "sealed"] ELSE waiter[i]]
  /\ inbox' = [completed |-> {}, attach |-> NoTarget, detach |-> FALSE]
  /\ IF inbox.detach
     THEN wpc' = "lose" /\ taking' = inbox.attach /\ UNCHANGED target
     ELSE /\ wpc' = "floor"
          /\ target' = IF inbox.attach = NoTarget THEN target ELSE inbox.attach
          /\ UNCHANGED taking
  /\ UNCHANGED <<arenaVars, published, acked, bound, detaching, allocVars, ready, posting,
                 late, floor, targetVars, threadVars>>

(* lose_target: the lease of every future that still waits is closed and   *)
(* the future failed.                                                      *)
LoseLeases ==
  LET lost == {i \in Slot : CanCloseLeased(word[i], word[i].gen) /\ Waiting(IdOf(i))}
  IN  /\ wpc \in {"lose", "gone"}
      /\ target' = NoTarget
      /\ word' = [i \in Slot |-> IF i \in lost THEN close_leased(word[i]) ELSE word[i]]
      /\ waiter' = [i \in Slot |->
                     IF i \in lost THEN [waiter[i] EXCEPT !.at = "gone"] ELSE waiter[i]]
      /\ wpc' = IF wpc = "lose" THEN "lose_jobs" ELSE "gone_jobs"
      /\ UNCHANGED <<lease_epoch, payload, lock, staged, intakeVars, allocVars, ready,
                     posting, late, taking, floor, targetVars, threadVars>>

(* lose_target: a queued job whose future waits fails, any other retires.  *)
LoseJob ==
  /\ wpc \in {"lose_jobs", "gone_jobs"}
  /\ ready # <<>>
  /\ ready' = Tail(ready)
  /\ \/ /\ Waiting(Head(ready))
        /\ waiter' = [waiter EXCEPT ![Head(ready).slot].at = "gone"]
        /\ UNCHANGED <<word, quarantine, late>>
     \/ /\ ~Waiting(Head(ready))
        /\ RetireOrDefer(LeaseClosed(Head(ready)), Head(ready))
        /\ UNCHANGED waiter
  /\ UNCHANGED <<lease_epoch, payload, lock, staged, intakeVars, free, requests, posting,
                 target, turnVars, targetVars, threadVars>>

(* Intake::settle, under the inbox lock: every posted epoch counts as      *)
(* acknowledged; a detach made since stays pending, and so do its          *)
(* detaching flag and any binding made after it.                           *)
settlePastPublished(unbind) ==
  /\ acked' = published + 1
  /\ detaching' = (detaching /\ inbox.detach)
  /\ bound' = IF unbind /\ ~inbox.detach THEN None ELSE bound
settle(unbind) ==
  /\ acked' = published
  /\ detaching' = (detaching /\ inbox.detach)
  /\ bound' = IF unbind /\ ~inbox.detach THEN None ELSE bound

(* The end of lose_target for a detach, then the attachment drained with it*)
SettleDetached ==
  /\ wpc = "lose_jobs" /\ ready = <<>>
  /\ settle(FALSE)
  /\ target' = taking /\ taking' = NoTarget
  /\ wpc' = "floor"
  /\ UNCHANGED <<arenaVars, published, inbox, allocVars, ready, posting, late, waiter,
                 floor, targetVars, threadVars>>

(* The end of lose_target for a target that answered Gone: post returns.   *)
SettleGone ==
  /\ wpc = "gone_jobs" /\ ready = <<>>
  /\ settle(TRUE)
  /\ wpc' = "idle"
  /\ UNCHANGED <<arenaVars, published, inbox, allocVars, queueVars, taking, floor,
                 targetVars, threadVars>>

(* take_intake loads the floor once, for the ring and for the release.     *)
LoadFloor ==
  /\ wpc = "floor"
  /\ floor' = acked
  /\ wpc' = "release"
  /\ UNCHANGED <<arenaVars, intakeVars, allocVars, queueVars, taking, targetVars, threadVars>>

Release ==
  /\ wpc = "release"
  /\ \E n \in 0..Len(quarantine) :
       /\ Releasable(n)
       /\ quarantine' = SubSeq(quarantine, n + 1, Len(quarantine))
       /\ free' = Released(n)
       /\ payload' = ReleasedPayload(n)
  /\ wpc' = "late" /\ floor' = 0
  /\ UNCHANGED <<word, lease_epoch, lock, staged, intakeVars, requests, queueVars, taking,
                 targetVars, threadVars>>

(* poll_late: a due Retire entry closes what a dropped future left leased  *)
(* and retires, or stays while a pin is counted in.                        *)
LateRetire(id) ==
  /\ wpc = "late" /\ id \in late
  /\ RetireOrDefer(LeaseClosed(id), id)
  /\ UNCHANGED <<lease_epoch, payload, lock, staged, intakeVars, free, requests, ready,
                 posting, target, waiter, turnVars, targetVars, threadVars>>

(* post goes on to the next batch, or the turn ends: nothing is queued, or *)
(* a bound, a busy ring or an earlier refusal holds the queue back.        *)
PostNext ==
  /\ wpc \in {"late", "post"}
  /\ \/ wpc' = "idle"
     \/ target # NoTarget /\ ready # <<>> /\ published < MaxEpoch /\ wpc' = "fill"
  /\ UNCHANGED <<arenaVars, intakeVars, allocVars, queueVars, taking, floor, targetVars,
                 threadVars>>

(* fill_requests, one job at a time: leased to the epoch about to be       *)
(* published, or retired and skipped when its lease is refused.            *)
FillJob ==
  /\ wpc = "fill"
  /\ ready # <<>> /\ Len(posting) < BatchSize
  /\ ready' = Tail(ready)
  /\ LET job == Head(ready)
     IN  \/ /\ CanLease(word[job.slot], job.gen)
            /\ word' = [word EXCEPT ![job.slot] = lease(@)]
            /\ lease_epoch' = [lease_epoch EXCEPT ![job.slot] = published + 1]
            /\ posting' = Append(posting, job)
            /\ UNCHANGED <<quarantine, late>>
         \/ /\ ~CanLease(word[job.slot], job.gen)
            /\ RetireOrDefer(LeaseClosed(job), job)
            /\ UNCHANGED <<lease_epoch, posting>>
  /\ UNCHANGED <<payload, lock, staged, intakeVars, free, requests, target, waiter,
                 turnVars, targetVars, threadVars>>

(* Every job of the batch was refused: post goes round its loop.           *)
FillEmpty ==
  /\ wpc = "fill"
  /\ ready = <<>> /\ posting = <<>>
  /\ wpc' = "post"
  /\ UNCHANGED <<arenaVars, intakeVars, allocVars, queueVars, taking, floor, targetVars,
                 threadVars>>

(* The batch is filled: its epoch is stored before it is posted.           *)
Publish ==
  /\ wpc = "fill" /\ posting # <<>>
  /\ ready = <<>> \/ Len(posting) = BatchSize
  /\ published' = published + 1
  /\ wpc' = "offer"
  /\ UNCHANGED <<arenaVars, acked, bound, detaching, inbox, allocVars, queueVars, taking,
                 floor, targetVars, threadVars>>

(* post picks a batch of events: they carry no slot, but take an epoch of  *)
(* their own (fill_events).                                                *)
PostEvents ==
  /\ wpc \in {"late", "post"}
  /\ target # NoTarget /\ published < MaxEpoch
  /\ published' = published + 1
  /\ wpc' = "offer"
  /\ UNCHANGED <<arenaVars, acked, bound, detaching, inbox, allocVars, queueVars, taking,
                 floor, targetVars, threadVars>>

Alive(tgt) == attached = "live" /\ tgt = era

(* The target took the batch: from now on a host may use its ids.          *)
OfferTaken ==
  /\ wpc = "offer" /\ Alive(target)
  /\ seen' = seen \cup {<<posting[k], published>> : k \in DOMAIN posting}
  /\ delivered' = published
  /\ posting' = <<>>
  /\ wpc' = "post"
  /\ UNCHANGED <<arenaVars, intakeVars, allocVars, ready, late, target, waiter, taking,
                 floor, attached, era, threadVars>>

(* The target refused the batch, with its queue full or gone: the epoch is *)
(* taken back, the jobs unleased and put back in front, in order.          *)
OfferRefused ==
  /\ wpc = "offer"
  /\ published' = published - 1
  /\ word' = [i \in Slot |->
       IF \E k \in DOMAIN posting : posting[k].slot = i /\ CanUnlease(word[i], posting[k].gen)
       THEN unlease(word[i]) ELSE word[i]]
  /\ ready' = posting \o ready
  /\ posting' = <<>>
  /\ wpc' = IF Alive(target) THEN "idle" ELSE "gone"
  /\ UNCHANGED <<lease_epoch, payload, lock, staged, acked, bound, detaching, inbox,
                 allocVars, late, target, waiter, taking, floor, targetVars, threadVars>>

-----------------------------------------------------------------------------
(* Host threads: targets and bindings.                                     *)

threadFrame == UNCHANGED <<allocVars, queueVars, turnVars>>

(* The views a thread may no longer read once P ends their rule: the ones  *)
(* it also pinned stay, protected by the pin alone.                        *)
RuleEnded(P(_)) ==
  {v \in views : v.era = 0 \/ ~P(v)}
    \cup {[v EXCEPT !.era = 0] : v \in {w \in views : P(w) /\ w.id \in pins[w.thread]}}

EndEra ==
  /\ era < MaxEra
  /\ era' = era + 1
  /\ views' = RuleEnded(LAMBDA v : TRUE)

(* WorkerShared::claim_target: record the target, hand it to the worker.   *)
Attach ==
  /\ attached = "no" /\ era < MaxEra
  /\ attached' = "live"
  /\ inbox' = [inbox EXCEPT !.attach = era]
  /\ UNCHANGED <<arenaVars, published, acked, bound, detaching, era, seen, delivered, threadVars>>
  /\ threadFrame

(* PullTarget::stop, or a binding's own target that begins to answer Gone: *)
(* the host reads no view of it from here on.                              *)
TargetStops ==
  /\ attached = "live"
  /\ attached' = "stopped"
  /\ EndEra
  /\ UNCHANGED <<arenaVars, intakeVars, seen, delivered, pins, regions, call>>
  /\ threadFrame

(* WorkerShared::release_target: the target is stopped, then               *)
(* Intake::detach takes back an attachment the worker did not drain,       *)
(* leaves the detach, raises detaching and unbinds, under the inbox lock.  *)
Detach ==
  /\ attached # "no"
  /\ attached' = "no"
  /\ EndEra
  /\ inbox' = [inbox EXCEPT !.attach = NoTarget, !.detach = TRUE]
  /\ detaching' = TRUE
  /\ bound' = None
  /\ UNCHANGED <<arenaVars, published, acked, seen, delivered, pins, regions, call>>
  /\ threadFrame

Idle(t) == call[t].op = "none"
SeenIds == {s[1] : s \in seen}

(* Intake::bind_thread: a compare-and-swap from 0.                         *)
Bind(t) ==
  /\ Idle(t)
  /\ bound = None
  /\ bound' = t
  /\ UNCHANGED <<arenaVars, published, acked, detaching, inbox, targetVars, threadVars>>
  /\ threadFrame

-----------------------------------------------------------------------------
(* Host threads: pins.                                                     *)

(* access::pin: the count is taken, then the id recorded.                  *)
Pin(t, id) ==
  /\ Idle(t)
  /\ id \notin pins[t] /\ Cardinality(pins[t]) < MaxPins
  /\ CanPin(word[id.slot], id.gen)
  /\ word' = [word EXCEPT ![id.slot] = pin(@)]
  /\ pins' = [pins EXCEPT ![t] = @ \cup {id}]
  /\ UNCHANGED <<lease_epoch, payload, lock, staged, intakeVars, targetVars, regions, views, call>>
  /\ threadFrame

(* The view rule of access::view_allowed, without its pin.                 *)
Rule(t, i) ==
  /\ bound = t /\ ~detaching /\ attached # "stopped"
  /\ lease_epoch[i] > acked

(* access::unpin, and the release of a pin by an exiting thread.  A region *)
(* ends with the pin; a view stays when the rule covers it, since it lasts *)
(* until the later of the unpin and the acknowledgment.                    *)
Unpin(t, id) ==
  /\ Idle(t)
  /\ id \in pins[t]
  /\ pins' = [pins EXCEPT ![t] = @ \ {id}]
  /\ word' = [word EXCEPT ![id.slot] = IF CanUnpin(@, id.gen) THEN unpin(@) ELSE @]
  /\ regions' = [regions EXCEPT ![t] = @ \ {id}]
  /\ LET unpinned == {v \in views : v.thread = t /\ v.id = id /\ v.era = 0}
     IN  views' = (views \ unpinned)
           \cup (IF Rule(t, id.slot)
                 THEN {[v EXCEPT !.era = era, !.epoch = lease_epoch[id.slot]] : v \in unpinned}
                 ELSE {})
  /\ UNCHANGED <<lease_epoch, payload, lock, staged, intakeVars, targetVars, call>>
  /\ threadFrame

-----------------------------------------------------------------------------
(* Host threads: calls on a slot, one shared load per step.                *)

Goto(t, step) == call' = [call EXCEPT ![t].at = step]
Return(t) == call' = [call EXCEPT ![t] = NoCall]
At(t, step) == call[t].op # "none" /\ call[t].at = step
CallSlot(t) == call[t].id.slot
CallWord(t) == word[CallSlot(t)]
callFrame == UNCHANGED <<arenaVars, intakeVars, targetVars, pins, regions, allocVars,
                         queueVars, turnVars>>

(* The states a call accepts: a write needs the lease.                    *)
AccessStates(op) == IF op \in {"write", "body_alloc"} THEN {"Leased"} ELSE LEASED_OR_COMPLETING

(* The first check of a call and, for a view, the thread's own pin table.  *)
(* with_values and the locked calls have no view rule.                     *)
Begin(t, id, op) ==
  /\ Idle(t)
  /\ check(word[id.slot], id.gen, AccessStates(op))
  /\ op = "body_alloc" => id \in pins[t]
  /\ call' = [call EXCEPT ![t] =
       [op |-> op, id |-> id, era |-> 0, epoch |-> 0, snap |-> 0,
        at |-> CASE op \in {"view", "pinned_read"} /\ id \notin pins[t] -> "bound"
                 [] op = "values" \/ (op = "view" /\ id \in pins[t]) -> "read_view"
                 [] OTHER -> "lock"]]
  /\ UNCHANGED views
  /\ callFrame

(* view_allowed loads bound, detaching, lease_epoch and acked, in order.   *)
LoadBound(t) ==
  /\ At(t, "bound")
  /\ IF bound = t THEN call' = [call EXCEPT ![t] = [@ EXCEPT !.at = "detaching", !.era = era]]
                  ELSE Return(t)
  /\ UNCHANGED views
  /\ callFrame

LoadDetachingUnread(t) ==
  /\ At(t, "detaching")
  /\ Goto(t, "epoch")
  /\ UNCHANGED views
  /\ callFrame
LoadDetaching(t) ==
  /\ At(t, "detaching")
  /\ IF detaching THEN Return(t) ELSE Goto(t, "epoch")
  /\ UNCHANGED views
  /\ callFrame

LoadEpoch(t) ==
  /\ At(t, "epoch")
  /\ call' = [call EXCEPT ![t] = [@ EXCEPT !.at = "acked", !.epoch = lease_epoch[CallSlot(t)]]]
  /\ UNCHANGED views
  /\ callFrame

LoadAcked(t) ==
  /\ At(t, "acked")
  /\ IF call[t].epoch > acked
     THEN Goto(t, IF call[t].op = "view" THEN "read_view" ELSE "lock")
     ELSE Return(t)
  /\ UNCHANGED views
  /\ callFrame

(* Slot::read_view: check, snapshot, check.                                *)
ReadView(t) ==
  /\ At(t, "read_view")
  /\ IF check_lease(CallWord(t), call[t].id.gen) THEN Goto(t, "snapshot") ELSE Return(t)
  /\ UNCHANGED views
  /\ callFrame

Snapshot(t) ==
  /\ At(t, "snapshot")
  /\ call' = [call EXCEPT ![t] = [@ EXCEPT !.at = "recheck", !.snap = payload[CallSlot(t)]]]
  /\ UNCHANGED views
  /\ callFrame

(* A view or a pinned read hands out pointers: the thread may read them as *)
(* long as its pin, or the rule in the era it was bound in, lasts.         *)
HandOut(t) ==
  LET c == call[t]
      v == [thread |-> t, id |-> c.id, era |-> c.era, epoch |-> c.epoch]
  IN  views' = IF c.op \in {"view", "pinned_read"}
                  /\ (c.era = 0 \/ (c.era = era /\ attached # "stopped"))
               THEN views \cup {v} ELSE views

Recheck(t) ==
  /\ At(t, "recheck")
  /\ IF check_lease(CallWord(t), call[t].id.gen) THEN HandOut(t) ELSE UNCHANGED views
  /\ Return(t)
  /\ callFrame

(* Slot::with_read and with_write: check, lock, check again, run, unlock.  *)
Lock(t) ==
  /\ At(t, "lock")
  /\ IF check(CallWord(t), call[t].id.gen, AccessStates(call[t].op))
     THEN /\ lock[CallSlot(t)] = None
          /\ lock' = [lock EXCEPT ![CallSlot(t)] = t]
          /\ Goto(t, "locked")
     ELSE Return(t) /\ UNCHANGED lock
  /\ UNCHANGED <<word, lease_epoch, payload, staged, intakeVars, targetVars, pins, regions,
                 views>>
  /\ threadFrame

Locked(t) ==
  /\ At(t, "locked")
  /\ IF check(CallWord(t), call[t].id.gen, AccessStates(call[t].op))
     THEN Goto(t, "inside") /\ UNCHANGED lock
     ELSE Return(t) /\ lock' = [lock EXCEPT ![CallSlot(t)] = None]
  /\ UNCHANGED <<word, lease_epoch, payload, staged, intakeVars, targetVars, pins, regions,
                 views>>
  /\ threadFrame

(* What runs under the lock; body_alloc opens a region unless one is open. *)
Inside(t) ==
  /\ At(t, "inside")
  /\ IF call[t].op = "body_alloc" /\ ~staged[CallSlot(t)]
     THEN /\ staged' = [staged EXCEPT ![CallSlot(t)] = TRUE]
          /\ regions' = [regions EXCEPT ![t] = @ \cup {call[t].id}]
     ELSE UNCHANGED <<staged, regions>>
  /\ HandOut(t)
  /\ lock' = [lock EXCEPT ![CallSlot(t)] = None]
  /\ Return(t)
  /\ UNCHANGED <<word, lease_epoch, payload, intakeVars, targetVars, pins>>
  /\ threadFrame

-----------------------------------------------------------------------------
(* Host threads: target::complete of one id and, from the bound thread, an *)
(* acknowledgment of a batch it received.                                  *)

(* Only the thread bound to the target passes an epoch on.                 *)
AckFromAny(t, e) == e
AckFrom(t, e) == IF bound = t THEN e ELSE 0

CompleteBegin(t, id, e) ==
  /\ Idle(t)
  /\ call' = [call EXCEPT ![t] =
       [op |-> "complete", at |-> "check", id |-> id, era |-> 0, epoch |-> AckFrom(t, e),
        snap |-> 0]]
  /\ UNCHANGED views
  /\ callFrame

(* The id is checked with one load of its word, before any lock.           *)
CompleteCheck(t) ==
  /\ At(t, "check")
  /\ Goto(t, IF check_lease(CallWord(t), call[t].id.gen) THEN "apply_id" ELSE "apply")
  /\ UNCHANGED views
  /\ callFrame

(* Intake::acknowledge: the next epoch, already published.                 *)
AcknowledgesLater(e) == e > acked /\ e <= published
Acknowledges(e) == e = acked + 1 /\ e <= published

(* Intake::complete, under the inbox lock: the id is left for the worker,  *)
(* and the epoch is accepted if it is the next one and was published.      *)
CompleteApply(t) ==
  LET e == call[t].epoch
      accepted == e # 0 /\ Acknowledges(e)
  IN  /\ At(t, "apply") \/ At(t, "apply_id")
      /\ inbox' = IF call[t].at = "apply_id"
                  THEN [inbox EXCEPT !.completed = @ \cup {call[t].id}] ELSE inbox
      /\ acked' = IF accepted THEN e ELSE acked
      /\ views' = IF accepted THEN RuleEnded(LAMBDA v : v.thread = t /\ v.epoch <= e) ELSE views
      /\ Return(t)
      /\ UNCHANGED <<arenaVars, published, bound, detaching, targetVars, pins, regions>>
      /\ threadFrame

-----------------------------------------------------------------------------
Future == \E i \in Slot :
  \/ Allocate(i) \/ FutureGone(i) \/ DropFuture(i)
  \/ ImportBegin(i) \/ ImportTake(i) \/ ImportRetire(i)

Turn ==
  \/ AllocateExhausted \/ ReleaseAndAllocate
  \/ Drain \/ LoseLeases \/ LoseJob \/ SettleDetached \/ SettleGone
  \/ LoadFloor \/ Release \/ (\E id \in late : LateRetire(id)) 
  \/ PostNext \/ PostEvents \/ FillJob \/ FillEmpty \/ Publish \/ OfferTaken \/ OfferRefused

Host == \E t \in Thread :
  \/ Bind(t)
  \/ \E id \in SeenIds :
       \/ Pin(t, id) \/ Unpin(t, id)
       \/ \E op \in CallOps \ {"complete"} : Begin(t, id, op)
       \/ \E e \in {0} \cup (acked + 1)..delivered : "complete" \in CallOps /\ CompleteBegin(t, id, e)
  \/ LoadBound(t) \/ LoadDetaching(t) \/ LoadEpoch(t) \/ LoadAcked(t)
  \/ ReadView(t) \/ Snapshot(t) \/ Recheck(t)
  \/ Lock(t) \/ Locked(t) \/ Inside(t)
  \/ CompleteCheck(t) \/ CompleteApply(t)

Next == Future \/ Turn \/ Attach \/ TargetStops \/ Detach \/ Host

Spec == Init /\ [][Next]_vars
=============================================================================
