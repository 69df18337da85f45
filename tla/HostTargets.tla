----------------------------- MODULE HostTargets -----------------------------
(***************************************************************************)
(* Servers, the worker indexes they hold, the targets attached to those    *)
(* indexes and the host threads that poll them (crates/zero-host           *)
(* registry.rs, target.rs and the lifecycle of server.rs).                 *)
(*                                                                         *)
(* A worker index outlives every server: the next server to claim it finds *)
(* its Intake and its target cell as the last one left them.  A call that  *)
(* takes several locks is several steps: the loop of finish, the loop of   *)
(* PullTarget::detach and the binding of a first poll, which holds the     *)
(* queue's lock.  release_target is one step: between its stop and its     *)
(* detach a poll finds the target gone, a bind_thread is undone, and an    *)
(* attach waits for the cell's lock.  SlotLease splits that step for what  *)
(* it means to views.                                                      *)
(***************************************************************************)
EXTENDS Naturals, Sequences, FiniteSets, SequencesExt

CONSTANTS
  Server,     (* servers that may be created, in any order                  *)
  Thread,     (* host threads                                               *)
  Pull,       (* pull targets, numbered by serial in their order            *)
  Indexes,    (* how many worker indexes the pool has                       *)
  MaxBatches  (* PullTarget.capacity: batches waiting in one pull target    *)

None == "none"
Own  == "own"   (* the target a binding supplies                            *)

ASSUME TargetsAssumption ==
  /\ Indexes \in Nat \ {0} /\ MaxBatches \in Nat \ {0}
  /\ IsFiniteSet(Server) /\ IsFiniteSet(Thread) /\ IsFiniteSet(Pull)
  /\ None \notin Server \cup Thread \cup Pull /\ Own \notin Pull

Index == 1..Indexes

VARIABLES
  holder,     (* CLAIMED: the server that holds each index, or None         *)
  lifecycle,  (* each server's Lifecycle, "New" before it is created        *)
  stop,       (* Starting.stop                                              *)
  draining,   (* the shutdown of a running server was requested             *)
  finishing,  (* what finish has still to release, in order                 *)
  indexes,    (* the indexes a server claimed                               *)
  attached,   (* WorkerShared.target of each index                          *)
  bound,      (* Intake.bound of each index                                 *)
  serves,     (* the indexes a pull target serves, <<>> before it exists    *)
  queue,      (* PullTarget.queue, with the thread that holds its lock      *)
  owner,      (* PullTarget.bound                                           *)
  leaving,    (* what PullTarget::detach has still to release, in order     *)
  poll        (* each thread's poll, with the indexes it bound              *)

poolVars   == <<holder, indexes>>
serverVars == <<lifecycle, stop, draining, finishing>>
indexVars  == <<attached, bound>>
pullVars   == <<serves, queue, owner, leaving>>
vars == <<holder, lifecycle, stop, draining, finishing, indexes, attached, bound,
          serves, queue, owner, leaving, poll>>

NoPoll == [at |-> "idle", target |-> None, todo |-> <<>>, took |-> {}]

Init ==
  /\ holder = [w \in Index |-> None] /\ indexes = [s \in Server |-> <<>>]
  /\ lifecycle = [s \in Server |-> "New"] /\ stop = [s \in Server |-> FALSE]
  /\ draining = [s \in Server |-> FALSE] /\ finishing = [s \in Server |-> <<>>]
  /\ attached = [w \in Index |-> None] /\ bound = [w \in Index |-> None]
  /\ serves = [p \in Pull |-> <<>>] /\ owner = [p \in Pull |-> None]
  /\ queue = [p \in Pull |-> [batches |-> 0, woken |-> FALSE, gone |-> FALSE, lock |-> None]]
  /\ leaving = [p \in Pull |-> <<>>]
  /\ poll = [t \in Thread |-> NoPoll]

-----------------------------------------------------------------------------
(* The pool and the life of a server.                                      *)

(* registry::claim takes the lowest free indexes, in their order.          *)
FreeIndexes == {w \in Index : holder[w] = None}
LowestFirst(claimed) ==
  /\ \A i, j \in DOMAIN claimed : i < j => claimed[i] < claimed[j]
  /\ \A w \in FreeIndexes \ ToSet(claimed) : \A i \in DOMAIN claimed : claimed[i] < w
NewServer(s) ==
  /\ lifecycle[s] = "New"
  /\ \E count \in Index : \E claimed \in [1..count -> FreeIndexes] :
       /\ LowestFirst(claimed)
       /\ holder' = [w \in Index |-> IF w \in ToSet(claimed) THEN s ELSE holder[w]]
       /\ indexes' = [indexes EXCEPT ![s] = claimed]
  /\ lifecycle' = [lifecycle EXCEPT ![s] = "Ready"]
  /\ UNCHANGED <<stop, draining, finishing, indexVars, pullVars, poll>>

Start(s) ==
  /\ lifecycle[s] = "Ready"
  /\ lifecycle' = [lifecycle EXCEPT ![s] = "Starting"]
  /\ stop' = [stop EXCEPT ![s] = FALSE]
  /\ UNCHANGED <<poolVars, draining, finishing, indexVars, pullVars, poll>>

(* finish begins once the server is marked stopping.                       *)
Finishing(s) ==
  /\ lifecycle' = [lifecycle EXCEPT ![s] = "Stopping"]
  /\ finishing' = [finishing EXCEPT ![s] = indexes[s]]

(* started: a shutdown that came meanwhile is requested now.               *)
StartedForgets(s) ==
  /\ lifecycle[s] = "Starting"
  /\ lifecycle' = [lifecycle EXCEPT ![s] = "Running"]
  /\ UNCHANGED <<poolVars, stop, draining, finishing, indexVars, pullVars, poll>>
Started(s) ==
  /\ lifecycle[s] = "Starting"
  /\ lifecycle' = [lifecycle EXCEPT ![s] = "Running"]
  /\ draining' = [draining EXCEPT ![s] = stop[s]]
  /\ UNCHANGED <<poolVars, stop, finishing, indexVars, pullVars, poll>>

(* not_started: ready again with its targets, or stopped.                  *)
NotStarted(s) ==
  /\ lifecycle[s] = "Starting"
  /\ IF stop[s] THEN Finishing(s)
     ELSE lifecycle' = [lifecycle EXCEPT ![s] = "Ready"] /\ UNCHANGED finishing
  /\ UNCHANGED <<poolVars, stop, draining, indexVars, pullVars, poll>>

(* request_stop, by a call or by the last handle dropped.                  *)
Shutdown(s) ==
  /\ \/ lifecycle[s] = "Ready" /\ Finishing(s) /\ UNCHANGED <<stop, draining>>
     \/ /\ lifecycle[s] = "Starting"
        /\ stop' = [stop EXCEPT ![s] = TRUE]
        /\ UNCHANGED <<lifecycle, finishing, draining>>
     \/ /\ lifecycle[s] = "Running"
        /\ draining' = [draining EXCEPT ![s] = TRUE]
        /\ UNCHANGED <<lifecycle, finishing, stop>>
  /\ UNCHANGED <<poolVars, indexVars, pullVars, poll>>

(* reap: the cores ended.                                                  *)
Reap(s) ==
  /\ lifecycle[s] = "Running" /\ draining[s]
  /\ Finishing(s)
  /\ UNCHANGED <<poolVars, stop, draining, indexVars, pullVars, poll>>

-----------------------------------------------------------------------------
(* Targets of an index.                                                    *)

IsPull(p) == p \in Pull
Open(s) == lifecycle[s] \in {"Ready", "Starting", "Running"}

(* PullTarget::stop on one or no target: its waiting poll is notified.     *)
Notified(t, p) == poll[t].target = p /\ poll[t].at = "wait"
StopQuietly(p) ==
  /\ IsPull(p) => queue[p].lock = None
  /\ queue' = IF ~IsPull(p) THEN queue
              ELSE [queue EXCEPT ![p] = [@ EXCEPT !.gone = TRUE, !.batches = 0]]
  /\ UNCHANGED poll
StopTarget(p) ==
  /\ IsPull(p) => queue[p].lock = None
  /\ queue' = IF ~IsPull(p) THEN queue
              ELSE [queue EXCEPT ![p] = [@ EXCEPT !.gone = TRUE, !.batches = 0]]
  /\ poll' = [t \in Thread |-> IF Notified(t, p) THEN [poll[t] EXCEPT !.at = "lock"] ELSE poll[t]]

(* release_target on an index whose target is known, and Intake::detach.   *)
ReleaseIndex(w) ==
  /\ StopTarget(attached[w])
  /\ attached' = [attached EXCEPT ![w] = None]
  /\ bound' = [bound EXCEPT ![w] = None]

(* attach_pull for one index or for all: under the server's lock no other  *)
(* attach runs, so indexes that were checked free are claimed.             *)
AttachPull(s, p) ==
  /\ Open(s) /\ serves[p] = <<>>
  /\ \E workers \in {indexes[s]} \cup {<<w>> : w \in ToSet(indexes[s])} :
       /\ \A w \in ToSet(workers) : attached[w] = None
       /\ attached' = [w \in Index |-> IF w \in ToSet(workers) THEN p ELSE attached[w]]
       /\ serves' = [serves EXCEPT ![p] = workers]
  /\ UNCHANGED <<poolVars, serverVars, bound, queue, owner, leaving, poll>>

(* attach of a binding's own target.                                       *)
AttachOwn(s) ==
  /\ Open(s)
  /\ \E w \in ToSet(indexes[s]) :
       attached[w] = None /\ attached' = [attached EXCEPT ![w] = Own]
  /\ UNCHANGED <<poolVars, serverVars, bound, pullVars, poll>>

(* Server::detach of one index; a pull target then detaches from the rest, *)
(* as in the host's own PullTarget::detach, which no lock of the server    *)
(* excludes from anything.                                                 *)
Detach(s) ==
  /\ Open(s)
  /\ \E w \in ToSet(indexes[s]) :
       /\ attached[w] # None
       /\ ReleaseIndex(w)
       /\ leaving' = IF IsPull(attached[w])
                     THEN [leaving EXCEPT ![attached[w]] = serves[attached[w]]] ELSE leaving
  /\ UNCHANGED <<poolVars, serverVars, serves, owner>>

(* PullTarget::detach by the host, at any time.                            *)
DetachPull(p) ==
  /\ serves[p] # <<>> /\ ~queue[p].gone
  /\ StopTarget(p)
  /\ leaving' = [leaving EXCEPT ![p] = serves[p]]
  /\ UNCHANGED <<poolVars, serverVars, indexVars, serves, owner>>

(* One turn of its loop: release_target(Some(serial)) leaves another       *)
(* target alone.                                                           *)
DetachNextAny(p) ==
  /\ leaving[p] # <<>>
  /\ ReleaseIndex(Head(leaving[p]))
  /\ leaving' = [leaving EXCEPT ![p] = Tail(@)]
  /\ UNCHANGED <<poolVars, serverVars, serves, owner>>
DetachNext(p) ==
  /\ leaving[p] # <<>>
  /\ IF attached[Head(leaving[p])] = p THEN ReleaseIndex(Head(leaving[p]))
     ELSE UNCHANGED <<attached, bound, queue, poll>>
  /\ leaving' = [leaving EXCEPT ![p] = Tail(@)]
  /\ UNCHANGED <<poolVars, serverVars, serves, owner>>

(* One turn of finish, then the claim dropped.                             *)
FinishNext(s) ==
  /\ lifecycle[s] = "Stopping" /\ finishing[s] # <<>>
  /\ ReleaseIndex(Head(finishing[s]))
  /\ finishing' = [finishing EXCEPT ![s] = Tail(@)]
  /\ UNCHANGED <<poolVars, lifecycle, stop, draining, serves, owner, leaving>>

(* Claim::drop gives the indexes back, each with its thread unbound.       *)
UnboundDroppedNone(s) == bound
UnboundDropped(s) == [w \in Index |-> IF holder[w] = s THEN None ELSE bound[w]]
FinishEnd(s) ==
  /\ lifecycle[s] = "Stopping" /\ finishing[s] = <<>>
  /\ bound' = UnboundDropped(s)
  /\ holder' = [w \in Index |-> IF holder[w] = s THEN None ELSE holder[w]]
  /\ lifecycle' = [lifecycle EXCEPT ![s] = "Stopped"]
  /\ UNCHANGED <<indexes, stop, draining, finishing, attached, pullVars, poll>>

-----------------------------------------------------------------------------
(* Host threads and workers.                                               *)

(* bind_thread, for a binding with its own target, while a server holds    *)
(* the index.                                                              *)
BindThread(t, w) ==
  /\ poll[t].at = "idle"
  /\ holder[w] # None /\ bound[w] = None
  /\ bound' = [bound EXCEPT ![w] = t]
  /\ UNCHANGED <<poolVars, serverVars, attached, pullVars, poll>>

Locked(p, t) == [queue EXCEPT ![p] = [@ EXCEPT !.lock = t]]
Unlocked(p) == [queue EXCEPT ![p] = [@ EXCEPT !.lock = None]]
AtStep(t, step) == [poll EXCEPT ![t] = [@ EXCEPT !.at = step]]
Returns(t) == poll' = [poll EXCEPT ![t] = NoPoll]

(* poll: the queue's lock is taken; a detached target, a target bound to   *)
(* another thread or an index bound to another thread refuses it.          *)
IsOwner(t, p) == owner[p] = t
Elsewhere(t, p) == \E w \in ToSet(serves[p]) : bound[w] \notin {None, t}
PollBegin(t, p) ==
  /\ poll[t].at = "idle" /\ serves[p] # <<>>
  /\ queue[p].lock = None /\ ~queue[p].gone
  /\ \/ /\ IsOwner(t, p)
        /\ poll' = [poll EXCEPT ![t] = [@ EXCEPT !.at = "locked", !.target = p]]
     \/ /\ owner[p] = None /\ ~Elsewhere(t, p)
        /\ poll' = [poll EXCEPT ![t] =
                      [at |-> "bind", target |-> p, todo |-> serves[p], took |-> {}]]
  /\ queue' = Locked(p, t)
  /\ UNCHANGED <<poolVars, serverVars, indexVars, serves, owner, leaving>>

(* bind: one Intake::bind_thread for each index; a refusal returns.        *)
PollBind(t) ==
  LET p == poll[t].target
      w == Head(poll[t].todo)
  IN  /\ poll[t].at = "bind" /\ poll[t].todo # <<>>
      /\ IF bound[w] \in {None, t}
         THEN /\ bound' = [bound EXCEPT ![w] = t]
              /\ poll' = [poll EXCEPT ![t] =
                            [@ EXCEPT !.todo = Tail(poll[t].todo),
                                      !.took = poll[t].took \cup {v \in {w} : bound[v] # t}]]
              /\ UNCHANGED queue
         ELSE /\ poll' = AtStep(t, "refused")
              /\ queue' = Unlocked(p)
              /\ UNCHANGED bound
      /\ UNCHANGED <<poolVars, serverVars, attached, serves, owner, leaving>>

PollRefused(t) ==
  /\ poll[t].at = "refused"
  /\ Returns(t)
  /\ UNCHANGED <<poolVars, serverVars, indexVars, pullVars>>

PollBoundEarly(t) ==
  /\ poll[t].at = "bind"
  /\ owner' = [owner EXCEPT ![poll[t].target] = t]
  /\ poll' = [poll EXCEPT ![t] = [@ EXCEPT !.at = "locked", !.took = {}]]
  /\ UNCHANGED <<poolVars, serverVars, indexVars, serves, queue, leaving>>
PollBound(t) ==
  /\ poll[t].at = "bind" /\ poll[t].todo = <<>>
  /\ owner' = [owner EXCEPT ![poll[t].target] = t]
  /\ poll' = [poll EXCEPT ![t] = [@ EXCEPT !.at = "locked", !.took = {}]]
  /\ UNCHANGED <<poolVars, serverVars, indexVars, serves, queue, leaving>>

(* The loop of poll, under the lock: a detached target or a wake ends it,  *)
(* a batch is taken and returned, or found gone from the ring; else it     *)
(* waits, and gives the lock up.                                           *)
PollTakes(t) ==
  LET p == poll[t].target
  IN  /\ poll[t].at = "locked"
      /\ \/ queue[p].gone /\ queue' = Unlocked(p) /\ Returns(t)
         \/ /\ ~queue[p].gone /\ queue[p].woken
            /\ queue' = [queue EXCEPT ![p] = [@ EXCEPT !.woken = FALSE, !.lock = None]]
            /\ Returns(t)
         \/ /\ ~queue[p].gone /\ ~queue[p].woken /\ queue[p].batches > 0
            /\ queue' = [queue EXCEPT ![p] = [@ EXCEPT !.batches = queue[p].batches - 1, !.lock = None]]
            /\ Returns(t) \/ poll' = AtStep(t, "lock")
      /\ UNCHANGED <<poolVars, serverVars, indexVars, serves, owner, leaving>>

PollWaits(t) ==
  LET p == poll[t].target
  IN  /\ poll[t].at = "locked"
      /\ ~queue[p].gone /\ ~queue[p].woken /\ queue[p].batches = 0
      /\ queue' = Unlocked(p)
      /\ poll' = AtStep(t, "wait") \/ Returns(t)
      /\ UNCHANGED <<poolVars, serverVars, indexVars, serves, owner, leaving>>

(* The wait times out, or ends without reason.                             *)
PollTimesOut(t) ==
  /\ poll[t].at = "wait"
  /\ poll' = AtStep(t, "lock")
  /\ UNCHANGED <<poolVars, serverVars, indexVars, pullVars>>

(* A notified poll takes the lock again.                                   *)
PollRelocks(t) ==
  /\ poll[t].at = "lock" /\ queue[poll[t].target].lock = None
  /\ queue' = Locked(poll[t].target, t)
  /\ poll' = AtStep(t, "locked")
  /\ UNCHANGED <<poolVars, serverVars, indexVars, serves, owner, leaving>>

(* PullTarget::post by a worker that serves: notify_one.                   *)
NotifyOne(p) ==
  IF \E t \in Thread : Notified(t, p)
  THEN \E t \in Thread : Notified(t, p) /\ poll' = AtStep(t, "lock")
  ELSE UNCHANGED poll
HasRoom(p) == queue[p].batches < MaxBatches
Post(p) ==
  /\ \E w \in ToSet(serves[p]) :
       attached[w] = p /\ holder[w] # None /\ lifecycle[holder[w]] \in {"Starting", "Running"}
  /\ ~queue[p].gone /\ HasRoom(p) /\ queue[p].lock = None
  /\ queue' = [queue EXCEPT ![p] = [@ EXCEPT !.batches = queue[p].batches + 1]]
  /\ NotifyOne(p)
  /\ UNCHANGED <<poolVars, serverVars, indexVars, serves, owner, leaving>>

(* PullTarget::wake: notify_all.                                           *)
WakePull(p) ==
  /\ serves[p] # <<>> /\ queue[p].lock = None /\ ~queue[p].woken
  /\ queue' = [queue EXCEPT ![p] = [@ EXCEPT !.woken = TRUE]]
  /\ poll' = [t \in Thread |-> IF Notified(t, p) THEN [poll[t] EXCEPT !.at = "lock"] ELSE poll[t]]
  /\ UNCHANGED <<poolVars, serverVars, indexVars, serves, owner, leaving>>

-----------------------------------------------------------------------------
ServerStep(s) ==
  \/ NewServer(s) \/ Start(s) \/ Started(s) \/ NotStarted(s) \/ Shutdown(s) \/ Reap(s)
  \/ FinishNext(s) \/ FinishEnd(s)
  \/ AttachOwn(s) \/ Detach(s)
  \/ \E p \in Pull : AttachPull(s, p)

PullStep(p) == DetachPull(p) \/ DetachNext(p) \/ Post(p) \/ WakePull(p)

ThreadStep(t) ==
  \/ \E w \in Index : BindThread(t, w)
  \/ \E p \in Pull : PollBegin(t, p)
  \/ PollBind(t) \/ PollRefused(t) \/ PollBound(t) \/ PollTakes(t) \/ PollWaits(t)
  \/ PollTimesOut(t) \/ PollRelocks(t)

Next ==
  \/ \E s \in Server : ServerStep(s)
  \/ \E p \in Pull : PullStep(p)
  \/ \E t \in Thread : ThreadStep(t)

Spec == Init /\ [][Next]_vars

(* A call that began goes on: the starter, the reaper once the cores end,  *)
(* finish, a detach, and a poll that is not waiting.  A lock that keeps    *)
(* being released is taken in the end.  The steps that Going joins are     *)
(* those of different states of the server.                                *)
Going(s) == Started(s) \/ NotStarted(s) \/ Reap(s) \/ FinishEnd(s)
FairSpec ==
  /\ Spec
  /\ \A s \in Server : WF_vars(Going(s)) /\ SF_vars(FinishNext(s))
  /\ \A p \in Pull : SF_vars(DetachNext(p))
  /\ \A t \in Thread : WF_vars(PollBind(t) \/ PollRefused(t) \/ PollBound(t) \/ PollTakes(t) \/ PollWaits(t))
                       /\ SF_vars(PollRelocks(t))
=============================================================================
