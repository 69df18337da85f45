-------------------------- MODULE HostTargetsProps --------------------------
(***************************************************************************)
(* What the registry, the targets and the life of a server promise.        *)
(***************************************************************************)
EXTENDS HostTargets

(* registry::claim, Claim::drop: an index is held by the one server that   *)
(* claimed it and has not stopped; an index nobody holds keeps no target   *)
(* and no bound thread, so neither carries over to the next server.        *)
FreeIndexClean ==
  /\ \A w \in Index : \A s \in Server :
       holder[w] = s <=> w \in ToSet(indexes[s]) /\ lifecycle[s] # "Stopped"
  /\ \A w \in Index : holder[w] = None => attached[w] = None /\ bound[w] = None

(* PullTarget::bind, WorkerShared::release_target: while a bound target is *)
(* not detached, every index it serves has it as its target and its thread *)
(* as the one whose acknowledgments count.                                 *)
BoundEverywhere ==
  \A p \in Pull :
    owner[p] # None /\ ~queue[p].gone =>
      \A w \in ToSet(serves[p]) : attached[w] = p /\ bound[w] = owner[p]

(* WorkerShared::release_target: a pull target is stopped only by its own  *)
(* detach or by the stop of its server; the detach of a target that served *)
(* the index before, still in its loop, stops no other.                    *)
StoppedByOwn ==
  [][\A p \in Pull : ~queue[p].gone /\ queue'[p].gone =>
       \/ leaving'[p] # <<>>
       \/ \E w \in ToSet(serves[p]) : holder[w] # None /\ lifecycle[holder[w]] = "Stopping"]_vars

(* target.rs:168: "A poll that cannot bind every index binds none".        *)
BindsAllOrNone == \A t \in Thread : poll[t].at = "refused" => poll[t].took = {}

-----------------------------------------------------------------------------
(* A shutdown that was asked for is not lost, whatever the server was      *)
(* doing: it stops and gives its indexes back (request_stop, started,      *)
(* not_started, reap, finish).                                             *)
StopEnds ==
  \A s \in Server :
    stop[s] \/ draining[s] \/ lifecycle[s] = "Stopping" ~> lifecycle[s] = "Stopped"

(* A poll ends once its target is detached, and does not sleep on a batch  *)
(* (PullTarget::stop, PullTarget::post).                                   *)
Due(t) ==
  poll[t].at = "wait" /\ (queue[poll[t].target].gone \/ queue[poll[t].target].batches > 0)
PollNotStuck == \A t \in Thread : Due(t) ~> poll[t].at # "wait"
=============================================================================
