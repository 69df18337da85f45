--------------------------- MODULE HostTargetsInv ---------------------------
(***************************************************************************)
(* The inductive invariant of HostTargets: what holds between the calls    *)
(* and between the steps of one, from which the promises of                *)
(* HostTargetsProps follow.                                                *)
(***************************************************************************)
EXTENDS HostTargetsProps

(* The values of the variables: a lifecycle, a target, a queue, a poll.    *)
Lives   == {"New", "Ready", "Starting", "Running", "Stopping", "Stopped"}
Queues  == [batches : Nat, woken : BOOLEAN, gone : BOOLEAN, lock : Thread \cup {None}]
Polls   == [at : {"idle", "bind", "refused", "locked", "lock", "wait"},
            target : Pull \cup {None}, todo : Seq(Index), took : SUBSET Index]

PoolTyped ==
  /\ holder \in [Index -> Server \cup {None}] /\ indexes \in [Server -> Seq(Index)]
  /\ lifecycle \in [Server -> Lives] /\ finishing \in [Server -> Seq(Index)]
TargetsTyped ==
  /\ attached \in [Index -> Pull \cup {None, Own}]
  /\ bound \in [Index -> Thread \cup {None}]
  /\ serves \in [Pull -> Seq(Index)] /\ leaving \in [Pull -> Seq(Index)]
  /\ queue \in [Pull -> Queues] /\ owner \in [Pull -> Thread \cup {None}]
  /\ poll \in [Thread -> Polls]

(* claim: a server that does not exist yet has claimed nothing.            *)
NewHoldsNone == \A s \in Server : lifecycle[s] = "New" => indexes[s] = <<>>

(* finish: an index of a stopping server that still has a target is still  *)
(* to be released, and nothing but its own indexes is.                     *)
StopReleases ==
  \A s \in Server : lifecycle[s] = "Stopping" =>
    /\ ToSet(finishing[s]) \subseteq ToSet(indexes[s])
    /\ \A w \in ToSet(indexes[s]) : attached[w] = None \/ w \in ToSet(finishing[s])

(* claim_target, release_target: a target that is not detached is on every *)
(* index it serves, a pull target is on no other, one in the loop of its   *)
(* detach is gone, and one not attached yet belongs to no thread.          *)
TargetInPlace ==
  /\ \A p \in Pull : ~queue[p].gone => \A w \in ToSet(serves[p]) : attached[w] = p
  /\ \A w \in Index : IsPull(attached[w]) => w \in ToSet(serves[attached[w]])
  /\ \A p \in Pull : leaving[p] # <<>> => queue[p].gone
  /\ \A p \in Pull : serves[p] = <<>> => owner[p] = None

(* poll, bind: a poll past its first check names its target; it holds the  *)
(* lock of the queue while it binds or takes, and while it binds no thread *)
(* owns the target, and what it has gone through is bound to its thread.   *)
PollSound(t) ==
  LET p == poll[t].target
  IN  /\ poll[t].at \in {"bind", "locked", "lock", "wait"} => p \in Pull
      /\ poll[t].at \in {"bind", "locked"} => queue[p].lock = t
      /\ poll[t].at = "bind" =>
           /\ ~queue[p].gone /\ owner[p] = None /\ serves[p] # <<>>
           /\ ToSet(poll[t].todo) \subseteq ToSet(serves[p])
           /\ \A w \in ToSet(serves[p]) : w \in ToSet(poll[t].todo) \/ bound[w] = t
PollHolds == \A t \in Thread : PollSound(t)

(* The inductive invariant.                                                *)
TargetsInv ==
  /\ PoolTyped /\ TargetsTyped
  /\ NewHoldsNone /\ FreeIndexClean /\ StopReleases /\ TargetInPlace /\ PollHolds /\ BoundEverywhere
=============================================================================
