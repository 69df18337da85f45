-------------------------- MODULE HostTargetsProofs --------------------------
(***************************************************************************)
(* Proofs about HostTargets: TargetsInv is inductive, and what the         *)
(* registry, the pull targets and the stop of a server promise follows.    *)
(***************************************************************************)
EXTENDS HostTargetsInv, TLAPS

-----------------------------------------------------------------------------
(* Sequences of indexes.                                                   *)

(* The indexes of a list are those of its tail and its head.               *)
LEMMA ListParts ==
  ASSUME NEW S, NEW l \in Seq(S), l # <<>>
  PROVE  /\ Head(l) \in ToSet(l) /\ Tail(l) \in Seq(S)
         /\ ToSet(l) = {Head(l)} \cup ToSet(Tail(l))
<1>1. Tail(l) \in Seq(S) /\ Len(l) \in Nat \ {0} /\ Len(Tail(l)) = Len(l) - 1
  OBVIOUS
<1>2. /\ DOMAIN l = 1..Len(l) /\ DOMAIN Tail(l) = 1..(Len(l) - 1)
      /\ \A i \in 1..(Len(l) - 1) : Tail(l)[i] = l[i + 1]
      /\ Head(l) = l[1]
  BY <1>1
<1>3. \A i \in 1..Len(l) : i = 1 \/ (i - 1 \in 1..(Len(l) - 1) /\ l[i] = Tail(l)[i - 1])
  BY <1>1, <1>2
<1>4. \A i \in 1..(Len(l) - 1) : i + 1 \in 1..Len(l)
  BY <1>1
<1>5. ToSet(l) \subseteq {Head(l)} \cup ToSet(Tail(l))
  <2> SUFFICES ASSUME NEW x \in ToSet(l), x # Head(l) PROVE x \in ToSet(Tail(l))
    OBVIOUS
  <2>1. PICK i \in 1..Len(l) : x = l[i]
    BY <1>2 DEF ToSet
  <2>2. i - 1 \in 1..(Len(l) - 1) /\ x = Tail(l)[i - 1]
    BY <2>1, <1>2, <1>3
  <2> QED
    BY <2>2, <1>2 DEF ToSet
<1>6. ToSet(Tail(l)) \subseteq ToSet(l)
  BY <1>2, <1>4 DEF ToSet
<1>7. Head(l) \in ToSet(l)
  BY <1>1, <1>2 DEF ToSet
<1> QED
  BY <1>1, <1>5, <1>6, <1>7

(* A list holds only what it is a list of.                                 *)
LEMMA ListOf ==
  ASSUME NEW S, NEW l \in Seq(S)
  PROVE  ToSet(l) \subseteq S
BY DEF ToSet

(* The empty list holds nothing.                                           *)
LEMMA ListNone == ToSet(<<>>) = {}
BY DEF ToSet

(* A list that holds something is not empty.                               *)
LEMMA ListSome ==
  ASSUME NEW l, NEW w \in ToSet(l)
  PROVE  l # <<>>
BY ListNone

-----------------------------------------------------------------------------
(* The initial state.                                                      *)

(* Before any server exists the invariant holds.                           *)
LEMMA InitInv == Init => TargetsInv
<1> SUFFICES ASSUME Init PROVE TargetsInv
  OBVIOUS
<1> USE TargetsAssumption DEF Init
<1>0. <<>> \in Seq(Index) /\ ToSet(<<>>) = {}
  BY ListNone
<1>1. PoolTyped
  BY <1>0 DEF PoolTyped, Lives
<1>2. TargetsTyped
  BY <1>0 DEF TargetsTyped, Queues, Polls, NoPoll
<1>3. FreeIndexClean
  BY <1>0 DEF FreeIndexClean
<1>4. StopReleases
  BY DEF StopReleases
<1>8. NewHoldsNone
  BY DEF NewHoldsNone
<1>5. TargetInPlace
  BY <1>0 DEF TargetInPlace, IsPull
<1>6. PollHolds
  BY DEF PollHolds, PollSound, NoPoll
<1>7. BoundEverywhere
  BY <1>0 DEF BoundEverywhere
<1> QED
  BY <1>1, <1>2, <1>3, <1>4, <1>5, <1>6, <1>7, <1>8 DEF TargetsInv

-----------------------------------------------------------------------------
(* The life of a server.                                                   *)

(* A step of a server's life that leaves targets and polls alone keeps     *)
(* what the invariant says of them.                                        *)
LEMMA TargetsKept ==
  ASSUME TargetsInv, UNCHANGED <<indexVars, pullVars, poll>>
  PROVE  TargetsTyped' /\ TargetInPlace' /\ PollHolds' /\ BoundEverywhere'
<1> USE DEF indexVars, pullVars
<1>1. TargetsTyped'
  BY DEF TargetsInv, TargetsTyped
<1>2. TargetInPlace'
  BY DEF TargetsInv, TargetInPlace, IsPull
<1>3. PollHolds'
  BY DEF TargetsInv, PollHolds, PollSound
<1>4. BoundEverywhere'
  BY DEF TargetsInv, BoundEverywhere
<1> QED
  BY <1>1, <1>2, <1>3, <1>4

(* claim: the indexes a new server takes were free.                        *)
LEMMA NewServerKeeps ==
  ASSUME TargetsInv, NEW s \in Server, NewServer(s)
  PROVE  TargetsInv'
<1> USE TargetsAssumption DEF TargetsInv
<1>0. /\ PoolTyped /\ FreeIndexClean /\ StopReleases
      /\ lifecycle[s] = "New" /\ lifecycle' = [lifecycle EXCEPT ![s] = "Ready"]
      /\ UNCHANGED <<finishing, attached, bound>>
      /\ UNCHANGED <<indexVars, pullVars, poll>>
  BY DEF NewServer, indexVars
<1>1. PICK count \in Index : \E claimed \in [1..count -> FreeIndexes] :
           /\ holder' = [w \in Index |-> IF w \in ToSet(claimed) THEN s ELSE holder[w]]
           /\ indexes' = [indexes EXCEPT ![s] = claimed]
  BY DEF NewServer
<1>a. PICK claimed \in [1..count -> FreeIndexes] :
           /\ holder' = [w \in Index |-> IF w \in ToSet(claimed) THEN s ELSE holder[w]]
           /\ indexes' = [indexes EXCEPT ![s] = claimed]
  BY <1>1
<1>2. claimed \in Seq(Index)
  BY DEF FreeIndexes, Index
<1>3. \A w \in ToSet(claimed) : w \in Index /\ holder[w] = None
  BY DEF FreeIndexes, ToSet
<1>4. PoolTyped'
  BY <1>0, <1>a, <1>2 DEF PoolTyped, Lives
<1>5. FreeIndexClean'
  <2>1. ToSet(indexes[s]) = {}
    BY <1>0, ListNone DEF NewHoldsNone
  <2> QED
    BY <2>1, <1>0, <1>a, <1>3 DEF FreeIndexClean, PoolTyped
<1>7. NewHoldsNone'
  BY <1>0, <1>a DEF NewHoldsNone, PoolTyped
<1>6. StopReleases'
  BY <1>0, <1>a DEF StopReleases, PoolTyped
<1> QED
  BY <1>0, <1>4, <1>5, <1>6, <1>7, TargetsKept

(* start, started, not_started, request_stop and reap: an open server      *)
(* stays open, or stops with all its indexes to release.                   *)
LEMMA LifeKeeps ==
  ASSUME TargetsInv, NEW s \in Server, Open(s), UNCHANGED <<poolVars, indexVars, pullVars, poll>>,
         \/ UNCHANGED <<lifecycle, finishing>>
         \/ /\ \E l \in {"Ready", "Starting", "Running"} : lifecycle' = [lifecycle EXCEPT ![s] = l]
            /\ UNCHANGED finishing
         \/ Finishing(s)
  PROVE  TargetsInv'
<1> USE DEF TargetsInv, poolVars, Open, Finishing
<1>1. PoolTyped'
  BY DEF PoolTyped, Lives
<1>2. NewHoldsNone'
  BY DEF NewHoldsNone, PoolTyped
<1>3. FreeIndexClean'
  BY DEF FreeIndexClean, PoolTyped, indexVars
<1>4. StopReleases'
  BY DEF StopReleases, PoolTyped, indexVars
<1> QED
  BY <1>1, <1>2, <1>3, <1>4, TargetsKept

(* The five steps are of that kind.                                        *)
LEMMA ServerKeeps ==
  ASSUME TargetsInv, NEW s \in Server,
         Start(s) \/ Started(s) \/ NotStarted(s) \/ Shutdown(s) \/ Reap(s)
  PROVE  TargetsInv'
<1>1. CASE Start(s)
  BY <1>1, LifeKeeps DEF Start, Open
<1>2. CASE Started(s)
  BY <1>2, LifeKeeps DEF Started, Open
<1>3. CASE NotStarted(s)
  BY <1>3, LifeKeeps DEF NotStarted, Open
<1>4. CASE Shutdown(s)
  BY <1>4, LifeKeeps DEF Shutdown, Open
<1>5. CASE Reap(s)
  BY <1>5, LifeKeeps DEF Reap, Open
<1> QED
  BY <1>1, <1>2, <1>3, <1>4, <1>5

(* Claim::drop: no index of a server that released them all has a target.  *)
LEMMA FinishEndKeeps ==
  ASSUME TargetsInv, NEW s \in Server, FinishEnd(s)
  PROVE  TargetsInv'
<1> USE TargetsAssumption DEF TargetsInv, FinishEnd, UnboundDropped
<1>0. /\ UNCHANGED <<indexes, finishing, attached, serves, queue, owner, leaving, poll>>
      /\ lifecycle[s] = "Stopping" /\ finishing[s] = <<>>
      /\ lifecycle' = [lifecycle EXCEPT ![s] = "Stopped"]
      /\ bound' = [w \in Index |-> IF holder[w] = s THEN None ELSE bound[w]]
      /\ holder' = [w \in Index |-> IF holder[w] = s THEN None ELSE holder[w]]
  BY DEF pullVars
<1>1. \A w \in Index : holder[w] = s => attached[w] = None
  BY <1>0, ListNone DEF FreeIndexClean, StopReleases
<1>2. \A p \in Pull : ~queue[p].gone =>
        \A w \in ToSet(serves[p]) : w \in Index /\ bound'[w] = bound[w]
  <2> SUFFICES ASSUME NEW p \in Pull, ~queue[p].gone, NEW w \in ToSet(serves[p])
               PROVE  w \in Index /\ bound'[w] = bound[w]
    OBVIOUS
  <2>1. w \in Index
    BY ListOf DEF TargetsTyped
  <2>2. attached[w] # None
    BY DEF TargetInPlace
  <2> QED
    BY <2>1, <2>2, <1>0, <1>1 DEF TargetsTyped
<1>3. PoolTyped'
  BY <1>0 DEF PoolTyped, Lives
<1>4. TargetsTyped'
  BY <1>0 DEF TargetsTyped
<1>5. NewHoldsNone'
  BY <1>0 DEF NewHoldsNone, PoolTyped
<1>6. FreeIndexClean'
  BY <1>0, <1>1 DEF FreeIndexClean, PoolTyped
<1>7. StopReleases'
  BY <1>0 DEF StopReleases, PoolTyped
<1>8. TargetInPlace'
  BY <1>0 DEF TargetInPlace, IsPull
<1>9. PollHolds'
  BY <1>0, <1>2 DEF PollHolds, PollSound
<1>10. BoundEverywhere'
  BY <1>0, <1>2 DEF BoundEverywhere
<1> QED
  BY <1>3, <1>4, <1>5, <1>6, <1>7, <1>8, <1>9, <1>10

-----------------------------------------------------------------------------
(* Targets come and go.                                                    *)

(* PullTarget::stop: the queue is gone and empty, and locked as before.    *)
LEMMA QueueStopped ==
  ASSUME NEW q \in Queues
  PROVE  LET r == [q EXCEPT !.gone = TRUE, !.batches = 0]
         IN  r \in Queues /\ r.gone = TRUE /\ r.lock = q.lock
<1>1. PICK g : g = [q EXCEPT !.gone = TRUE]
  OBVIOUS
<1>2. g \in Queues /\ g.gone = TRUE /\ g.lock = q.lock
  BY <1>1 DEF Queues
<1>3. [g EXCEPT !.batches = 0] \in Queues /\ [g EXCEPT !.batches = 0].gone = g.gone
      /\ [g EXCEPT !.batches = 0].lock = g.lock
  BY <1>2 DEF Queues
<1>4. [q EXCEPT !.gone = TRUE, !.batches = 0] = [g EXCEPT !.batches = 0]
  BY <1>1
<1> QED
  BY <1>2, <1>3, <1>4

(* release_target, Intake::detach: the index loses its target and its      *)
(* thread; a pull target it had is gone, and no poll was at work on it.    *)
LEMMA ReleaseEffect ==
  ASSUME TargetsInv, NEW w \in Index, ReleaseIndex(w)
  PROVE  /\ attached' = [attached EXCEPT ![w] = None] /\ bound' = [bound EXCEPT ![w] = None]
         /\ queue' \in [Pull -> Queues] /\ poll' \in [Thread -> Polls]
         /\ \A p \in Pull : /\ queue'[p].lock = queue[p].lock
                            /\ queue'[p].gone <=> queue[p].gone \/ p = attached[w]
         /\ \A t \in Thread : /\ poll'[t].target = poll[t].target /\ poll'[t].todo = poll[t].todo
                              /\ \/ poll'[t].at = poll[t].at
                                 \/ poll[t].at = "wait" /\ poll'[t].at = "lock"
                              /\ poll[t].at \in {"bind", "locked"} => poll[t].target # attached[w]
<1> USE TargetsAssumption DEF TargetsInv
<1> DEFINE p0 == attached[w]
<1>0. /\ attached' = [attached EXCEPT ![w] = None] /\ bound' = [bound EXCEPT ![w] = None]
      /\ p0 \in Pull => queue[p0].lock = None
      /\ queue' = IF p0 \notin Pull THEN queue
                  ELSE [queue EXCEPT ![p0] = [@ EXCEPT !.gone = TRUE, !.batches = 0]]
      /\ poll' = [t \in Thread |->
                    IF Notified(t, p0) THEN [poll[t] EXCEPT !.at = "lock"] ELSE poll[t]]
  BY DEF ReleaseIndex, StopTarget, IsPull
<1>1. /\ queue' \in [Pull -> Queues]
      /\ \A p \in Pull : /\ queue'[p].lock = queue[p].lock
                         /\ queue'[p].gone <=> queue[p].gone \/ p = p0
  <2>1. ASSUME NEW p \in Pull
        PROVE  /\ queue'[p] \in Queues /\ queue'[p].lock = queue[p].lock
               /\ queue'[p].gone <=> queue[p].gone \/ p = p0
    <3>1. queue[p] \in Queues
      BY DEF TargetsTyped
    <3>2. queue'[p] = IF p = p0 THEN [queue[p] EXCEPT !.gone = TRUE, !.batches = 0] ELSE queue[p]
      BY <1>0 DEF TargetsTyped
    <3>3. CASE p = p0
      <4>1. queue'[p].gone = TRUE /\ queue'[p] \in Queues /\ queue'[p].lock = queue[p].lock
        BY <3>1, <3>2, <3>3, QueueStopped
      <4> QED
        BY <4>1, <3>3
    <3>4. CASE p # p0
      BY <3>1, <3>2, <3>4
    <3> QED
      BY <3>3, <3>4
  <2>2. queue' \in [Pull -> Queues]
    BY <2>1, <1>0 DEF TargetsTyped
  <2> QED
    BY <2>1, <2>2
<1>2. /\ poll' \in [Thread -> Polls]
      /\ \A t \in Thread : /\ poll'[t].target = poll[t].target /\ poll'[t].todo = poll[t].todo
                           /\ \/ poll'[t].at = poll[t].at
                              \/ poll[t].at = "wait" /\ poll'[t].at = "lock"
  <2>1. ASSUME NEW t \in Thread
        PROVE  /\ poll'[t] \in Polls
               /\ poll'[t].target = poll[t].target /\ poll'[t].todo = poll[t].todo
               /\ \/ poll'[t].at = poll[t].at
                  \/ poll[t].at = "wait" /\ poll'[t].at = "lock"
    <3>1. poll[t] \in Polls
      BY DEF TargetsTyped
    <3>2. \/ poll'[t] = poll[t]
          \/ poll[t].at = "wait" /\ poll'[t] = [poll[t] EXCEPT !.at = "lock"]
      BY <1>0 DEF Notified
    <3> QED
      BY <3>1, <3>2 DEF Polls
  <2>2. poll' \in [Thread -> Polls]
    BY <2>1, <1>0
  <2> QED
    BY <2>1, <2>2
<1>3. \A t \in Thread : poll[t].at \in {"bind", "locked"} => poll[t].target # p0
  BY <1>0 DEF PollHolds, PollSound
<1> QED
  BY <1>0, <1>1, <1>2, <1>3

(* So the invariants of targets and polls outlive a release; what is left  *)
(* to its caller is the list it works through.                             *)
LEMMA ReleaseKeeps ==
  ASSUME TargetsInv, NEW w \in Index, ReleaseIndex(w), UNCHANGED <<holder, indexes, lifecycle, serves, owner>>,
         leaving' \in [Pull -> Seq(Index)],
         \A p \in Pull : leaving'[p] # <<>> => leaving[p] # <<>> \/ p = attached[w]
  PROVE  TargetsTyped' /\ FreeIndexClean' /\ TargetInPlace' /\ PollHolds' /\ BoundEverywhere'
<1> USE TargetsAssumption DEF TargetsInv
<1>0. /\ attached' = [attached EXCEPT ![w] = None] /\ bound' = [bound EXCEPT ![w] = None]
      /\ queue' \in [Pull -> Queues] /\ poll' \in [Thread -> Polls]
      /\ \A p \in Pull : /\ queue'[p].lock = queue[p].lock
                         /\ queue'[p].gone <=> queue[p].gone \/ p = attached[w]
      /\ \A t \in Thread : /\ poll'[t].target = poll[t].target /\ poll'[t].todo = poll[t].todo
                           /\ \/ poll'[t].at = poll[t].at
                              \/ poll[t].at = "wait" /\ poll'[t].at = "lock"
                           /\ poll[t].at \in {"bind", "locked"} => poll[t].target # attached[w]
  BY ReleaseEffect
<1>1. \A p \in Pull : ~queue'[p].gone => w \notin ToSet(serves[p])
  BY <1>0 DEF TargetInPlace
<1>2. TargetsTyped'
  BY <1>0 DEF TargetsTyped
<1>3. FreeIndexClean'
  BY <1>0 DEF FreeIndexClean, TargetsTyped
<1>4. \A p \in Pull : \A v \in ToSet(serves[p]) :
        v \in Index /\ (~queue'[p].gone => attached'[v] = attached[v] /\ bound'[v] = bound[v])
  BY <1>0, <1>1, ListOf DEF TargetsTyped
<1>5. TargetInPlace'
  <2>1. \A p \in Pull : ~queue'[p].gone => \A v \in ToSet(serves[p]) : attached'[v] = p
    BY <1>0, <1>4 DEF TargetInPlace
  <2>2. \A v \in Index : attached'[v] \in Pull => v \in ToSet(serves[attached'[v]])
    BY <1>0 DEF TargetInPlace, IsPull, TargetsTyped
  <2>3. \A p \in Pull : leaving'[p] # <<>> => queue'[p].gone
    BY <1>0 DEF TargetInPlace
  <2>4. \A p \in Pull : serves[p] = <<>> => owner[p] = None
    BY DEF TargetInPlace
  <2> QED
    BY <2>1, <2>2, <2>3, <2>4 DEF TargetInPlace, IsPull
<1>6. PollHolds'
  <2> SUFFICES ASSUME NEW t \in Thread
               PROVE  LET p == poll'[t].target
                      IN  /\ poll'[t].at \in {"bind", "locked", "lock", "wait"} => p \in Pull
                          /\ poll'[t].at \in {"bind", "locked"} => queue'[p].lock = t
                          /\ poll'[t].at = "bind" =>
                               /\ ~queue'[p].gone /\ owner[p] = None /\ serves[p] # <<>>
                               /\ ToSet(poll'[t].todo) \subseteq ToSet(serves[p])
                               /\ \A v \in ToSet(serves[p]) : v \in ToSet(poll'[t].todo) \/ bound'[v] = t
    BY DEF PollHolds, PollSound
  <2>1. CASE poll[t].at \in {"bind", "locked"}
    <3>1. PICK p : p = poll[t].target
      OBVIOUS
    <3>2. /\ p \in Pull /\ poll'[t].target = p /\ poll'[t].todo = poll[t].todo
          /\ poll'[t].at = poll[t].at /\ p # attached[w]
      BY <2>1, <3>1, <1>0 DEF PollHolds, PollSound
    <3>3. queue'[p].lock = t /\ (queue'[p].gone <=> queue[p].gone)
      <4>1. queue[p].lock = t
        BY <2>1, <3>1 DEF PollHolds, PollSound
      <4>2. queue'[p].lock = queue[p].lock /\ (queue'[p].gone <=> queue[p].gone \/ p = attached[w])
        BY <3>2, <1>0
      <4> QED
        BY <4>1, <4>2, <3>2
    <3>4. poll[t].at = "bind" =>
            /\ ~queue[p].gone /\ owner[p] = None /\ serves[p] # <<>>
            /\ ToSet(poll[t].todo) \subseteq ToSet(serves[p])
            /\ \A v \in ToSet(serves[p]) : v \in ToSet(poll[t].todo) \/ bound[v] = t
      BY <3>1 DEF PollHolds, PollSound
    <3>5. poll[t].at = "bind" =>
            \A v \in ToSet(serves[p]) : v \in ToSet(poll[t].todo) \/ bound'[v] = t
      BY <3>2, <3>3, <3>4, <1>4
    <3> QED
      BY <3>2, <3>3, <3>4, <3>5
  <2>2. CASE poll[t].at \notin {"bind", "locked"}
    BY <2>2, <1>0 DEF PollHolds, PollSound
  <2> QED
    BY <2>1, <2>2
<1>7. BoundEverywhere'
  <2> SUFFICES ASSUME NEW p \in Pull, owner[p] # None, ~queue'[p].gone, NEW v \in ToSet(serves[p])
               PROVE  attached'[v] = p /\ bound'[v] = owner[p]
    BY DEF BoundEverywhere
  <2>1. ~queue[p].gone
    BY <1>0
  <2>2. attached[v] = p /\ bound[v] = owner[p]
    BY <2>1 DEF BoundEverywhere
  <2> QED
    BY <1>4, <2>2
<1> QED
  BY <1>2, <1>3, <1>5, <1>6, <1>7

(* finish: one index less to release.                                      *)
LEMMA FinishNextKeeps ==
  ASSUME TargetsInv, NEW s \in Server, FinishNext(s)
  PROVE  TargetsInv'
<1> USE DEF TargetsInv
<1>1. PICK w : w = Head(finishing[s])
  OBVIOUS
<1>2. /\ lifecycle[s] = "Stopping" /\ finishing[s] # <<>> /\ ReleaseIndex(w)
      /\ finishing' = [finishing EXCEPT ![s] = Tail(finishing[s])]
      /\ UNCHANGED <<holder, indexes, lifecycle, serves, owner, leaving>>
  BY <1>1 DEF FinishNext, poolVars
<1>3. finishing[s] \in Seq(Index)
  BY DEF PoolTyped
<1>4. /\ w \in ToSet(finishing[s]) /\ Tail(finishing[s]) \in Seq(Index)
      /\ ToSet(finishing[s]) = {w} \cup ToSet(Tail(finishing[s]))
  BY <1>1, <1>2, <1>3, ListParts
<1>5. w \in Index
  BY <1>3, <1>4, ListOf
<1>6. leaving' \in [Pull -> Seq(Index)] /\ \A p \in Pull : leaving'[p] = leaving[p]
  BY <1>2 DEF TargetsTyped
<1>7. TargetsTyped' /\ FreeIndexClean' /\ TargetInPlace' /\ PollHolds' /\ BoundEverywhere'
  BY <1>2, <1>5, <1>6, ReleaseKeeps
<1>8. PoolTyped' /\ NewHoldsNone'
  BY <1>2, <1>4 DEF PoolTyped, NewHoldsNone
<1>9. StopReleases'
  <2>1. attached' = [attached EXCEPT ![w] = None] /\ attached \in [Index -> Pull \cup {None, Own}]
    BY <1>2 DEF ReleaseIndex, TargetsTyped
  <2>2. \A r \in Server : ToSet(indexes[r]) \subseteq Index
    BY ListOf DEF PoolTyped
  <2> SUFFICES ASSUME NEW r \in Server, lifecycle[r] = "Stopping"
               PROVE  /\ ToSet(finishing'[r]) \subseteq ToSet(indexes[r])
                      /\ \A v \in ToSet(indexes[r]) : attached'[v] = None \/ v \in ToSet(finishing'[r])
    BY <1>2 DEF StopReleases
  <2>3. CASE r = s
    BY <2>1, <2>2, <2>3, <1>2, <1>4 DEF StopReleases, PoolTyped
  <2>4. CASE r # s
    BY <2>1, <2>2, <2>4, <1>2 DEF StopReleases, PoolTyped
  <2> QED
    BY <2>3, <2>4
<1> QED
  BY <1>7, <1>8, <1>9

(* A release of an index by the host leaves the lists of the servers.      *)
LEMMA StopListsKept ==
  ASSUME TargetsInv, NEW w \in Index, ReleaseIndex(w),
         UNCHANGED <<holder, indexes, lifecycle, finishing>>
  PROVE  PoolTyped' /\ NewHoldsNone' /\ StopReleases'
<1> USE DEF TargetsInv
<1>1. attached' = [attached EXCEPT ![w] = None] /\ attached \in [Index -> Pull \cup {None, Own}]
  BY DEF ReleaseIndex, TargetsTyped
<1>2. \A r \in Server : ToSet(indexes[r]) \subseteq Index
  BY ListOf DEF PoolTyped
<1>3. PoolTyped' /\ NewHoldsNone'
  BY DEF PoolTyped, NewHoldsNone
<1>4. StopReleases'
  BY <1>1, <1>2 DEF StopReleases
<1> QED
  BY <1>3, <1>4

(* Server::detach.                                                         *)
LEMMA DetachKeeps ==
  ASSUME TargetsInv, NEW s \in Server, Detach(s)
  PROVE  TargetsInv'
<1> USE DEF TargetsInv
<1>1. PICK w \in ToSet(indexes[s]) :
           /\ ReleaseIndex(w)
           /\ leaving' = IF IsPull(attached[w])
                         THEN [leaving EXCEPT ![attached[w]] = serves[attached[w]]] ELSE leaving
  BY DEF Detach
<1>2. UNCHANGED <<holder, indexes, lifecycle, finishing, serves, owner>>
  BY DEF Detach, poolVars, serverVars
<1>3. w \in Index
  BY ListOf DEF PoolTyped
<1>4. /\ leaving' \in [Pull -> Seq(Index)]
      /\ \A p \in Pull : leaving'[p] # <<>> => leaving[p] # <<>> \/ p = attached[w]
  BY <1>1 DEF TargetsTyped, IsPull
<1> QED
  BY <1>1, <1>2, <1>3, <1>4, ReleaseKeeps, StopListsKept

(* One turn of the loop of PullTarget::detach.                             *)
LEMMA DetachNextKeeps ==
  ASSUME TargetsInv, NEW p \in Pull, DetachNext(p)
  PROVE  TargetsInv'
<1> USE DEF TargetsInv
<1>1. PICK w : w = Head(leaving[p])
  OBVIOUS
<1>2. /\ leaving[p] # <<>> /\ leaving' = [leaving EXCEPT ![p] = Tail(leaving[p])]
      /\ IF attached[w] = p THEN ReleaseIndex(w) ELSE UNCHANGED <<attached, bound, queue, poll>>
      /\ UNCHANGED <<holder, indexes, lifecycle, finishing, serves, owner>>
  BY <1>1 DEF DetachNext, poolVars, serverVars
<1>3. leaving[p] \in Seq(Index)
  BY DEF TargetsTyped
<1>4. w \in ToSet(leaving[p]) /\ Tail(leaving[p]) \in Seq(Index)
  BY <1>1, <1>2, <1>3, ListParts
<1>5. w \in Index
  BY <1>3, <1>4, ListOf
<1>6. /\ leaving' \in [Pull -> Seq(Index)]
      /\ \A q \in Pull : leaving'[q] # <<>> => leaving[q] # <<>>
  BY <1>2, <1>4 DEF TargetsTyped
<1>7. CASE attached[w] = p
  BY <1>2, <1>5, <1>6, <1>7, ReleaseKeeps, StopListsKept
<1>8. CASE attached[w] # p
  <2>1. PoolTyped' /\ NewHoldsNone' /\ StopReleases' /\ FreeIndexClean'
    BY <1>2, <1>8 DEF PoolTyped, NewHoldsNone, StopReleases, FreeIndexClean
  <2>2. TargetsTyped' /\ TargetInPlace'
    BY <1>2, <1>6, <1>8 DEF TargetsTyped, TargetInPlace, IsPull
  <2>3. PollHolds'
    BY <1>2, <1>8 DEF PollHolds, PollSound
  <2>4. BoundEverywhere'
    BY <1>2, <1>8 DEF BoundEverywhere
  <2> QED
    BY <2>1, <2>2, <2>3, <2>4
<1> QED
  BY <1>7, <1>8

(* attach_pull: the indexes had no target, and have this one.              *)
LEMMA AttachPullKeeps ==
  ASSUME TargetsInv, NEW s \in Server, NEW p \in Pull, AttachPull(s, p)
  PROVE  TargetsInv'
<1> USE TargetsAssumption DEF TargetsInv
<1>1. PICK workers \in {indexes[s]} \cup {<<w>> : w \in ToSet(indexes[s])} :
           /\ \A w \in ToSet(workers) : attached[w] = None
           /\ attached' = [w \in Index |-> IF w \in ToSet(workers) THEN p ELSE attached[w]]
           /\ serves' = [serves EXCEPT ![p] = workers]
  BY DEF AttachPull
<1>2. /\ Open(s) /\ serves[p] = <<>>
      /\ UNCHANGED <<holder, indexes, lifecycle, finishing, bound, queue, owner, leaving, poll>>
  BY DEF AttachPull, poolVars, serverVars
<1>3. workers \in Seq(Index) /\ ToSet(workers) \subseteq ToSet(indexes[s]) /\ ToSet(workers) \subseteq Index
  <2>1. indexes[s] \in Seq(Index) /\ ToSet(indexes[s]) \subseteq Index
    BY ListOf DEF PoolTyped
  <2>2. CASE workers = indexes[s]
    BY <2>1, <2>2
  <2>3. CASE \E w \in ToSet(indexes[s]) : workers = <<w>>
    <3>1. PICK w \in ToSet(indexes[s]) : workers = <<w>>
      BY <2>3
    <3>2. ToSet(<<w>>) = {w}
      BY DEF ToSet
    <3> QED
      BY <2>1, <3>1, <3>2
  <2> QED
    BY <2>2, <2>3
<1>4. PoolTyped' /\ NewHoldsNone'
  BY <1>2 DEF PoolTyped, NewHoldsNone
<1>5. TargetsTyped'
  BY <1>1, <1>2, <1>3 DEF TargetsTyped
<1>6. FreeIndexClean'
  BY <1>1, <1>2, <1>3 DEF FreeIndexClean, Open, TargetsTyped
<1>7. StopReleases'
  <2>1. \A r \in Server : lifecycle[r] = "Stopping" =>
          \A v \in ToSet(indexes[r]) : v \in Index /\ v \notin ToSet(workers)
    <3> SUFFICES ASSUME NEW r \in Server, lifecycle[r] = "Stopping", NEW v \in ToSet(indexes[r])
                 PROVE  v \in Index /\ v \notin ToSet(workers)
      OBVIOUS
    <3>1. v \in Index
      BY ListOf DEF PoolTyped
    <3>2. holder[v] = r
      BY <3>1 DEF FreeIndexClean
    <3>3. v \in ToSet(workers) => holder[v] = s
      BY <3>1, <1>2, <1>3 DEF FreeIndexClean, Open
    <3> QED
      BY <3>1, <3>2, <3>3, <1>2 DEF Open
  <2> QED
    BY <2>1, <1>1, <1>2 DEF StopReleases
<1>8. TargetInPlace'
  <2>1. \A q \in Pull : ~queue[q].gone => \A w \in ToSet(serves'[q]) : attached'[w] = q
    <3> SUFFICES ASSUME NEW q \in Pull, ~queue[q].gone, NEW w \in ToSet(serves'[q])
                 PROVE  attached'[w] = q
      OBVIOUS
    <3>1. CASE q = p
      BY <3>1, <1>1, <1>3 DEF TargetsTyped
    <3>2. CASE q # p
      <4>1. w \in ToSet(serves[q]) /\ attached[w] = q
        BY <3>2, <1>1 DEF TargetInPlace, TargetsTyped
      <4>2. w \in Index
        BY <4>1, ListOf DEF TargetsTyped
      <4> QED
        BY <4>1, <4>2, <1>1
    <3> QED
      BY <3>1, <3>2
  <2>2. \A w \in Index : attached'[w] \in Pull => w \in ToSet(serves'[attached'[w]])
    <3> SUFFICES ASSUME NEW w \in Index, attached'[w] \in Pull
                 PROVE  w \in ToSet(serves'[attached'[w]])
      OBVIOUS
    <3>1. CASE w \in ToSet(workers)
      BY <3>1, <1>1 DEF TargetsTyped
    <3>2. CASE w \notin ToSet(workers)
      <4>1. attached'[w] = attached[w] /\ w \in ToSet(serves[attached[w]])
        BY <3>2, <1>1 DEF TargetInPlace, IsPull
      <4>2. attached[w] # p
        BY <4>1, <1>2, ListNone
      <4> QED
        BY <4>1, <4>2, <1>1 DEF TargetsTyped
    <3> QED
      BY <3>1, <3>2
  <2>3. \A q \in Pull : serves'[q] = <<>> => owner[q] = None
    BY <1>1, <1>2 DEF TargetInPlace, TargetsTyped
  <2> QED
    BY <2>1, <2>2, <2>3, <1>2 DEF TargetInPlace, IsPull
<1>9. PollHolds'
  <2> SUFFICES ASSUME NEW t \in Thread PROVE PollSound(t)'
    BY DEF PollHolds
  <2>1. PollSound(t)
    BY DEF PollHolds
  <2>2. \A q \in Pull : serves[q] # <<>> => serves'[q] = serves[q]
    BY <1>1, <1>2 DEF TargetsTyped
  <2> QED
    BY <2>1, <2>2, <1>2 DEF PollSound
<1>10. BoundEverywhere'
  <2>1. \A q \in Pull : owner[q] # None => serves'[q] = serves[q]
    BY <1>1, <1>2 DEF TargetInPlace, TargetsTyped
  <2> QED
    BY <2>1, <1>2, <1>8 DEF BoundEverywhere, TargetInPlace
<1> QED
  BY <1>4, <1>5, <1>6, <1>7, <1>8, <1>9, <1>10

(* attach of a binding's own target: no pull target is touched.            *)
LEMMA AttachOwnKeeps ==
  ASSUME TargetsInv, NEW s \in Server, AttachOwn(s)
  PROVE  TargetsInv'
<1> USE TargetsAssumption DEF TargetsInv
<1>1. PICK w \in ToSet(indexes[s]) :
           attached[w] = None /\ attached' = [attached EXCEPT ![w] = Own]
  BY DEF AttachOwn
<1>2. /\ Open(s)
      /\ UNCHANGED <<holder, indexes, lifecycle, finishing, bound, serves, queue, owner, leaving, poll>>
  BY DEF AttachOwn, poolVars, serverVars, pullVars
<1>3. w \in Index /\ holder[w] = s
  <2>1. w \in Index
    BY ListOf DEF PoolTyped
  <2> QED
    BY <2>1, <1>2 DEF FreeIndexClean, Open
<1>4. PoolTyped' /\ NewHoldsNone'
  BY <1>2 DEF PoolTyped, NewHoldsNone
<1>5. TargetsTyped'
  BY <1>1, <1>2, <1>3 DEF TargetsTyped
<1>6. FreeIndexClean'
  BY <1>1, <1>2, <1>3 DEF FreeIndexClean, TargetsTyped
<1>7. StopReleases'
  <2> SUFFICES ASSUME NEW r \in Server, lifecycle[r] = "Stopping", NEW v \in ToSet(indexes[r])
               PROVE  attached'[v] = attached[v]
    BY <1>2 DEF StopReleases
  <2>1. v \in Index
    BY ListOf DEF PoolTyped
  <2>2. holder[v] = r
    BY <2>1 DEF FreeIndexClean
  <2> QED
    BY <2>1, <2>2, <1>1, <1>2, <1>3 DEF Open, TargetsTyped
<1>8. \A q \in Pull : \A v \in ToSet(serves[q]) : attached[v] = q => v # w
  BY <1>1
<1>9. TargetInPlace'
  <2>1. \A q \in Pull : ~queue[q].gone => \A v \in ToSet(serves[q]) : attached'[v] = q
    <3> SUFFICES ASSUME NEW q \in Pull, ~queue[q].gone, NEW v \in ToSet(serves[q])
                 PROVE  attached'[v] = q
      OBVIOUS
    <3>1. v \in Index
      BY ListOf DEF TargetsTyped
    <3> QED
      BY <3>1, <1>1, <1>8 DEF TargetInPlace, TargetsTyped
  <2>2. \A v \in Index : attached'[v] \in Pull => v \in ToSet(serves[attached'[v]])
    BY <1>1, <1>3 DEF TargetInPlace, TargetsTyped, IsPull
  <2> QED
    BY <2>1, <2>2, <1>2 DEF TargetInPlace, IsPull
<1>10. PollHolds'
  BY <1>2 DEF PollHolds, PollSound
<1>11. BoundEverywhere'
  BY <1>2, <1>9 DEF BoundEverywhere, TargetInPlace
<1> QED
  BY <1>4, <1>5, <1>6, <1>7, <1>9, <1>10, <1>11

-----------------------------------------------------------------------------
(* Queues and polls.                                                       *)

(* A step on one queue keeps the invariants of pool, servers and indexes.  *)
LEMMA PoolKept ==
  ASSUME TargetsInv, UNCHANGED <<poolVars, serverVars, attached>>
  PROVE  PoolTyped' /\ NewHoldsNone' /\ StopReleases'
<1> USE DEF TargetsInv, poolVars, serverVars
<1>1. PoolTyped' /\ NewHoldsNone'
  BY DEF PoolTyped, NewHoldsNone
<1>2. StopReleases'
  BY DEF StopReleases
<1> QED
  BY <1>1, <1>2

(* A poll that does not hold the lock of the queue a step is about keeps   *)
(* what it had, and may be woken.                                          *)
LEMMA OtherPoll ==
  ASSUME TargetsInv, NEW u \in Thread, NEW p \in Pull, queue[p].lock # u, UNCHANGED serves,
         \A q \in Pull \ {p} : queue'[q] = queue[q] /\ owner'[q] = owner[q],
         \A q \in Pull \ {p} : ~queue[q].gone => \A w \in ToSet(serves[q]) : bound'[w] = bound[w],
         \/ poll'[u] = poll[u]
         \/ poll[u].at = "wait" /\ poll'[u].at = "lock" /\ poll'[u].target = poll[u].target
  PROVE  PollSound(u)'
<1>1. PollSound(u)
  BY DEF TargetsInv, PollHolds
<1>2. CASE poll[u].at \in {"bind", "locked"}
  <2>1. PICK q : q = poll[u].target
    OBVIOUS
  <2>2. q \in Pull \ {p} /\ poll'[u] = poll[u]
    BY <1>1, <1>2, <2>1 DEF PollSound
  <2>3. queue'[q] = queue[q] /\ owner'[q] = owner[q] /\ serves'[q] = serves[q]
    BY <2>2
  <2>4. ~queue[q].gone => \A w \in ToSet(serves[q]) : bound'[w] = bound[w]
    BY <2>2
  <2> QED
    BY <1>1, <2>1, <2>2, <2>3, <2>4 DEF PollSound
<1>3. CASE poll[u].at \notin {"bind", "locked"}
  <2>1. poll'[u].at \notin {"bind", "locked"} /\ poll'[u].target = poll[u].target
        /\ (poll'[u].at \in {"lock", "wait"} => poll[u].at \in {"lock", "wait"})
    BY <1>3
  <2> QED
    BY <1>1, <2>1 DEF PollSound
<1> QED
  BY <1>2, <1>3

(* What a record of a queue or of a poll is after a field changed.         *)
LEMMA QueueFields ==
  ASSUME NEW q \in Queues, NEW x \in Thread \cup {None}
  PROVE  /\ LET r == [q EXCEPT !.lock = x]
            IN  r \in Queues /\ r.gone = q.gone /\ r.lock = x
         /\ LET r == [q EXCEPT !.woken = FALSE, !.lock = x]
            IN  r \in Queues /\ r.gone = q.gone /\ r.lock = x
         /\ LET r == [q EXCEPT !.woken = TRUE]
            IN  r \in Queues /\ r.gone = q.gone /\ r.lock = q.lock
         /\ LET r == [q EXCEPT !.batches = q.batches + 1]
            IN  r \in Queues /\ r.gone = q.gone /\ r.lock = q.lock
         /\ q.batches > 0 =>
              LET r == [q EXCEPT !.batches = q.batches - 1, !.lock = x]
              IN  r \in Queues /\ r.gone = q.gone /\ r.lock = x
<1>1. ASSUME NEW y \in BOOLEAN, NEW r, r = [q EXCEPT !.woken = y]
      PROVE  r \in Queues /\ r.gone = q.gone /\ r.lock = q.lock
  BY <1>1 DEF Queues
<1>2. ASSUME NEW n \in Nat, NEW r, r = [q EXCEPT !.batches = n]
      PROVE  r \in Queues /\ r.gone = q.gone /\ r.lock = q.lock
  BY <1>2 DEF Queues
<1>3. ASSUME NEW g \in Queues, NEW r, r = [g EXCEPT !.lock = x]
      PROVE  r \in Queues /\ r.gone = g.gone /\ r.lock = x
  BY <1>3 DEF Queues
<1>4. q.batches \in Nat /\ q.batches + 1 \in Nat /\ (q.batches > 0 => q.batches - 1 \in Nat)
  BY DEF Queues
<1>5. LET r == [q EXCEPT !.lock = x]
      IN  r \in Queues /\ r.gone = q.gone /\ r.lock = x
  BY <1>3
<1>6. LET r == [q EXCEPT !.woken = FALSE, !.lock = x]
      IN  r \in Queues /\ r.gone = q.gone /\ r.lock = x
  <2>1. PICK g : g = [q EXCEPT !.woken = FALSE]
    OBVIOUS
  <2>2. g \in Queues /\ g.gone = q.gone
    BY <2>1, <1>1
  <2>3. [q EXCEPT !.woken = FALSE, !.lock = x] = [g EXCEPT !.lock = x]
    BY <2>1
  <2> QED
    BY <2>2, <2>3, <1>3
<1>7. LET r == [q EXCEPT !.woken = TRUE]
      IN  r \in Queues /\ r.gone = q.gone /\ r.lock = q.lock
  BY <1>1
<1>8. LET r == [q EXCEPT !.batches = q.batches + 1]
      IN  r \in Queues /\ r.gone = q.gone /\ r.lock = q.lock
  BY <1>2, <1>4
<1>9. q.batches > 0 =>
        LET r == [q EXCEPT !.batches = q.batches - 1, !.lock = x]
        IN  r \in Queues /\ r.gone = q.gone /\ r.lock = x
  <2> SUFFICES ASSUME q.batches > 0
               PROVE  LET r == [q EXCEPT !.batches = q.batches - 1, !.lock = x]
                      IN  r \in Queues /\ r.gone = q.gone /\ r.lock = x
    OBVIOUS
  <2>1. PICK g : g = [q EXCEPT !.batches = q.batches - 1]
    OBVIOUS
  <2>2. g \in Queues /\ g.gone = q.gone
    BY <2>1, <1>2, <1>4
  <2>3. [q EXCEPT !.batches = q.batches - 1, !.lock = x] = [g EXCEPT !.lock = x]
    BY <2>1
  <2> QED
    BY <2>2, <2>3, <1>3
<1> QED
  BY <1>5, <1>6, <1>7, <1>8, <1>9

(* A poll that goes to another step keeps its target and its list.         *)
LEMMA PollFields ==
  ASSUME NEW x \in Polls, NEW a \in {"idle", "bind", "refused", "locked", "lock", "wait"}
  PROVE  LET r == [x EXCEPT !.at = a]
         IN  r \in Polls /\ r.at = a /\ r.target = x.target /\ r.todo = x.todo
BY DEF Polls

(* A step that stops no queue and moves no index keeps every target.       *)
LEMMA PlacesKept ==
  ASSUME TargetsInv, UNCHANGED <<poolVars, serverVars, indexVars, serves, owner, leaving>>,
         \A q \in Pull : queue'[q].gone = queue[q].gone
  PROVE  FreeIndexClean' /\ TargetInPlace' /\ BoundEverywhere'
<1> USE DEF TargetsInv, poolVars, serverVars, indexVars
<1>1. FreeIndexClean'
  BY DEF FreeIndexClean
<1>2. TargetInPlace'
  BY DEF TargetInPlace, IsPull
<1>3. BoundEverywhere'
  BY DEF BoundEverywhere
<1> QED
  BY <1>1, <1>2, <1>3

(* What a poll may do with the lock of its target's queue, which it takes  *)
(* or holds: begin to bind, hold it, or give it up to wait or to return.   *)
LEMMA LockStep ==
  ASSUME TargetsInv, NEW t \in Thread, NEW p \in Pull, NEW q \in Queues, NEW x \in Polls,
         UNCHANGED <<poolVars, serverVars, indexVars, serves, owner, leaving>>,
         queue[p].lock \in {None, t}, q.gone = queue[p].gone,
         queue' = [queue EXCEPT ![p] = q], poll' = [poll EXCEPT ![t] = x],
         \/ x.at \in {"idle", "refused"}
         \/ x.at \in {"lock", "wait"} /\ x.target = p
         \/ x.at = "locked" /\ x.target = p /\ q.lock = t
         \/ /\ x.at = "bind" /\ x.target = p /\ x.todo = serves[p] /\ q.lock = t
            /\ ~q.gone /\ owner[p] = None /\ serves[p] # <<>>
  PROVE  TargetsInv'
<1> USE TargetsAssumption DEF TargetsInv
<1>1. /\ queue' \in [Pull -> Queues] /\ poll' \in [Thread -> Polls]
      /\ queue'[p] = q /\ \A r \in Pull \ {p} : queue'[r] = queue[r]
      /\ poll'[t] = x /\ \A u \in Thread \ {t} : poll'[u] = poll[u]
  BY DEF TargetsTyped
<1>2. TargetsTyped'
  BY <1>1 DEF TargetsTyped, indexVars
<1>3. \A r \in Pull : queue'[r].gone = queue[r].gone
  BY <1>1
<1>4. PollHolds'
  <2> SUFFICES ASSUME NEW u \in Thread PROVE PollSound(u)'
    BY DEF PollHolds
  <2>1. CASE u = t
    BY <2>1, <1>1 DEF PollSound
  <2>2. CASE u # t
    <3>1. queue[p].lock # u
      BY <2>2
    <3>2. /\ \A r \in Pull \ {p} : queue'[r] = queue[r] /\ owner'[r] = owner[r]
          /\ \A r \in Pull \ {p} : ~queue[r].gone => \A w \in ToSet(serves[r]) : bound'[w] = bound[w]
          /\ poll'[u] = poll[u] /\ UNCHANGED serves
      BY <1>1, <2>2 DEF indexVars
    <3> QED
      BY <3>1, <3>2, OtherPoll
  <2> QED
    BY <2>1, <2>2
<1> QED
  BY <1>2, <1>3, <1>4, PoolKept, PlacesKept DEF indexVars

(* poll takes the lock of a queue that is not gone.                        *)
LEMMA PollBeginKeeps ==
  ASSUME TargetsInv, NEW t \in Thread, NEW p \in Pull, PollBegin(t, p)
  PROVE  TargetsInv'
<1>1. queue[p] \in Queues /\ poll[t] \in Polls /\ serves[p] \in Seq(Index)
  BY DEF TargetsInv, TargetsTyped
<1>2. PICK q : q = [queue[p] EXCEPT !.lock = t]
  OBVIOUS
<1>3. q \in Queues /\ q.gone = queue[p].gone /\ q.lock = t
  BY <1>1, <1>2, QueueFields
<1>4. /\ queue' = [queue EXCEPT ![p] = q] /\ queue[p].lock = None /\ ~queue[p].gone
      /\ UNCHANGED <<poolVars, serverVars, indexVars, serves, owner, leaving>> /\ serves[p] # <<>>
  BY <1>2 DEF PollBegin, Locked
<1>5. CASE poll' = [poll EXCEPT ![t] = [@ EXCEPT !.at = "locked", !.target = p]]
  <2>1. PICK y : y = [poll[t] EXCEPT !.at = "locked"]
    OBVIOUS
  <2>2. y \in Polls /\ y.at = "locked"
    BY <1>1, <2>1, PollFields
  <2>3. PICK x : x = [y EXCEPT !.target = p]
    OBVIOUS
  <2>4. x \in Polls /\ x.at = "locked" /\ x.target = p
    BY <2>2, <2>3 DEF Polls
  <2>5. poll' = [poll EXCEPT ![t] = x]
    BY <1>5, <2>1, <2>3
  <2> QED
    BY <1>3, <1>4, <2>4, <2>5, LockStep
<1>6. CASE /\ owner[p] = None
           /\ poll' = [poll EXCEPT ![t] =
                         [at |-> "bind", target |-> p, todo |-> serves[p], took |-> {}]]
  <2>1. PICK x : x = [at |-> "bind", target |-> p, todo |-> serves[p], took |-> {}]
    OBVIOUS
  <2>2. x \in Polls /\ x.at = "bind" /\ x.target = p /\ x.todo = serves[p]
    BY <1>1, <2>1 DEF Polls
  <2>3. poll' = [poll EXCEPT ![t] = x]
    BY <1>6, <2>1
  <2> QED
    BY <1>3, <1>4, <1>6, <2>2, <2>3, LockStep
<1> QED
  BY <1>5, <1>6 DEF PollBegin

(* The loop of poll: it holds the lock, and gives it up.                   *)
LEMMA PollLoopKeeps ==
  ASSUME TargetsInv, NEW t \in Thread, PollTakes(t) \/ PollWaits(t)
  PROVE  TargetsInv'
<1>1. PICK p : p = poll[t].target
  OBVIOUS
<1>2. poll[t].at = "locked"
  BY DEF PollTakes, PollWaits
<1>3. p \in Pull /\ queue[p].lock = t
  BY <1>1, <1>2 DEF TargetsInv, PollHolds, PollSound
<1>4. queue[p] \in Queues /\ poll[t] \in Polls
  BY <1>3 DEF TargetsInv, TargetsTyped
<1>5. \E q \in Queues : q.gone = queue[p].gone /\ queue' = [queue EXCEPT ![p] = q]
  <2>1. CASE queue' = Unlocked(p)
    BY <1>4, <2>1, QueueFields DEF Unlocked
  <2>2. CASE queue' = [queue EXCEPT ![p] = [@ EXCEPT !.woken = FALSE, !.lock = None]]
    BY <1>4, <2>2, QueueFields
  <2>3. CASE /\ queue[p].batches > 0
             /\ queue' = [queue EXCEPT ![p] =
                            [queue[p] EXCEPT !.batches = queue[p].batches - 1, !.lock = None]]
    <3>1. PICK r : r = [queue[p] EXCEPT !.batches = queue[p].batches - 1, !.lock = None]
      OBVIOUS
    <3>2. r \in Queues /\ r.gone = queue[p].gone
      BY <1>4, <2>3, <3>1, QueueFields
    <3>3. queue' = [queue EXCEPT ![p] = r]
      BY <2>3, <3>1
    <3> QED
      BY <3>2, <3>3
  <2>4. ASSUME PollTakes(t), queue' # Unlocked(p),
               queue' # [queue EXCEPT ![p] = [@ EXCEPT !.woken = FALSE, !.lock = None]]
        PROVE  /\ queue[p].batches > 0
               /\ queue' = [queue EXCEPT ![p] =
                              [queue[p] EXCEPT !.batches = queue[p].batches - 1, !.lock = None]]
    BY <1>1, <2>4 DEF PollTakes
  <2>5. CASE PollTakes(t)
    BY <2>1, <2>2, <2>3, <2>4, <2>5
  <2>6. CASE PollWaits(t)
    BY <1>1, <2>1, <2>6 DEF PollWaits
  <2> QED
    BY <2>5, <2>6
<1>6. \E x \in Polls : /\ poll' = [poll EXCEPT ![t] = x]
                       /\ x.at = "idle" \/ (x.at \in {"lock", "wait"} /\ x.target = p)
  <2>1. CASE Returns(t)
    <3>1. NoPoll \in Polls /\ NoPoll.at = "idle"
      BY DEF NoPoll, Polls
    <3> QED
      BY <2>1, <3>1 DEF Returns
  <2>2. ASSUME NEW a \in {"lock", "wait"}, poll' = AtStep(t, a)
        PROVE  \E x \in Polls : /\ poll' = [poll EXCEPT ![t] = x]
                                /\ x.at \in {"lock", "wait"} /\ x.target = p
    BY <1>1, <1>4, <2>2, PollFields DEF AtStep
  <2> QED
    BY <2>1, <2>2 DEF PollTakes, PollWaits
<1>7. UNCHANGED <<poolVars, serverVars, indexVars, serves, owner, leaving>>
  BY DEF PollTakes, PollWaits
<1>8. PICK q \in Queues : q.gone = queue[p].gone /\ queue' = [queue EXCEPT ![p] = q]
  BY <1>5
<1>9. PICK x \in Polls : /\ poll' = [poll EXCEPT ![t] = x]
                         /\ x.at = "idle" \/ (x.at \in {"lock", "wait"} /\ x.target = p)
  BY <1>6
<1> QED
  BY <1>3, <1>7, <1>8, <1>9, LockStep

(* A notified poll takes the lock again.                                   *)
LEMMA PollRelocksKeeps ==
  ASSUME TargetsInv, NEW t \in Thread, PollRelocks(t)
  PROVE  TargetsInv'
<1>1. PICK p : p = poll[t].target
  OBVIOUS
<1>2. p \in Pull /\ queue[p].lock = None
  BY <1>1 DEF TargetsInv, PollHolds, PollSound, PollRelocks
<1>3. queue[p] \in Queues /\ poll[t] \in Polls
  BY <1>2 DEF TargetsInv, TargetsTyped
<1>4. PICK q : q = [queue[p] EXCEPT !.lock = t]
  OBVIOUS
<1>5. q \in Queues /\ q.gone = queue[p].gone /\ q.lock = t /\ queue' = [queue EXCEPT ![p] = q]
  BY <1>1, <1>3, <1>4, QueueFields DEF PollRelocks, Locked
<1>6. PICK x : x = [poll[t] EXCEPT !.at = "locked"]
  OBVIOUS
<1>7. x \in Polls /\ x.at = "locked" /\ x.target = p /\ poll' = [poll EXCEPT ![t] = x]
  BY <1>1, <1>3, <1>6, PollFields DEF PollRelocks, AtStep
<1>8. UNCHANGED <<poolVars, serverVars, indexVars, serves, owner, leaving>>
  BY DEF PollRelocks
<1> QED
  BY <1>2, <1>5, <1>7, <1>8, LockStep

(* A step of a thread's own poll that touches no queue.                    *)
LEMMA PollStep ==
  ASSUME TargetsInv, NEW t \in Thread, NEW x \in Polls,
         UNCHANGED <<poolVars, serverVars, indexVars, pullVars>>, poll' = [poll EXCEPT ![t] = x],
         x.at = "idle" \/ (x.at = "lock" /\ x.target \in Pull)
  PROVE  TargetsInv'
<1> USE DEF TargetsInv, pullVars
<1>1. poll'[t] = x /\ poll' \in [Thread -> Polls] /\ \A u \in Thread \ {t} : poll'[u] = poll[u]
  BY DEF TargetsTyped
<1>2. TargetsTyped'
  BY <1>1 DEF TargetsTyped, indexVars
<1>3. PollHolds'
  <2> SUFFICES ASSUME NEW u \in Thread PROVE PollSound(u)'
    BY DEF PollHolds
  <2>1. CASE u = t
    BY <2>1, <1>1 DEF PollSound
  <2>2. CASE u # t
    BY <2>2, <1>1 DEF PollHolds, PollSound, indexVars
  <2> QED
    BY <2>1, <2>2
<1> QED
  BY <1>2, <1>3, PoolKept, PlacesKept DEF indexVars

(* A refused poll returns, and a wait ends.                                *)
LEMMA PollEndsKeeps ==
  ASSUME TargetsInv, NEW t \in Thread, PollRefused(t) \/ PollTimesOut(t)
  PROVE  TargetsInv'
<1>1. CASE PollRefused(t)
  <2>1. NoPoll \in Polls /\ NoPoll.at = "idle"
    BY DEF NoPoll, Polls
  <2> QED
    BY <1>1, <2>1, PollStep DEF PollRefused, Returns
<1>2. CASE PollTimesOut(t)
  <2>1. poll[t].target \in Pull /\ poll[t] \in Polls
    BY <1>2 DEF TargetsInv, TargetsTyped, PollHolds, PollSound, PollTimesOut
  <2>2. PICK x : x = [poll[t] EXCEPT !.at = "lock"]
    OBVIOUS
  <2>3. x \in Polls /\ x.at = "lock" /\ x.target = poll[t].target /\ poll' = [poll EXCEPT ![t] = x]
    BY <1>2, <2>1, <2>2, PollFields DEF PollTimesOut, AtStep
  <2> QED
    BY <1>2, <2>1, <2>3, PollStep DEF PollTimesOut
<1> QED
  BY <1>1, <1>2

(* A step of another actor on a queue nobody has locked, which may wake    *)
(* polls that wait.                                                        *)
LEMMA WakingStep ==
  ASSUME TargetsInv, NEW p \in Pull, NEW q \in Queues,
         UNCHANGED <<poolVars, serverVars, indexVars, serves, owner, leaving>>,
         queue[p].lock = None, q.gone = queue[p].gone, queue' = [queue EXCEPT ![p] = q],
         poll' \in [Thread -> Polls],
         \A u \in Thread :
           \/ poll'[u] = poll[u]
           \/ poll[u].at = "wait" /\ poll'[u].at = "lock" /\ poll'[u].target = poll[u].target
  PROVE  TargetsInv'
<1> USE TargetsAssumption DEF TargetsInv
<1>1. /\ queue' \in [Pull -> Queues]
      /\ queue'[p] = q /\ \A r \in Pull \ {p} : queue'[r] = queue[r]
  BY DEF TargetsTyped
<1>2. TargetsTyped'
  BY <1>1 DEF TargetsTyped, indexVars
<1>3. \A r \in Pull : queue'[r].gone = queue[r].gone
  BY <1>1
<1>4. PollHolds'
  <2> SUFFICES ASSUME NEW u \in Thread PROVE PollSound(u)'
    BY DEF PollHolds
  <2>1. queue[p].lock # u
    OBVIOUS
  <2>2. /\ \A r \in Pull \ {p} : queue'[r] = queue[r] /\ owner'[r] = owner[r]
        /\ \A r \in Pull \ {p} : ~queue[r].gone => \A w \in ToSet(serves[r]) : bound'[w] = bound[w]
        /\ UNCHANGED serves
    BY <1>1 DEF indexVars
  <2> QED
    BY <2>1, <2>2, OtherPoll
<1> QED
  BY <1>2, <1>3, <1>4, PoolKept, PlacesKept DEF indexVars

(* A poll that is notified goes on to take the lock.                       *)
LEMMA NotifiedPoll ==
  ASSUME TargetsInv, NEW u \in Thread, NEW p, NEW x,
         \/ x = poll[u]
         \/ Notified(u, p) /\ x = [poll[u] EXCEPT !.at = "lock"]
  PROVE  /\ x \in Polls
         /\ \/ x = poll[u]
            \/ poll[u].at = "wait" /\ x.at = "lock" /\ x.target = poll[u].target
<1>1. poll[u] \in Polls
  BY DEF TargetsInv, TargetsTyped
<1>2. CASE x = poll[u]
  BY <1>1, <1>2
<1>3. CASE Notified(u, p) /\ x = [poll[u] EXCEPT !.at = "lock"]
  <2>1. x \in Polls /\ x.at = "lock" /\ x.target = poll[u].target
    BY <1>1, <1>3, PollFields
  <2> QED
    BY <1>3, <2>1 DEF Notified
<1> QED
  BY <1>2, <1>3

(* PullTarget::post and PullTarget::wake.                                  *)
LEMMA WakesKeep ==
  ASSUME TargetsInv, NEW p \in Pull, Post(p) \/ WakePull(p)
  PROVE  TargetsInv'
<1>1. queue[p] \in Queues /\ poll \in [Thread -> Polls]
  BY DEF TargetsInv, TargetsTyped
<1>2. /\ UNCHANGED <<poolVars, serverVars, indexVars, serves, owner, leaving>>
      /\ queue[p].lock = None
  BY DEF Post, WakePull
<1>3. \E q \in Queues : q.gone = queue[p].gone /\ queue' = [queue EXCEPT ![p] = q]
  <2>1. None \in Thread \cup {None}
    OBVIOUS
  <2>2. CASE queue' = [queue EXCEPT ![p] = [queue[p] EXCEPT !.batches = queue[p].batches + 1]]
    BY <1>1, <2>1, <2>2, QueueFields
  <2>3. CASE queue' = [queue EXCEPT ![p] = [queue[p] EXCEPT !.woken = TRUE]]
    BY <1>1, <2>1, <2>3, QueueFields
  <2> QED
    BY <2>2, <2>3 DEF Post, WakePull
<1>4. /\ poll' = [u \in Thread |-> poll'[u]]
      /\ \A u \in Thread : \/ poll'[u] = poll[u]
                           \/ Notified(u, p) /\ poll'[u] = [poll[u] EXCEPT !.at = "lock"]
  <2>1. CASE Post(p)
    <3>1. CASE UNCHANGED poll
      BY <1>1, <3>1
    <3>2. CASE \E t \in Thread : Notified(t, p) /\ poll' = AtStep(t, "lock")
      BY <1>1, <3>2 DEF AtStep
    <3> QED
      BY <2>1, <3>1, <3>2 DEF Post, NotifyOne
  <2>2. CASE WakePull(p)
    BY <1>1, <2>2 DEF WakePull
  <2> QED
    BY <2>1, <2>2
<1>5. /\ poll' \in [Thread -> Polls]
      /\ \A u \in Thread :
           \/ poll'[u] = poll[u]
           \/ poll[u].at = "wait" /\ poll'[u].at = "lock" /\ poll'[u].target = poll[u].target
  BY <1>4, NotifiedPoll
<1>6. PICK q \in Queues : q.gone = queue[p].gone /\ queue' = [queue EXCEPT ![p] = q]
  BY <1>3
<1> QED
  BY <1>2, <1>5, <1>6, WakingStep

(* PullTarget::detach begins: the queue is stopped, and its indexes are to *)
(* be released.                                                            *)
LEMMA DetachPullKeeps ==
  ASSUME TargetsInv, NEW p \in Pull, DetachPull(p)
  PROVE  TargetsInv'
<1> USE TargetsAssumption DEF TargetsInv
<1>1. /\ queue' = [queue EXCEPT ![p] = [queue[p] EXCEPT !.gone = TRUE, !.batches = 0]]
      /\ poll' = [t \in Thread |-> IF Notified(t, p) THEN [poll[t] EXCEPT !.at = "lock"] ELSE poll[t]]
      /\ queue[p].lock = None /\ leaving' = [leaving EXCEPT ![p] = serves[p]]
      /\ UNCHANGED <<poolVars, serverVars, attached, bound, serves, owner>>
  BY DEF DetachPull, StopTarget, IsPull, indexVars
<1>2. queue[p] \in Queues
  BY DEF TargetsTyped
<1>3. /\ queue' \in [Pull -> Queues] /\ queue'[p].gone = TRUE
      /\ \A r \in Pull \ {p} : queue'[r] = queue[r]
  BY <1>1, <1>2, QueueStopped DEF TargetsTyped
<1>4. \A u \in Thread : \/ poll'[u] = poll[u]
                        \/ Notified(u, p) /\ poll'[u] = [poll[u] EXCEPT !.at = "lock"]
  BY <1>1
<1>5. /\ poll' \in [Thread -> Polls]
      /\ \A u \in Thread :
           \/ poll'[u] = poll[u]
           \/ poll[u].at = "wait" /\ poll'[u].at = "lock" /\ poll'[u].target = poll[u].target
  BY <1>1, <1>4, NotifiedPoll
<1>6. TargetsTyped'
  BY <1>1, <1>3, <1>5 DEF TargetsTyped
<1>7. PollHolds'
  <2> SUFFICES ASSUME NEW u \in Thread PROVE PollSound(u)'
    BY DEF PollHolds
  <2>1. queue[p].lock # u
    BY <1>1
  <2>2. /\ \A r \in Pull \ {p} : queue'[r] = queue[r] /\ owner'[r] = owner[r]
        /\ \A r \in Pull \ {p} : ~queue[r].gone => \A w \in ToSet(serves[r]) : bound'[w] = bound[w]
        /\ UNCHANGED serves
    BY <1>1, <1>3
  <2> QED
    BY <2>1, <2>2, <1>5, OtherPoll
<1>8. TargetInPlace'
  BY <1>1, <1>3 DEF TargetInPlace, IsPull, TargetsTyped
<1>9. BoundEverywhere'
  BY <1>1, <1>3 DEF BoundEverywhere
<1>10. FreeIndexClean'
  BY <1>1 DEF FreeIndexClean, poolVars, serverVars
<1> QED
  BY <1>1, <1>6, <1>7, <1>8, <1>9, <1>10, PoolKept

(* bind_thread: the index was bound to nobody.                             *)
LEMMA BindThreadKeeps ==
  ASSUME TargetsInv, NEW t \in Thread, NEW w \in Index, BindThread(t, w)
  PROVE  TargetsInv'
<1> USE TargetsAssumption DEF TargetsInv
<1>1. /\ holder[w] # None /\ bound[w] = None /\ bound' = [bound EXCEPT ![w] = t]
      /\ UNCHANGED <<poolVars, serverVars, attached, serves, queue, owner, leaving, poll>>
  BY DEF BindThread, pullVars
<1>2. \A v \in Index : bound[v] # None => bound'[v] = bound[v]
  BY <1>1 DEF TargetsTyped
<1>3. \A q \in Pull : ToSet(serves[q]) \subseteq Index
  BY ListOf DEF TargetsTyped
<1>4. TargetsTyped'
  BY <1>1 DEF TargetsTyped
<1>5. FreeIndexClean'
  BY <1>1 DEF FreeIndexClean, TargetsTyped, poolVars, serverVars
<1>6. TargetInPlace'
  BY <1>1 DEF TargetInPlace, IsPull
<1>7. PollHolds'
  <2> SUFFICES ASSUME NEW u \in Thread PROVE PollSound(u)'
    BY DEF PollHolds
  <2>1. PollSound(u) /\ u # None
    BY DEF PollHolds
  <2> QED
    BY <2>1, <1>1, <1>2, <1>3 DEF PollSound
<1>8. BoundEverywhere'
  BY <1>1, <1>2, <1>3 DEF BoundEverywhere
<1> QED
  BY <1>1, <1>4, <1>5, <1>6, <1>7, <1>8, PoolKept

(* bind: the poll that goes through the indexes of its target holds the    *)
(* queue's lock, so the target is on every index it serves and no other    *)
(* poll binds one of them.                                                 *)
LEMMA PollBindKeeps ==
  ASSUME TargetsInv, NEW t \in Thread, PollBind(t)
  PROVE  TargetsInv'
<1> USE TargetsAssumption DEF TargetsInv
<1>1. PICK p, l : p = poll[t].target /\ l = poll[t].todo
  OBVIOUS
<1>2. PICK w : w = Head(l)
  OBVIOUS
<1>3. /\ poll[t].at = "bind" /\ l # <<>>
      /\ UNCHANGED <<poolVars, serverVars, attached, serves, owner, leaving>>
  BY <1>1 DEF PollBind
<1>4. /\ p \in Pull /\ queue[p].lock = t /\ ~queue[p].gone /\ owner[p] = None
      /\ ToSet(l) \subseteq ToSet(serves[p]) /\ serves[p] # <<>>
      /\ \A v \in ToSet(serves[p]) : v \in ToSet(l) \/ bound[v] = t
  BY <1>1, <1>3 DEF PollHolds, PollSound
<1>5. poll[t] \in Polls /\ l \in Seq(Index) /\ queue[p] \in Queues
  BY <1>1, <1>4 DEF TargetsTyped, Polls
<1>6. w \in ToSet(l) /\ Tail(l) \in Seq(Index) /\ ToSet(l) = {w} \cup ToSet(Tail(l))
  BY <1>2, <1>3, <1>5, ListParts
<1>7. w \in Index /\ attached[w] = p
  BY <1>4, <1>5, <1>6, ListOf DEF TargetInPlace
<1>8. CASE bound[w] \in {None, t}
  <2>1. /\ bound' = [bound EXCEPT ![w] = t] /\ UNCHANGED queue
        /\ poll' = [poll EXCEPT ![t] =
                      [poll[t] EXCEPT !.todo = Tail(l),
                                      !.took = poll[t].took \cup {v \in {w} : bound[v] # t}]]
    BY <1>1, <1>2, <1>8 DEF PollBind
  <2>2. PICK y : y = [poll[t] EXCEPT !.todo = Tail(l)]
    OBVIOUS
  <2>3. y \in Polls /\ y.at = "bind" /\ y.target = p /\ y.todo = Tail(l)
    BY <2>2, <1>1, <1>3, <1>5, <1>6 DEF Polls
  <2>4. PICK more : more = poll[t].took \cup {v \in {w} : bound[v] # t}
    OBVIOUS
  <2>5. more \in SUBSET Index
    BY <2>4, <1>5, <1>7 DEF Polls
  <2>6. PICK x : x = [y EXCEPT !.took = more]
    OBVIOUS
  <2>7. x \in Polls /\ x.at = "bind" /\ x.target = p /\ x.todo = Tail(l)
    BY <2>3, <2>5, <2>6 DEF Polls
  <2>8. poll' = [poll EXCEPT ![t] = x]
    BY <2>1, <2>2, <2>4, <2>6
  <2>9. /\ poll' \in [Thread -> Polls] /\ poll'[t] = x
        /\ \A u \in Thread \ {t} : poll'[u] = poll[u]
    BY <2>7, <2>8 DEF TargetsTyped
  <2>10. /\ bound' \in [Index -> Thread \cup {None}] /\ bound'[w] = t
         /\ \A v \in Index \ {w} : bound'[v] = bound[v]
    BY <2>1, <1>7 DEF TargetsTyped
  <2>11. \A q \in Pull \ {p} : ~queue[q].gone =>
           \A v \in ToSet(serves[q]) : v \in Index \ {w} /\ bound'[v] = bound[v]
    <3> SUFFICES ASSUME NEW q \in Pull \ {p}, ~queue[q].gone, NEW v \in ToSet(serves[q])
                 PROVE  v \in Index \ {w} /\ bound'[v] = bound[v]
      OBVIOUS
    <3>1. v \in Index /\ attached[v] = q
      BY ListOf DEF TargetInPlace, TargetsTyped
    <3> QED
      BY <3>1, <1>7, <2>10
  <2>12. TargetsTyped'
    BY <2>1, <2>9, <2>10, <1>3 DEF TargetsTyped
  <2>13. FreeIndexClean'
    BY <2>10, <1>3, <1>4, <1>7 DEF FreeIndexClean, poolVars, serverVars
  <2>14. TargetInPlace'
    BY <2>1, <1>3 DEF TargetInPlace, IsPull
  <2>15. PollHolds'
    <3> SUFFICES ASSUME NEW u \in Thread PROVE PollSound(u)'
      BY DEF PollHolds
    <3>1. CASE u = t
      <4>1. \A v \in ToSet(serves[p]) : v \in ToSet(Tail(l)) \/ bound'[v] = t
        <5>1. \A v \in ToSet(serves[p]) : v \in Index
          BY <1>4, ListOf DEF TargetsTyped
        <5> QED
          BY <5>1, <1>4, <1>6, <2>10
      <4> QED
        BY <3>1, <4>1, <2>1, <2>7, <2>9, <1>3, <1>4, <1>6 DEF PollSound
    <3>2. CASE u # t
      <4>1. queue[p].lock # u
        BY <3>2, <1>4
      <4>2. /\ \A r \in Pull \ {p} : queue'[r] = queue[r] /\ owner'[r] = owner[r]
            /\ \A r \in Pull \ {p} : ~queue[r].gone =>
                 \A v \in ToSet(serves[r]) : bound'[v] = bound[v]
            /\ UNCHANGED serves /\ poll'[u] = poll[u]
        BY <3>2, <2>1, <2>9, <2>11, <1>3
      <4> QED
        BY <4>1, <4>2, <1>4, OtherPoll
    <3> QED
      BY <3>1, <3>2
  <2>16. BoundEverywhere'
    BY <2>1, <2>11, <1>3, <1>4 DEF BoundEverywhere
  <2> QED
    BY <2>12, <2>13, <2>14, <2>15, <2>16, <1>3, PoolKept
<1>9. CASE bound[w] \notin {None, t}
  <2>1. poll' = AtStep(t, "refused") /\ queue' = Unlocked(p) /\ UNCHANGED bound
    BY <1>1, <1>2, <1>9 DEF PollBind
  <2>2. PICK q : q = [queue[p] EXCEPT !.lock = None]
    OBVIOUS
  <2>3. q \in Queues /\ q.gone = queue[p].gone /\ queue' = [queue EXCEPT ![p] = q]
    BY <1>5, <2>1, <2>2, QueueFields DEF Unlocked
  <2>4. PICK x : x = [poll[t] EXCEPT !.at = "refused"]
    OBVIOUS
  <2>5. x \in Polls /\ x.at = "refused" /\ poll' = [poll EXCEPT ![t] = x]
    BY <1>5, <2>1, <2>4, PollFields DEF AtStep
  <2>6. UNCHANGED <<poolVars, serverVars, indexVars, serves, owner, leaving>>
    BY <1>3, <2>1 DEF indexVars
  <2>7. queue[p].lock \in {None, t} /\ p \in Pull
    BY <1>4
  <2> HIDE DEF TargetsInv
  <2> QED
    BY <2>3, <2>5, <2>6, <2>7, LockStep
<1> QED
  BY <1>8, <1>9

(* PullTarget.bound is set once every index is bound to the thread.        *)
LEMMA PollBoundKeeps ==
  ASSUME TargetsInv, NEW t \in Thread, PollBound(t)
  PROVE  TargetsInv'
<1> USE TargetsAssumption DEF TargetsInv
<1>1. PICK p : p = poll[t].target
  OBVIOUS
<1>2. /\ poll[t].at = "bind" /\ poll[t].todo = <<>> /\ owner' = [owner EXCEPT ![p] = t]
      /\ poll' = [poll EXCEPT ![t] = [poll[t] EXCEPT !.at = "locked", !.took = {}]]
      /\ UNCHANGED <<poolVars, serverVars, attached, bound, serves, queue, leaving>>
  BY <1>1 DEF PollBound, indexVars
<1>3. /\ p \in Pull /\ queue[p].lock = t /\ ~queue[p].gone /\ serves[p] # <<>>
      /\ \A v \in ToSet(serves[p]) : bound[v] = t
  BY <1>1, <1>2, ListNone DEF PollHolds, PollSound
<1>4. PICK y : y = [poll[t] EXCEPT !.at = "locked"]
  OBVIOUS
<1>5. y \in Polls /\ y.at = "locked" /\ y.target = p
  BY <1>1, <1>4, PollFields DEF TargetsTyped
<1>6. PICK x : x = [y EXCEPT !.took = {}]
  OBVIOUS
<1>7. x \in Polls /\ x.at = "locked" /\ x.target = p /\ poll' = [poll EXCEPT ![t] = x]
  BY <1>2, <1>4, <1>5, <1>6 DEF Polls
<1>8. /\ poll' \in [Thread -> Polls] /\ poll'[t] = x
      /\ \A u \in Thread \ {t} : poll'[u] = poll[u]
      /\ owner' \in [Pull -> Thread \cup {None}] /\ owner'[p] = t
      /\ \A q \in Pull \ {p} : owner'[q] = owner[q]
  BY <1>2, <1>3, <1>7 DEF TargetsTyped
<1>9. TargetsTyped'
  BY <1>2, <1>8 DEF TargetsTyped
<1>10. FreeIndexClean'
  BY <1>2 DEF FreeIndexClean, poolVars, serverVars
<1>11. TargetInPlace'
  BY <1>2, <1>3, <1>8 DEF TargetInPlace, IsPull
<1>12. PollHolds'
  <2> SUFFICES ASSUME NEW u \in Thread PROVE PollSound(u)'
    BY DEF PollHolds
  <2>1. CASE u = t
    BY <2>1, <1>2, <1>3, <1>7, <1>8 DEF PollSound
  <2>2. CASE u # t
    <3>1. queue[p].lock # u
      BY <2>2, <1>3
    <3>2. /\ \A r \in Pull \ {p} : queue'[r] = queue[r] /\ owner'[r] = owner[r]
          /\ \A r \in Pull \ {p} : ~queue[r].gone => \A w \in ToSet(serves[r]) : bound'[w] = bound[w]
          /\ UNCHANGED serves /\ poll'[u] = poll[u]
      BY <2>2, <1>2, <1>8
    <3> QED
      BY <3>1, <3>2, <1>3, OtherPoll
  <2> QED
    BY <2>1, <2>2
<1>13. BoundEverywhere'
  BY <1>2, <1>3, <1>8 DEF BoundEverywhere, TargetInPlace
<1> QED
  BY <1>2, <1>9, <1>10, <1>11, <1>12, <1>13, PoolKept

-----------------------------------------------------------------------------
(* The theorems.                                                           *)

(* A step of nobody.                                                       *)
LEMMA StutterKeeps ==
  ASSUME TargetsInv, UNCHANGED vars
  PROVE  TargetsInv'
<1>1. UNCHANGED <<poolVars, serverVars, indexVars, pullVars, poll>>
  BY DEF vars, poolVars, serverVars, indexVars, pullVars
<1>2. FreeIndexClean'
  BY <1>1 DEF TargetsInv, FreeIndexClean, poolVars, serverVars, indexVars
<1> QED
  BY <1>1, <1>2, TargetsKept, PoolKept DEF TargetsInv, indexVars

(* Every step keeps the invariant.                                         *)
LEMMA StepKeeps == TargetsInv /\ [Next]_vars => TargetsInv'
<1> SUFFICES ASSUME TargetsInv, [Next]_vars PROVE TargetsInv'
  OBVIOUS
<1>1. ASSUME NEW s \in Server, ServerStep(s) PROVE TargetsInv'
  BY <1>1, NewServerKeeps, ServerKeeps, FinishNextKeeps, FinishEndKeeps, AttachOwnKeeps,
     DetachKeeps, AttachPullKeeps DEF ServerStep
<1>2. ASSUME NEW p \in Pull, PullStep(p) PROVE TargetsInv'
  BY <1>2, DetachPullKeeps, DetachNextKeeps, WakesKeep DEF PullStep
<1>3. ASSUME NEW t \in Thread, ThreadStep(t) PROVE TargetsInv'
  BY <1>3, BindThreadKeeps, PollBeginKeeps, PollBindKeeps, PollEndsKeeps, PollBoundKeeps,
     PollLoopKeeps, PollRelocksKeeps DEF ThreadStep
<1> QED
  BY <1>1, <1>2, <1>3, StutterKeeps DEF Next

(* The inductive invariant of the registry, the targets and the polls.     *)
THEOREM TargetsHold == Spec => []TargetsInv
BY InitInv, StepKeeps, PTL DEF Spec

(* registry::claim, Claim::drop: no target and no thread is carried from   *)
(* one server to the next, whatever servers, targets and polls there are.  *)
THEOREM FreeIndexesClean == Spec => []FreeIndexClean
<1>1. TargetsInv => FreeIndexClean
  BY DEF TargetsInv
<1> QED
  BY <1>1, TargetsHold, PTL

(* PullTarget::bind: the thread that owns a live target is the thread of   *)
(* every index the target serves.                                          *)
THEOREM OwnersBound == Spec => []BoundEverywhere
<1>1. TargetsInv => BoundEverywhere
  BY DEF TargetsInv
<1> QED
  BY <1>1, TargetsHold, PTL

(* Only the release of an index and the detach of a pull target stop one.  *)
LEMMA QueuesStay ==
  ASSUME TargetsInv, NEW p \in Pull,
         \/ UNCHANGED queue
         \/ \E t \in Thread : \E q \in Pull : PollBegin(t, q)
         \/ \E t \in Thread : PollBind(t) \/ PollTakes(t) \/ PollWaits(t) \/ PollRelocks(t)
         \/ \E q \in Pull : Post(q) \/ WakePull(q)
  PROVE  queue'[p].gone = queue[p].gone
<1>1. queue \in [Pull -> Queues] /\ queue[p] \in Queues
  BY DEF TargetsInv, TargetsTyped
<1>a. ASSUME NEW x \in Thread \cup {None}
      PROVE  /\ [queue[p] EXCEPT !.lock = x].gone = queue[p].gone
             /\ [queue[p] EXCEPT !.woken = FALSE, !.lock = x].gone = queue[p].gone
             /\ queue[p].batches > 0 =>
                  [queue[p] EXCEPT !.batches = queue[p].batches - 1, !.lock = x].gone = queue[p].gone
  <2>1. PICK q \in Queues : q = queue[p]
    BY <1>1
  <2>2. /\ [q EXCEPT !.lock = x].gone = q.gone
        /\ [q EXCEPT !.woken = FALSE, !.lock = x].gone = q.gone
        /\ q.batches > 0 => [q EXCEPT !.batches = q.batches - 1, !.lock = x].gone = q.gone
    BY QueueFields
  <2> QED
    BY <2>1, <2>2
<1>0. ASSUME NEW q, NEW r, queue' = [queue EXCEPT ![q] = r], q = p => r.gone = queue[p].gone
      PROVE  queue'[p].gone = queue[p].gone
  BY <1>0, <1>1
<1>2. ASSUME NEW q, NEW x \in Thread \cup {None},
             queue' = [queue EXCEPT ![q] = [queue[q] EXCEPT !.lock = x]]
      PROVE  queue'[p].gone = queue[p].gone
  <2>1. q = p => [queue[q] EXCEPT !.lock = x].gone = queue[p].gone
    BY <1>a
  <2> QED
    BY <1>0, <1>2, <2>1
<1>3. ASSUME NEW t \in Thread, NEW q \in Pull, PollBegin(t, q)
      PROVE  queue'[p].gone = queue[p].gone
  BY <1>2, <1>3 DEF PollBegin, Locked
<1>4. ASSUME NEW t \in Thread, PollBind(t) \/ PollWaits(t) \/ PollRelocks(t)
      PROVE  queue'[p].gone = queue[p].gone
  BY <1>2, <1>4 DEF PollBind, PollWaits, PollRelocks, Locked, Unlocked
<1>5. ASSUME NEW t \in Thread, PollTakes(t)
      PROVE  queue'[p].gone = queue[p].gone
  <2>1. PICK q : q = poll[t].target
    OBVIOUS
  <2>2. \/ queue' = Unlocked(q)
        \/ queue' = [queue EXCEPT ![q] = [queue[q] EXCEPT !.woken = FALSE, !.lock = None]]
        \/ /\ queue[q].batches > 0
           /\ queue' = [queue EXCEPT ![q] =
                          [queue[q] EXCEPT !.batches = queue[q].batches - 1, !.lock = None]]
    BY <1>5, <2>1 DEF PollTakes
  <2>3. CASE queue' = Unlocked(q)
    BY <1>2, <2>3 DEF Unlocked
  <2>4. CASE queue' = [queue EXCEPT ![q] = [queue[q] EXCEPT !.woken = FALSE, !.lock = None]]
    <3>1. q = p => [queue[q] EXCEPT !.woken = FALSE, !.lock = None].gone = queue[p].gone
      BY <1>a
    <3> QED
      BY <1>0, <2>4, <3>1
  <2>5. CASE /\ queue[q].batches > 0
             /\ queue' = [queue EXCEPT ![q] =
                            [queue[q] EXCEPT !.batches = queue[q].batches - 1, !.lock = None]]
    <3>1. q = p => [queue[q] EXCEPT !.batches = queue[q].batches - 1, !.lock = None].gone
                     = queue[p].gone
      BY <1>a, <2>5
    <3> QED
      BY <1>0, <2>5, <3>1
  <2> QED
    BY <2>2, <2>3, <2>4, <2>5
<1>6. ASSUME NEW q \in Pull, Post(q) \/ WakePull(q)
      PROVE  queue'[p].gone = queue[p].gone
  <2>1. \/ queue' = [queue EXCEPT ![q] = [queue[q] EXCEPT !.batches = queue[q].batches + 1]]
        \/ queue' = [queue EXCEPT ![q] = [queue[q] EXCEPT !.woken = TRUE]]
    BY <1>6 DEF Post, WakePull
  <2>2. None \in Thread \cup {None}
    OBVIOUS
  <2>3. q = p => /\ [queue[q] EXCEPT !.batches = queue[q].batches + 1].gone = queue[p].gone
                 /\ [queue[q] EXCEPT !.woken = TRUE].gone = queue[p].gone
    BY <1>1, <2>2, QueueFields
  <2> QED
    BY <1>0, <2>1, <2>3
<1> QED
  BY <1>3, <1>4, <1>5, <1>6

(* What a step that stops a pull target is: a release of one of its        *)
(* indexes by the stop of the server that holds it, or its own detach.     *)
LEMMA StopIsOwn ==
  ASSUME TargetsInv, [Next]_vars, NEW p \in Pull, ~queue[p].gone, queue'[p].gone
  PROVE  \/ leaving'[p] # <<>>
         \/ \E w \in ToSet(serves[p]) : holder[w] # None /\ lifecycle[holder[w]] = "Stopping"
<1>1. leaving \in [Pull -> Seq(Index)]
  BY DEF TargetsInv, TargetsTyped
<1>2. ASSUME NEW w \in Index, ReleaseIndex(w)
      PROVE  p = attached[w] /\ w \in ToSet(serves[p])
  BY <1>2, ReleaseEffect DEF TargetsInv, TargetInPlace, IsPull
<1>3. ASSUME NEW s \in Server, FinishNext(s)
      PROVE  \E w \in ToSet(serves[p]) : holder[w] # None /\ lifecycle[holder[w]] = "Stopping"
  <2>1. PICK w : w = Head(finishing[s])
    OBVIOUS
  <2>2. lifecycle[s] = "Stopping" /\ finishing[s] # <<>> /\ ReleaseIndex(w)
    BY <1>3, <2>1 DEF FinishNext
  <2>3. finishing[s] \in Seq(Index)
    BY DEF TargetsInv, PoolTyped
  <2>4. w \in ToSet(finishing[s]) /\ w \in Index
    BY <2>1, <2>2, <2>3, ListParts, ListOf
  <2>5. holder[w] = s
    BY <2>2, <2>4 DEF TargetsInv, StopReleases, FreeIndexClean
  <2> QED
    BY <2>2, <2>4, <2>5, <1>2, TargetsAssumption
<1>4. ASSUME NEW s \in Server, Detach(s)
      PROVE  leaving'[p] # <<>>
  <2>1. PICK w \in ToSet(indexes[s]) :
             /\ ReleaseIndex(w)
             /\ leaving' = IF IsPull(attached[w])
                           THEN [leaving EXCEPT ![attached[w]] = serves[attached[w]]] ELSE leaving
    BY <1>4 DEF Detach
  <2>2. w \in Index
    BY ListOf DEF TargetsInv, PoolTyped
  <2>3. p = attached[w] /\ w \in ToSet(serves[p])
    BY <2>1, <2>2, <1>2
  <2>4. serves[p] # <<>>
    BY <2>3, ListSome
  <2> QED
    BY <2>1, <2>3, <2>4, <1>1 DEF IsPull
<1>5. ASSUME NEW q \in Pull, DetachPull(q)
      PROVE  leaving'[p] # <<>>
  <2>1. CASE q = p
    BY <2>1, <1>1, <1>5 DEF DetachPull
  <2>2. CASE q # p
    BY <2>2, <1>5 DEF DetachPull, StopTarget, IsPull, TargetsInv, TargetsTyped
  <2> QED
    BY <2>1, <2>2
<1>6. ASSUME NEW q \in Pull, DetachNext(q)
      PROVE  FALSE
  <2>1. PICK w : w = Head(leaving[q])
    OBVIOUS
  <2>2. leaving[q] # <<>> /\ attached[w] = q /\ ReleaseIndex(w)
    BY <1>6, <2>1 DEF DetachNext
  <2>3. w \in Index
    BY <2>1, <2>2, <1>1, ListParts, ListOf
  <2>4. p = q /\ queue[q].gone
    BY <2>2, <2>3, <1>2 DEF TargetsInv, TargetInPlace
  <2> QED
    BY <2>4
<1>7. CASE UNCHANGED queue
  BY <1>7
<1>8. ASSUME NEW s \in Server, ServerStep(s)
      PROVE  UNCHANGED queue \/ FinishNext(s) \/ Detach(s)
  BY <1>8 DEF ServerStep, NewServer, Start, Started, NotStarted, Shutdown, Reap, FinishEnd,
              AttachOwn, AttachPull, pullVars
<1>9. ASSUME NEW t \in Thread, ThreadStep(t)
      PROVE  FALSE
  <2>1. \/ UNCHANGED queue \/ \E q \in Pull : PollBegin(t, q)
        \/ PollBind(t) \/ PollTakes(t) \/ PollWaits(t) \/ PollRelocks(t)
    BY <1>9 DEF ThreadStep, BindThread, PollRefused, PollBound, PollTimesOut, pullVars
  <2> QED
    BY <2>1, QueuesStay
<1>10. ASSUME NEW q \in Pull, PullStep(q)
       PROVE  leaving'[p] # <<>>
  BY <1>5, <1>6, <1>10, QueuesStay DEF PullStep
<1>11. CASE UNCHANGED vars
  BY <1>7, <1>11 DEF vars
<1> QED
  BY <1>3, <1>4, <1>7, <1>8, <1>9, <1>10, <1>11 DEF Next

(* WorkerShared::release_target: a detach still in its loop stops no       *)
(* target but its own, whoever took the index meanwhile.                   *)
THEOREM TargetsStopOwn == Spec => StoppedByOwn
<1>1. TargetsInv /\ [Next]_vars =>
        [\A p \in Pull : ~queue[p].gone /\ queue'[p].gone =>
           \/ leaving'[p] # <<>>
           \/ \E w \in ToSet(serves[p]) : holder[w] # None /\ lifecycle[holder[w]] = "Stopping"]_vars
  BY StopIsOwn
<1> QED
  BY <1>1, TargetsHold, PTL DEF Spec, StoppedByOwn
=============================================================================
