---------------------------- MODULE SlotLeaseInv ----------------------------
(***************************************************************************)
(* The inductive invariant behind the safety properties of SlotLeaseProps, *)
(* as named parts.  Each part is true of every reachable state; together   *)
(* they are preserved by every step.                                       *)
(***************************************************************************)
EXTENDS SlotLeaseProps

InUse == {"Parsing", "WorkerOwned", "Leased", "Completing", "Closed"}
HostStates == {"Leased", "Completing", "Closed"}

(* What the types alone do not say and the arithmetic of a step needs.     *)
PhaseOK ==
  /\ wpc = "fill" => published < MaxEpoch
  /\ wpc = "offer" => published > 0
CompleteSteps == {"check", "apply", "apply_id"}
CallOK ==
  \A t \in Thread : call[t].op # "none" =>
    call[t].id \in Id /\ (call[t].at \in CompleteSteps <=> call[t].op = "complete")
TypeInv == TypeOK /\ PhaseOK /\ CallOK

(* The epoch a target may have taken: one less while a batch is offered.   *)
Posted == IF wpc = "offer" THEN published - 1 ELSE published

EpochInv ==
  /\ acked <= Posted /\ delivered <= Posted /\ floor <= acked
  /\ \A k \in 1..Len(quarantine) : quarantine[k][2] <= Posted
  /\ \A s \in seen : s[2] <= delivered
  /\ \A t \in Thread : call[t].op = "complete" => call[t].epoch <= delivered

-----------------------------------------------------------------------------
(* The slots: what the word, the lists and the waiters say of each other.  *)

(* No generation of a slot comes round: every retirement follows a claim.  *)
GenInv ==
  \A i \in Slot : word[i].gen + (IF word[i].state = "Free" THEN 0 ELSE 1) <= requests

(* Claim and hold are one step here, and only a close sets the flag.       *)
StateInv ==
  \A i \in Slot : word[i].state # "Parsing" /\ (word[i].cancel => word[i].state = "Closed")

(* The free indexes are on one list, once, and a slot in use is on none.   *)
ListInv ==
  /\ \A i \in Slot : word[i].state = "Free" <=> i \in free \cup Quarantined
  /\ free \cap Quarantined = {}
  /\ \A k, m \in 1..Len(quarantine) : quarantine[m][1] = quarantine[k][1] => m = k

(* The payload of a slot in use, and of one in the quarantine.             *)
PayloadInv ==
  /\ \A i \in Slot : word[i].state # "Free" => payload[i] = word[i].gen
  /\ \A i \in Quarantined : payload[i] + 1 = word[i].gen

(* A slot in use is waited for in the state its future knows it in, or the *)
(* late list will retire it.                                               *)
StatesOf(at) ==
  CASE at = "waiting" -> {"WorkerOwned", "Leased"}
    [] at = "sealed"  -> {"Leased"}
    [] at = "gone"    -> {"WorkerOwned", "Closed"}
    [] OTHER          -> {"Completing"}

WaiterInv ==
  \A i \in Slot :
    /\ waiter[i].at # "none" =>
         waiter[i].gen = word[i].gen /\ word[i].state \in StatesOf(waiter[i].at)
    /\ waiter[i].at = "none" /\ word[i].state # "Free" => IdOf(i) \in late

LateInv ==
  \A id \in late : /\ id.gen = word[id.slot].gen /\ waiter[id.slot].at = "none"
                   /\ word[id.slot].state \in {"Completing", "Closed"}

(* An id a host holds is stale, or names a slot leased in its epoch.       *)
SeenInv ==
  \A s \in seen :
    /\ s[1].gen <= word[s[1].slot].gen
    /\ s[1].gen = word[s[1].slot].gen =>
         word[s[1].slot].state \in HostStates /\ lease_epoch[s[1].slot] = s[2]

(* A job in the queue is stale or still the worker's, with its future      *)
(* waiting; one in the batch being posted is leased, and no host knows it. *)
ReadyInv ==
  \A k \in 1..Len(ready) :
    LET i == ready[k].slot
    IN  /\ ready[k].gen <= word[i].gen
        /\ ready[k].gen = word[i].gen => word[i].state = "WorkerOwned" /\ waiter[i].at = "waiting"
        /\ \A m \in 1..Len(ready) : ready[m] = ready[k] => m = k

PostingInv ==
  /\ \A k \in 1..Len(posting) :
       LET i == posting[k].slot
       IN  /\ posting[k] \notin SeenIds
           /\ posting[k].gen = word[i].gen /\ word[i].state = "Leased" /\ waiter[i].at = "waiting"
           /\ lease_epoch[i] = Posted + 1
           /\ \A m \in 1..Len(posting) : posting[m] = posting[k] => m = k
  /\ posting # <<>> => wpc \in {"fill", "offer"}

(* The pin count, and that a pinned slot keeps its generation.             *)
PinInv ==
  /\ \A t \in Thread : \A id \in pins[t] : id \in SeenIds /\ id.gen = word[id.slot].gen
  /\ \A i \in Slot : word[i].readers = Cardinality(Pinners(IdOf(i)))

(* A call, or a completion left for the worker, is of an id a host holds.  *)
HandedInv ==
  /\ inbox.completed \subseteq SeenIds
  /\ \A t \in Thread : call[t].op # "none" => call[t].id \in SeenIds

SlotInv ==
  /\ GenInv /\ StateInv /\ ListInv /\ PayloadInv /\ WaiterInv /\ LateInv
  /\ SeenInv /\ ReadyInv /\ PostingInv /\ PinInv /\ HandedInv

(* The quarantine is in the order of its stamps, and a stamp covers every  *)
(* batch its slot was delivered in.                                        *)
StampInv ==
  \A k \in 1..Len(quarantine) :
    /\ \A m \in 1..k : quarantine[m][2] <= quarantine[k][2]
    /\ \A s \in seen : s[1].slot = quarantine[k][1] => s[2] <= quarantine[k][2]

-----------------------------------------------------------------------------
(* The target and the threads.                                             *)

(* The target the worker posts to, or is about to, is live, or the loss of *)
(* it is on its way: a stop whose detach is to come, or a detach the       *)
(* worker has not drained.                                                 *)
Lost == attached = "stopped" \/ inbox.detach
TargetInv ==
  /\ inbox.detach => detaching
  /\ inbox.attach # NoTarget => Alive(inbox.attach) \/ attached = "stopped"
  /\ taking # NoTarget => (Alive(taking) \/ Lost) /\ wpc \in {"lose", "lose_jobs"}
  /\ target # NoTarget /\ wpc # "lose" => Alive(target) \/ Lost
  /\ wpc \in {"lose", "lose_jobs"} => detaching
  /\ wpc \in {"gone", "gone_jobs"} => Lost
  /\ wpc \in {"fill", "offer"} => target # NoTarget

(* An acknowledgment in flight comes from the bound thread, or waits for   *)
(* a settle that will refuse it, or is refused already.                    *)
AckInv ==
  \A t \in Thread :
    call[t].op = "complete" /\ call[t].epoch # 0 =>
      bound = t \/ detaching \/ call[t].epoch <= acked

(* The rule under which a thread reads the views of epoch e.               *)
RuleHolds(t, e) == bound = t /\ ~detaching /\ attached # "stopped" /\ e > acked

(* The request an id names is still in its slot, or its slot waits in the  *)
(* quarantine for epoch e.                                                 *)
Retained(id, e) ==
  \/ word[id.slot].gen = id.gen
  \/ /\ word[id.slot].gen = id.gen + 1
     /\ \E k \in 1..Len(quarantine) : quarantine[k][1] = id.slot /\ quarantine[k][2] >= e

(* The locks, and what is done under them.                                 *)
LockInv ==
  \A t \in Thread : call[t].op # "none" =>
    LET c == call[t]
    IN  /\ c.at = "recheck" /\ c.id.gen = word[c.id.slot].gen => c.snap = c.id.gen
        /\ c.at \in {"locked", "inside"} => lock[c.id.slot] = t
        /\ c.at = "inside" => payload[c.id.slot] = c.id.gen
        /\ c.at = "inside" /\ c.op \in {"write", "body_alloc"} =>
             waiter[c.id.slot] # [gen |-> c.id.gen, at |-> "taken"]
        /\ c.op = "body_alloc" => c.id \in pins[t]

(* How far the calls under the view rule have got: each step past a load   *)
(* keeps what the load established, unless the era moved on.               *)
RuleInv ==
  \A t \in Thread : call[t].op \in {"view", "pinned_read"} =>
    LET c == call[t]
        current == c.era = era /\ attached # "stopped"
    IN  IF c.era = 0 THEN c.at # "bound" => c.id \in pins[t]
        ELSE /\ c.era <= era
             /\ current => bound = t
             /\ current /\ c.at # "detaching" => ~detaching
             /\ c.id.gen = word[c.id.slot].gen /\ c.at \notin {"detaching", "epoch"} =>
                  c.epoch = lease_epoch[c.id.slot]
             /\ current /\ c.at \notin {"detaching", "epoch", "acked"} => c.epoch > acked
             /\ c.at = "inside" => c.epoch <= delivered /\ (current => Retained(c.id, c.epoch))

(* Which steps a call under the rule, and one without, goes through.       *)
StepInv ==
  \A t \in Thread : call[t].op # "none" =>
    /\ call[t].at # "start"
    /\ call[t].at \in {"detaching", "epoch", "acked"} => call[t].era # 0
    /\ call[t].at = "bound" => call[t].era = 0
    /\ call[t].at \in {"bound", "detaching", "epoch", "acked"} =>
         call[t].op \in {"view", "pinned_read"}

(* A view is protected by a pin, or by the rule: then its slot still holds *)
(* the request, or waits in the quarantine behind an epoch not yet         *)
(* acknowledged.                                                           *)
ViewInv ==
  \A v \in views :
    IF v.era = 0 THEN v.id \in pins[v.thread]
    ELSE /\ v.era = era
         /\ RuleHolds(v.thread, v.epoch)
         /\ v.epoch <= delivered
         /\ v.id \in SeenIds
         /\ Retained(v.id, v.epoch)

(* A region is of a pinned slot, staged, that the worker has not taken the *)
(* response of.                                                            *)
RegionInv ==
  \A t \in Thread : \A id \in regions[t] :
    /\ id \in pins[t] /\ staged[id.slot]
    /\ waiter[id.slot].at # "taken"
    /\ \A u \in Thread \ {t} : id \notin regions[u]

LeaseInv ==
  /\ TypeInv /\ EpochInv /\ SlotInv /\ StampInv
  /\ TargetInv /\ AckInv /\ LockInv /\ StepInv /\ RuleInv /\ ViewInv /\ RegionInv
=============================================================================
