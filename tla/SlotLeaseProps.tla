--------------------------- MODULE SlotLeaseProps ---------------------------
(***************************************************************************)
(* What the lease protocol promises to hosts and to the worker: the        *)
(* statements arena.rs lists (lines 17-50) and the ones access.rs makes of *)
(* views, pins and body regions.                                           *)
(***************************************************************************)
EXTENDS SlotLease

(* A pointer handed out by with_view or with_pinned_read keeps pointing at *)
(* the request it was taken from until the later of the thread's unpin and *)
(* its acknowledgment: no release, reuse, settle or stale call rewrites    *)
(* the payload under it.                                                   *)
ViewFrozen == \A v \in views : payload[v.id.slot] = v.id.gen

(* with_values has no view rule: a snapshot that passes the second check   *)
(* of read_view saw only its own request, whatever was released or claimed *)
(* between the two loads.                                                  *)
SnapshotOwn ==
  \A t \in Thread :
    At(t, "recheck") /\ check_lease(CallWord(t), call[t].id.gen)
      => call[t].snap = call[t].id.gen

(* What runs under the lock after the second check (with_read, with_write) *)
(* runs on the request its id names, and a write never runs on a response  *)
(* the worker already took.                                                *)
LockedAccessOwn ==
  \A t \in Thread :
    At(t, "inside") =>
      /\ payload[CallSlot(t)] = call[t].id.gen
      /\ lock[CallSlot(t)] = t
      /\ call[t].op \in {"write", "body_alloc"} =>
           waiter[CallSlot(t)] # [gen |-> call[t].id.gen, at |-> "taken"]

Pinners(id) == {t \in Thread : id \in pins[t]}

(* The word counts exactly the threads whose pin table holds the id, and a *)
(* pinned slot is never retired: its generation is the id's.               *)
PinsCounted ==
  /\ \A i \in Slot : word[i].readers = Cardinality(Pinners(IdOf(i)))
  /\ \A t \in Thread : \A id \in pins[t] :
       check(word[id.slot], id.gen, {"Leased", "Completing", "Closed"})

(* The pins are counted, and an open body region is the pinning thread's   *)
(* alone: the worker takes no response, and no other thread opens a        *)
(* region, while the region is open (Arena::pin, take_response).           *)
RegionOwned ==
  /\ PinsCounted
  /\ \A t \in Thread : \A id \in regions[t] :
       /\ id \in pins[t]
       /\ staged[id.slot] /\ word[id.slot].gen = id.gen
       /\ waiter[id.slot].at = "taken" => waiter[id.slot].gen # id.gen
       /\ \A u \in Thread \ {t} : id \notin regions[u]

Quarantined == {quarantine[k][1] : k \in 1..Len(quarantine)}

(* An index is on the free lists, in the quarantine once, or in use, and   *)
(* a slot in use is one its future, or the late list, will still retire:   *)
(* no index is handed out twice and none leaks.  A queued job whose future *)
(* no longer waits names a slot already retired, so the retire that the    *)
(* dispatcher then tries is a stale refusal (fill_requests).               *)
IndexOnce ==
  /\ Cardinality(Quarantined) = Len(quarantine)
  /\ free \cap Quarantined = {}
  /\ \A i \in Slot :
       IF i \in free \cup Quarantined THEN word[i].state = "Free"
       ELSE /\ word[i].state # "Free"
            /\ \/ waiter[i].at # "none" /\ waiter[i].gen = word[i].gen
               \/ IdOf(i) \in late
  /\ \A k \in 1..Len(ready) : ~Waiting(ready[k]) => word[ready[k].slot].gen # ready[k].gen

(* The epochs: the floor never passes what was posted, nothing delivered   *)
(* is taken back, the quarantine is sorted and every stamp covers the      *)
(* lease the slot was retired from.                                        *)
EpochOrder ==
  /\ acked <= published /\ delivered <= published
  /\ \A k \in 1..Len(quarantine) :
       /\ quarantine[k][2] <= published
       /\ k > 1 => quarantine[k - 1][2] <= quarantine[k][2]
       /\ \A s \in seen : s[1].slot = quarantine[k][1] => s[2] <= quarantine[k][2]

(* The floor moves by one per acknowledgment or to published when the      *)
(* worker settles a lost target, and never back (arena.rs, lines 42-45).   *)
FloorAdvances ==
  [][\/ acked' \in {acked, acked + 1}
     \/ wpc \in {"lose_jobs", "gone_jobs"} /\ acked' = published /\ acked' > acked]_vars

(* While a target is live the floor moves only by the acknowledgment of    *)
(* the thread bound to it when it made the call: a call left over from an  *)
(* earlier target acknowledges no batch of the next one.                   *)
AckedByBound ==
  [][\A t \in Thread :
       acked' # acked /\ call[t].op = "complete" /\ call'[t].op = "none"
         /\ attached = "live" /\ target = era /\ bound # None /\ ~detaching
         => bound = t]_vars
=============================================================================
