----------------------------- MODULE ConnTable ------------------------------
(***************************************************************************)
(* The connection table of one worker index (crates/zero-host              *)
(* src/realtime/conns.rs) with the core that serves it (realtime/mod.rs):  *)
(* host threads reserve connections for the responses they write, the      *)
(* worker runs the actions of those responses, sweeps what no action will  *)
(* claim, and closes everything when a core ends or starts.                *)
(*                                                                         *)
(* Threads and the worker share the entries' words, the free list, the     *)
(* reserved list and the count beside it: one shared access is one step.   *)
(* The worker is one thread, so its procedures never overlap each other.   *)
(* A slot id is used by one request: lease follows it to its end.          *)
(***************************************************************************)
EXTENDS Naturals, Sequences, FiniteSets

CONSTANTS
  Slot,      (* the requests a host answers, by slot id                     *)
  Thread,    (* the host's threads                                          *)
  Entries,   (* ENTRIES: the entries a table holds                          *)
  MaxCores   (* bound: the cores that start on the index after the first    *)

ASSUME TableAssumption ==
  /\ IsFiniteSet(Slot) /\ Slot # {} /\ IsFiniteSet(Thread)
  /\ Entries \in Nat \ {0} /\ MaxCores \in Nat

Index  == 0 .. Entries - 1
ConnId == [index : Index, gen : Nat]
None   == [index |-> 0, gen |-> 0]    (* generation 0 is of no connection   *)

VARIABLES
  gen,       (* the generation in each entry's word                         *)
  open,      (* the OPEN bit of each entry's word                           *)
  free,      (* Free.indexes                                                *)
  grown,     (* Free.grown                                                  *)
  reserved,  (* Table.reserved: the conn and slot of each reservation       *)
  count,     (* Table.reservations                                          *)
  lease,     (* each slot: unused, leased, answered (completed) or gone     *)
  action,    (* the connection the action of a slot's response sets up      *)
  th,        (* each thread's call: its step, slot and connection           *)
  core,      (* the core of the index: up, down, or on its way              *)
  failed,    (* CoreHost.failed                                             *)
  cores,     (* how many cores started after the first                      *)
  claims,    (* Local.claims                                                *)
  served,    (* the connections a task serves                               *)
  wk         (* the procedure the worker is in                              *)

entryVars == <<gen, open, free, grown>>
listVars  == <<reserved, count>>
leaseVars == <<lease, action>>
coreVars  == <<core, failed, cores>>
ownVars   == <<claims, served>>
tableVars == <<gen, open, free, grown, reserved, count, lease, action, th, core, failed, cores,
               claims, served, wk>>

ThIdle == [pc |-> "idle", slot |-> CHOOSE s \in Slot : TRUE, conn |-> None]
WkIdle == [pc |-> "idle", job |-> "none", todo |-> {}, conn |-> None, at |-> 0, end |-> 0]

TableInit ==
  /\ gen = [i \in Index |-> 0] /\ open = [i \in Index |-> FALSE]
  /\ free = <<>> /\ grown = 0
  /\ reserved = {} /\ count = 0
  /\ lease = [s \in Slot |-> "unused"] /\ action = [s \in Slot |-> None]
  /\ th = [t \in Thread |-> ThIdle]
  /\ core = "up" /\ failed = FALSE /\ cores = 0
  /\ claims = {} /\ served = {}
  /\ wk = WkIdle

(* Table::live: the word still says open at the id's generation.           *)
IsOpen(c) == open[c.index] /\ gen[c.index] = c.gen
Listed == {r.conn : r \in reserved}

(* Table::close under the entry's lock: the word is stored closed and the  *)
(* outbox closes with it.                                                  *)
Shut(c) == open' = [open EXCEPT ![c.index] = FALSE]

(* Table::drop_reservation.  Only the worker takes a listed reservation    *)
(* off, so between its load of the count and its lock the count only grows *)
(* and both are one step; the count is brought down under the lock.        *)
drop_reservation(c) ==
  IF count = 0 \/ c \notin Listed
  THEN UNCHANGED listVars
  ELSE /\ reserved' = {r \in reserved : r.conn # c}
       /\ count' = count - 1

-----------------------------------------------------------------------------
(* A host thread that answers a slot with a connection (actions.rs         *)
(* ws_accept and sse_open): it holds the slot's exchange from its own      *)
(* lease check until the action is recorded.                               *)

At(t, step) == th' = [th EXCEPT ![t].pc = step]
Holds(s) == \E t \in Thread : th[t].pc # "idle" /\ th[t].slot = s

Accept(t, s) ==
  /\ th[t].pc = "idle" /\ lease[s] = "leased" /\ ~Holds(s)
  /\ action[s] = None
  /\ th' = [th EXCEPT ![t] = [pc |-> "take", slot |-> s, conn |-> None]]
  /\ UNCHANGED <<entryVars, listVars, leaseVars, coreVars, ownVars, wk>>

(* Table::take_index; the call answers Limit when the table cannot grow.   *)
TakeIndex(t) ==
  /\ th[t].pc = "take"
  /\ \/ /\ free # <<>>
        /\ free' = Tail(free) /\ UNCHANGED grown
        /\ th' = [th EXCEPT ![t].pc = "open", ![t].conn = [index |-> Head(free), gen |-> 0]]
     \/ /\ free = <<>> /\ grown < Entries
        /\ grown' = grown + 1 /\ UNCHANGED free
        /\ th' = [th EXCEPT ![t].pc = "open", ![t].conn = [index |-> grown, gen |-> 0]]
     \/ /\ free = <<>> /\ grown = Entries
        /\ th' = [th EXCEPT ![t] = ThIdle] /\ UNCHANGED <<free, grown>>
  /\ UNCHANGED <<gen, open, listVars, leaseVars, coreVars, ownVars, wk>>

(* Table::reserve stores the word of the next generation ...               *)
OpensSameGeneration(t) ==
  LET i == th[t].conn.index
  IN  /\ th[t].pc = "open"
      /\ gen' = [gen EXCEPT ![i] = IF @ = 0 THEN 1 ELSE @]
      /\ open' = [open EXCEPT ![i] = TRUE]
      /\ th' = [th EXCEPT ![t].pc = "check", ![t].conn.gen = IF gen[i] = 0 THEN 1 ELSE gen[i]]
      /\ UNCHANGED <<free, grown, listVars, leaseVars, coreVars, ownVars, wk>>
OpenEntry(t) ==
  LET i == th[t].conn.index
  IN  /\ th[t].pc = "open"
      /\ gen' = [gen EXCEPT ![i] = @ + 1] /\ open' = [open EXCEPT ![i] = TRUE]
      /\ th' = [th EXCEPT ![t].pc = "check", ![t].conn.gen = gen[i] + 1]
      /\ UNCHANGED <<free, grown, listVars, leaseVars, coreVars, ownVars, wk>>

(* ... then asks still_leased again ...                                    *)
ChecksNothing(t) ==
  /\ th[t].pc = "check"
  /\ At(t, "list")
  /\ UNCHANGED <<entryVars, listVars, leaseVars, coreVars, ownVars, wk>>
CheckLease(t) ==
  /\ th[t].pc = "check"
  /\ At(t, IF lease[th[t].slot] = "leased" THEN "list" ELSE "shut")
  /\ UNCHANGED <<entryVars, listVars, leaseVars, coreVars, ownVars, wk>>

(* ... lists the reservation under the lock, and counts it after.          *)
ListReservation(t) ==
  /\ th[t].pc = "list"
  /\ reserved' = reserved \cup {[conn |-> th[t].conn, slot |-> th[t].slot]}
  /\ At(t, "count")
  /\ UNCHANGED <<entryVars, count, leaseVars, coreVars, ownVars, wk>>

CountReservation(t) ==
  /\ th[t].pc = "count"
  /\ count' = count + 1
  /\ At(t, "record")
  /\ UNCHANGED <<entryVars, reserved, leaseVars, coreVars, ownVars, wk>>

(* actions.rs record: the exchange this thread holds is not sealed.        *)
Record(t) ==
  /\ th[t].pc = "record"
  /\ action' = [action EXCEPT ![th[t].slot] = th[t].conn]
  /\ th' = [th EXCEPT ![t] = ThIdle]
  /\ UNCHANGED <<entryVars, listVars, lease, coreVars, ownVars, wk>>

(* The lease was over: Table::close of the entry this call opened.         *)
ThreadShuts(t) ==
  /\ th[t].pc = "shut"
  /\ IF IsOpen(th[t].conn)
     THEN Shut(th[t].conn) /\ At(t, "unlist")
     ELSE UNCHANGED open /\ th' = [th EXCEPT ![t] = ThIdle]
  /\ UNCHANGED <<gen, free, grown, listVars, leaseVars, coreVars, ownVars, wk>>

ThreadUnlists(t) ==
  /\ th[t].pc = "unlist"
  /\ drop_reservation(th[t].conn)
  /\ At(t, "free")
  /\ UNCHANGED <<entryVars, leaseVars, coreVars, ownVars, wk>>

ThreadFrees(t) ==
  /\ th[t].pc = "free"
  /\ free' = Append(free, th[t].conn.index)
  /\ th' = [th EXCEPT ![t] = ThIdle]
  /\ UNCHANGED <<gen, open, grown, listVars, leaseVars, coreVars, ownVars, wk>>

(* The host completes its response.                                        *)
Answer(s) ==
  /\ lease[s] = "leased"
  /\ lease' = [lease EXCEPT ![s] = "answered"]
  /\ UNCHANGED <<entryVars, listVars, action, th, coreVars, ownVars, wk>>

ThreadStep(t) ==
  \/ TakeIndex(t) \/ OpenEntry(t) \/ CheckLease(t) \/ ListReservation(t)
  \/ CountReservation(t) \/ Record(t) \/ ThreadShuts(t) \/ ThreadUnlists(t) \/ ThreadFrees(t)

-----------------------------------------------------------------------------
(* The worker: requests, actions and the tasks of connections.             *)

Idle == wk.pc = "idle" /\ core = "up"

(* Start a procedure that closes the connections of todo.                  *)
Begin(job, todo) ==
  wk' = [pc |-> "next", job |-> job, todo |-> todo, conn |-> None, at |-> 0, end |-> 0]

Request(s) ==
  /\ Idle /\ ~failed /\ lease[s] = "unused"
  /\ lease' = [lease EXCEPT ![s] = "leased"]
  /\ UNCHANGED <<entryVars, listVars, action, th, coreVars, ownVars, wk>>

(* The lease ends without its action: the client left, the target was      *)
(* lost, or the host dispatch failed.                                      *)
LeaseEnds(s) ==
  /\ Idle /\ lease[s] \in {"leased", "answered"}
  /\ lease' = [lease EXCEPT ![s] = "gone"]
  /\ UNCHANGED <<entryVars, listVars, action, th, coreVars, ownVars, wk>>

(* The response is imported, once no thread holds the exchange, its action *)
(* runs and the slot retires in the same poll.  Local::claim: the action   *)
(* claims its connection, or closes it on a core that failed.              *)
Claim(s) ==
  LET c == action[s]
  IN  /\ Idle /\ lease[s] = "answered" /\ ~Holds(s) /\ c # None
      /\ lease' = [lease EXCEPT ![s] = "gone"]
      /\ IF failed
         THEN Begin("one", {c}) /\ UNCHANGED <<listVars, claims>>
         ELSE drop_reservation(c) /\ claims' = claims \cup {c} /\ UNCHANGED wk
      /\ UNCHANGED <<entryVars, action, th, coreVars, served>>

(* Local::abandon: the action could not set the connection up.             *)
Abandon(s) ==
  /\ Idle /\ lease[s] = "answered" /\ ~Holds(s) /\ action[s] # None
  /\ lease' = [lease EXCEPT ![s] = "gone"]
  /\ Begin("one", {action[s]})
  /\ UNCHANGED <<entryVars, listVars, action, th, coreVars, ownVars>>

NoAction(s) ==
  /\ Idle /\ lease[s] = "answered" /\ ~Holds(s) /\ action[s] = None
  /\ lease' = [lease EXCEPT ![s] = "gone"]
  /\ UNCHANGED <<entryVars, listVars, action, th, coreVars, ownVars, wk>>

(* serve: the task starts when the driver hands the connection over, if    *)
(* the entry is still open.                                                *)
Serve(c) ==
  /\ Idle /\ c \in claims
  /\ claims' = claims \ {c}
  /\ served' = IF IsOpen(c) THEN served \cup {c} ELSE served
  /\ UNCHANGED <<entryVars, listVars, leaseVars, th, coreVars, wk>>

(* Local::dropped, and after_turn for a claim past its deadline.           *)
DropClaim(c) ==
  /\ Idle /\ c \in claims
  /\ claims' = claims \ {c}
  /\ Begin("one", {c})
  /\ UNCHANGED <<entryVars, listVars, leaseVars, th, coreVars, served>>

(* Served::end, and its drop with the task.                                *)
EndServed(c) ==
  /\ Idle /\ c \in served
  /\ served' = served \ {c}
  /\ Begin("one", {c})
  /\ UNCHANGED <<entryVars, listVars, leaseVars, th, coreVars, claims>>

(* after_turn sweeps: the count is read first, the list under its lock.    *)
Sweep ==
  /\ Idle /\ ~failed /\ count # 0
  /\ Begin("sweep", {r.conn : r \in {x \in reserved : lease[x.slot] = "gone"}})
  /\ UNCHANGED <<entryVars, listVars, leaseVars, th, coreVars, ownVars>>

(* CoreHost::host_failed: Local::fail closes the claims, then what is      *)
(* reserved; no turn follows.                                              *)
FailForgetsClaims ==
  /\ Idle /\ ~failed
  /\ failed' = TRUE
  /\ claims' = {}
  /\ Begin("fail", {})
  /\ UNCHANGED <<entryVars, listVars, leaseVars, th, core, cores, served>>
HostFails ==
  /\ Idle /\ ~failed
  /\ failed' = TRUE
  /\ claims' = {}
  /\ Begin("fail", claims)
  /\ UNCHANGED <<entryVars, listVars, leaseVars, th, core, cores, served>>


(* Local::drop, once no future and no task holds the core.                 *)
CoreEnds ==
  /\ Idle /\ served = {}
  /\ \A s \in Slot : lease[s] \in {"unused", "gone"}
  /\ core' = "ending" /\ claims' = {}
  /\ Begin("all", IF count = 0 THEN {} ELSE Listed)
  /\ UNCHANGED <<entryVars, listVars, leaseVars, th, failed, cores, served>>

(* Local::new of the next server's core on the index.                      *)
CoreStarts ==
  /\ core = "down" /\ cores < MaxCores
  /\ core' = "starting" /\ failed' = FALSE /\ cores' = cores + 1
  /\ Begin("all", IF count = 0 THEN {} ELSE Listed)
  /\ UNCHANGED <<entryVars, listVars, leaseVars, th, ownVars>>

-----------------------------------------------------------------------------
(* The worker: closing connections, one shared access per step.            *)

WorkerTo(step) == wk' = [wk EXCEPT !.pc = step]

NextConn ==
  /\ wk.pc = "next"
  /\ \E c \in wk.todo :
       wk' = [wk EXCEPT !.pc = "shut", !.conn = c, !.todo = @ \ {c}]
  /\ UNCHANGED <<entryVars, listVars, leaseVars, th, coreVars, ownVars>>

(* Table::close of wk.conn.  Where it finds the entry closed already,      *)
(* sweep and close_reserved still drop the reservation.                    *)
WorkerShuts ==
  /\ wk.pc = "shut"
  /\ IF IsOpen(wk.conn)
     THEN /\ Shut(wk.conn) /\ WorkerTo("unlist")
     ELSE /\ WorkerTo(IF wk.job \in {"sweep", "reserved", "all"} THEN "unlistonly" ELSE "next")
          /\ UNCHANGED open
  /\ UNCHANGED <<gen, free, grown, listVars, leaseVars, th, coreVars, ownVars>>

WorkerUnlists ==
  /\ wk.pc \in {"unlist", "unlistonly"}
  /\ drop_reservation(wk.conn)
  /\ WorkerTo(IF wk.pc = "unlist" THEN "free" ELSE "next")
  /\ UNCHANGED <<entryVars, leaseVars, th, coreVars, ownVars>>

FreesTwice ==
  /\ wk.pc = "free"
  /\ free' = free \o <<wk.conn.index, wk.conn.index>>
  /\ WorkerTo("next")
  /\ UNCHANGED <<gen, open, grown, listVars, leaseVars, th, coreVars, ownVars>>
WorkerFrees ==
  /\ wk.pc = "free"
  /\ free' = Append(free, wk.conn.index)
  /\ WorkerTo("next")
  /\ UNCHANGED <<gen, open, grown, listVars, leaseVars, th, coreVars, ownVars>>

(* The closes are done: fail goes on to close_reserved, close_all to its   *)
(* scan of the entries grown by now.                                       *)
ClosesDone ==
  /\ wk.pc = "next" /\ wk.todo = {} /\ wk.job # "scan"
  /\ CASE wk.job = "fail" -> Begin("reserved", IF count = 0 THEN {} ELSE Listed)
       [] wk.job = "all"  -> wk' = [wk EXCEPT !.job = "scan", !.at = 0, !.end = grown]
       [] OTHER           -> wk' = WkIdle
  /\ UNCHANGED <<entryVars, listVars, leaseVars, th, coreVars, ownVars>>

(* close_all loads the word of each entry and closes the connection in it. *)
Scan ==
  /\ wk.pc = "next" /\ wk.todo = {} /\ wk.job = "scan" /\ wk.at < wk.end
  /\ wk' = [wk EXCEPT !.at = @ + 1,
                      !.todo = IF open[wk.at] THEN {[index |-> wk.at, gen |-> gen[wk.at]]} ELSE {}]
  /\ UNCHANGED <<entryVars, listVars, leaseVars, th, coreVars, ownVars>>

ScanEnds ==
  /\ wk.pc = "next" /\ wk.todo = {} /\ wk.job = "scan" /\ wk.at = wk.end
  /\ wk' = WkIdle
  /\ core' = IF core = "ending" THEN "down" ELSE "up"
  /\ UNCHANGED <<entryVars, listVars, leaseVars, th, failed, cores, ownVars>>

WorkerStep ==
  \/ NextConn \/ WorkerShuts \/ WorkerUnlists \/ WorkerFrees \/ ClosesDone \/ Scan \/ ScanEnds

-----------------------------------------------------------------------------
Claimed == claims \cup served

TableNext ==
  \/ \E t \in Thread : (\E s \in Slot : Accept(t, s)) \/ ThreadStep(t)
  \/ \E s \in Slot : \/ Answer(s) \/ Request(s) \/ LeaseEnds(s) \/ Claim(s) \/ Abandon(s)
                     \/ NoAction(s)
  \/ \E c \in Claimed : Serve(c) \/ DropClaim(c) \/ EndServed(c)
  \/ Sweep \/ HostFails \/ CoreEnds \/ CoreStarts
  \/ WorkerStep

TableSpec == TableInit /\ [][TableNext]_tableVars
=============================================================================
