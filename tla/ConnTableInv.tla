---------------------------- MODULE ConnTableInv ----------------------------
(***************************************************************************)
(* The inductive invariant of the connection table: what ConnTableProps    *)
(* asks for, with what each step needs to keep it.                         *)
(***************************************************************************)
EXTENDS ConnTableProps

ThreadPc == {"idle", "take", "open", "check", "list", "count", "record", "shut", "unlist", "free"}
WorkerPc == {"idle", "next", "shut", "unlist", "unlistonly", "free"}
Job      == {"none", "one", "sweep", "fail", "reserved", "all", "scan"}

Reservation == [conn : ConnId, slot : Slot]

(* The type invariant of the table, its threads and its worker.            *)
TableTyped ==
  /\ gen \in [Index -> Nat] /\ open \in [Index -> BOOLEAN]
  /\ free \in Seq(Index) /\ grown \in 0 .. Entries
  /\ reserved \subseteq Reservation /\ IsFiniteSet(reserved) /\ count \in Nat
  /\ lease \in [Slot -> {"unused", "leased", "answered", "gone"}]
  /\ action \in [Slot -> ConnId]
  /\ th \in [Thread -> [pc : ThreadPc, slot : Slot, conn : ConnId]]
  /\ core \in {"up", "ending", "down", "starting"} /\ failed \in BOOLEAN /\ cores \in 0 .. MaxCores
  /\ claims \subseteq ConnId /\ served \subseteq ConnId
  /\ wk \in [pc : WorkerPc, job : Job, todo : SUBSET ConnId, conn : ConnId, at : Nat, end : 0 .. Entries]

(* Where the worker is: at rest it remembers nothing, it closes everything *)
(* exactly while its core ends or starts, and a scan stays in its range.   *)
WorkerPlaced ==
  /\ wk.pc = "idle" => wk = WkIdle
  /\ core = "down" => wk.pc = "idle"
  /\ wk.job \in {"all", "scan"} <=> core \in {"ending", "starting"}
  /\ wk.at <= wk.end

-----------------------------------------------------------------------------
(* No id anyone holds is ahead of the word of its entry: the next id of an *)
(* entry is one nobody has.                                                *)
Known(c) == c.gen <= gen[c.index]

HeldIds ==
  Listed \cup claims \cup served \cup wk.todo \cup {wk.conn}
    \cup {th[t].conn : t \in Thread} \cup {action[s] : s \in Slot}
IdsBehind == \A c \in HeldIds : Known(c)

(* Two threads between their check and their listing reserve different     *)
(* connections, and neither connection is on the list yet; a connection is *)
(* on it once.                                                             *)
Reserving(t) == th[t].pc \in {"check", "list"}

ListedOnce ==
  /\ \A t \in Thread : Reserving(t) => th[t].conn.gen > 0 /\ th[t].conn \notin Listed
  /\ \A t, u \in Thread : Reserving(t) /\ Reserving(u) /\ t # u => th[t].conn # th[u].conn
  /\ \A r, q \in reserved : r.conn = q.conn => r = q

Counted == count + Cardinality(Counting) = Cardinality(reserved)

-----------------------------------------------------------------------------
(* A reservation is taken off the list only for a connection that is       *)
(* closed already.                                                         *)
DroppedClosed ==
  /\ \A t \in Thread : th[t].pc \in {"unlist", "free"} => ~IsOpen(th[t].conn)
  /\ wk.pc \in {"unlist", "unlistonly", "free"} => ~IsOpen(wk.conn)

(* No lease is alive while no core is up.                                  *)
LeasesOver == core # "up" => \A s \in Slot : lease[s] \in {"unused", "gone"}

(* What the scan of close_all has passed, and what grew after it began, is *)
(* closed, about to be closed by it, or will be by the thread that opened  *)
(* it.                                                                     *)
WordOf(i) == [index |-> i, gen |-> gen[i]]
Passed(i) == i < wk.at \/ i >= wk.end
ScanCloses ==
  wk.job = "scan" =>
    \A i \in Index :
      open[i] /\ Passed(i) =>
        \/ WordOf(i) \in wk.todo
        \/ wk.pc = "shut" /\ wk.conn = WordOf(i)
        \/ Unchecked(WordOf(i))

Covered ==
  \A i \in Index : open[i] =>
    WordOf(i) \in claims \cup served \cup Listed \/ ThreadHas(WordOf(i)) \/ WorkerHas(WordOf(i))

TableInv ==
  /\ TableTyped /\ WorkerPlaced
  /\ FreeOnce
  /\ IdsBehind /\ ListedOnce /\ Counted
  /\ DroppedClosed /\ LeasesOver /\ ScanCloses /\ StoppedClosed /\ Covered
=============================================================================
