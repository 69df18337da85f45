--------------------------- MODULE ConnTableProps ---------------------------
(***************************************************************************)
(* What the connection table of a worker index must keep.                  *)
(***************************************************************************)
EXTENDS ConnTable

(* A grown entry is in exactly one place: it holds an open connection, or  *)
(* it is on the free list once, or one call has it, taken and not opened   *)
(* yet or closed and not freed yet.  A connection closed by a thread that  *)
(* lost its lease, by the sweep and by a core that ends must be freed by   *)
(* only one of them (Table::close).                                        *)
InFree(i) == {k \in DOMAIN free : free[k] = i}
HeldBy(i) ==
  {t \in Thread : th[t].pc \in {"open", "unlist", "free"} /\ th[t].conn.index = i}
Holders(i) ==
  Cardinality(InFree(i)) + Cardinality(HeldBy(i)) + (IF open[i] THEN 1 ELSE 0)
    + (IF wk.pc \in {"unlist", "free"} /\ wk.conn.index = i THEN 1 ELSE 0)

FreeOnce == \A i \in Index : Holders(i) = (IF i < grown THEN 1 ELSE 0)

-----------------------------------------------------------------------------
(* Once the core of the index has ended, no connection is open but one a   *)
(* thread has opened and not checked yet, whose check will close it: a     *)
(* connection reserved while the server stopped is closed by the scan or   *)
(* by its own thread, never left to the next server (Table::reserve,       *)
(* close_all).                                                             *)
Unchecked(c) ==
  \E t \in Thread : /\ th[t].conn = c
                    /\ \/ th[t].pc = "check" /\ lease[th[t].slot] # "leased"
                       \/ th[t].pc = "shut"

StoppedClosed ==
  core = "down" =>
    \A i \in Index : open[i] => Unchecked([index |-> i, gen |-> gen[i]])

-----------------------------------------------------------------------------
(* The ids of the table behave like names that open once and end once: an  *)
(* id of an earlier connection or of an earlier server reads closed        *)
(* (Table::live), however its entry was freed and taken again.             *)
Id == [index : Index, gen : 1 .. Cardinality(Slot)]

LifeOf(id) ==
  IF id.gen > gen[id.index] THEN "unused"
  ELSE IF IsOpen(id) THEN "open" ELSE "closed"

Life == INSTANCE IdLife WITH life <- [id \in Id |-> LifeOf(id)]

IdsNameOnce == Life!Spec

-----------------------------------------------------------------------------
(* An open connection is always somebody's to serve or to close: of the    *)
(* claims, of its task, of the reserved list the sweep goes through, of    *)
(* the thread that opened it, or of a procedure of the worker that has yet *)
(* to reach it.  One that none of them knows would stay open for good      *)
(* (Table::reserve, sweep, close_reserved, close_all, Local::fail).  The   *)
(* count that says whether the list is worth a look never leads it, so it  *)
(* cannot wrap when a sweep takes off a reservation its thread has listed  *)
(* and not counted (drop_reservation).                                     *)
Counting == {t \in Thread : th[t].pc = "count"}
ThreadHas(c) ==
  \E t \in Thread : th[t].conn = c /\ th[t].pc \in {"check", "list", "shut"}
WorkerHas(c) ==
  \/ c \in wk.todo
  \/ wk.pc = "shut" /\ wk.conn = c
  \/ wk.job = "all"
  \/ wk.job = "scan" /\ wk.at <= c.index

Accounted ==
  /\ \A i \in Index : open[i] =>
       LET c == [index |-> i, gen |-> gen[i]]
       IN  c \in claims \cup served \cup Listed \/ ThreadHas(c) \/ WorkerHas(c)
  /\ count + Cardinality(Counting) = Cardinality(reserved)
=============================================================================
