----------------------------- MODULE MCRealtime -----------------------------
(***************************************************************************)
(* The realtime side of one worker index for TLC: its connection table     *)
(* (ConnTable) and the tasks of its connections (WsConn).  The two models  *)
(* share no state, so one behaviour moves one of them, and the scene says  *)
(* which: the table, one connection that sees every command and frame, or  *)
(* two connections under the one total.                                    *)
(***************************************************************************)
EXTENDS ConnTableProps, WsConnProps, TLC

CONSTANT MaxQueuedOfTwo  (* bound: what is offered to each of two connections *)

VARIABLE scene

Command(kind, octets) == [kind |-> kind, octets |-> octets]
EveryCommand ==
  {Command("frame", 2), Command("close", 1), Command("end", 0), Command("join", 1),
   Command("leave", 1)}

Symmetry == Permutations(Slot) \cup Permutations(Thread)

First == CHOOSE c \in Conn : TRUE

(* Once more than two requests came, threads answer one at a time.         *)
FewAtOnce ==
  \/ Cardinality({s \in Slot : lease'[s] # "unused"}) <= 2
  \/ Cardinality({t \in Thread : th'[t].pc # "idle"}) <= 1

(* Only the first connection moves, and it leaves rooms it joined.         *)
Alone ==
  /\ \A i \in DOMAIN log'[First] :
       log'[First][i] = "leave" => \E k \in 1 .. i - 1 : log'[First][k] = "join"
  /\ \A c \in Conn \ {First} :
       pc'[c] = pc[c] /\ log'[c] = log[c] /\ paused'[c] = paused[c] /\ input'[c] = input[c]

(* Connections that are sent frames and ended, by peers that say nothing.  *)
OfTwo ==
  \A c \in Conn :
    /\ Len(log'[c]) <= MaxQueuedOfTwo
    /\ \A i \in DOMAIN log'[c] : log'[c][i] \in {"frame", "end"}
    /\ peer'[c] = 0 /\ ~paused'[c]

RealtimeInit ==
  /\ TableInit /\ Init
  /\ scene \in {"table", "one", "two"}
  /\ \A c \in Conn : scene # "one" \/ c # First => input[c] = <<>>

(* Every action of the table, on its own for TLC's coverage.               *)
InTable == scene = "table"
Apart == FewAtOnce /\ UNCHANGED <<vars, scene>>
ThreadMoves(t) ==
  \/ \E s \in Slot : InTable /\ Accept(t, s) /\ Apart
  \/ InTable /\ TakeIndex(t) /\ Apart
  \/ InTable /\ OpenEntry(t) /\ Apart
  \/ InTable /\ CheckLease(t) /\ Apart
  \/ InTable /\ ListReservation(t) /\ Apart
  \/ InTable /\ CountReservation(t) /\ Apart
  \/ InTable /\ Record(t) /\ Apart
  \/ InTable /\ ThreadShuts(t) /\ Apart
  \/ InTable /\ ThreadUnlists(t) /\ Apart
  \/ InTable /\ ThreadFrees(t) /\ Apart
SlotMoves(s) ==
  \/ InTable /\ Answer(s) /\ Apart
  \/ InTable /\ Request(s) /\ Apart
  \/ InTable /\ LeaseEnds(s) /\ Apart
  \/ InTable /\ Claim(s) /\ Apart
  \/ InTable /\ Abandon(s) /\ Apart
  \/ InTable /\ NoAction(s) /\ Apart
WorkerMoves ==
  \/ \E c \in Claimed : InTable /\ Serve(c) /\ Apart
  \/ \E c \in Claimed : InTable /\ DropClaim(c) /\ Apart
  \/ \E c \in Claimed : InTable /\ EndServed(c) /\ Apart
  \/ InTable /\ Sweep /\ Apart
  \/ InTable /\ HostFails /\ Apart
  \/ InTable /\ CoreEnds /\ Apart
  \/ InTable /\ CoreStarts /\ Apart
  \/ InTable /\ NextConn /\ Apart
  \/ InTable /\ WorkerShuts /\ Apart
  \/ InTable /\ WorkerUnlists /\ Apart
  \/ InTable /\ WorkerFrees /\ Apart
  \/ InTable /\ ClosesDone /\ Apart
  \/ InTable /\ Scan /\ Apart
  \/ InTable /\ ScanEnds /\ Apart

RealtimeNext ==
  \/ \E t \in Thread : ThreadMoves(t)
  \/ \E s \in Slot : SlotMoves(s)
  \/ WorkerMoves
  \/ scene = "one" /\ Next /\ Alone /\ UNCHANGED <<tableVars, scene>>
  \/ scene = "two" /\ Next /\ OfTwo /\ UNCHANGED <<tableVars, scene>>

RealtimeSpec == RealtimeInit /\ [][RealtimeNext]_<<tableVars, vars, scene>>

=============================================================================
