------------------------------- MODULE WsConn -------------------------------
(***************************************************************************)
(* WebSocket connections of one worker, each served by a task that writes  *)
(* the outbox other threads push to (crates/zero-realtime websocket.rs and *)
(* rooms.rs over outbox.rs, and the closing handshake of zero-ws           *)
(* session.rs).                                                            *)
(*                                                                         *)
(* The task is the loop of WebSocket::recv_event, run by the loop of       *)
(* zero-host realtime/ws.rs.  A step of it ends at an await or at a lock   *)
(* another thread takes: the pushes, the broadcasts, the pause and the     *)
(* shutdown of other threads fall between any two steps.  Payloads are     *)
(* abstracted: a frame on the wire is its kind and, when it came through   *)
(* the outbox, the order in which it was queued.                           *)
(***************************************************************************)
EXTENDS Outbox, FiniteSets

CONSTANTS
  Conn,         (* the connections of the worker                            *)
  Commands,     (* the commands senders push: [kind, octets]                *)
  CastOctets,   (* the octets of a broadcast frame                          *)
  PeerFrames,   (* what the peer sends: "data", "ping", "close", "bad"      *)
  MaxQueued,    (* bound: commands and broadcasts queued on a connection    *)
  MaxPeer       (* bound: frames the peer of a connection sends             *)

ASSUME ConnAssumption ==
  /\ IsFiniteSet(Conn)
  /\ \A m \in Commands : m.kind \in Kinds \ {"broadcast"} /\ m.octets \in Nat
  /\ CastOctets \in Nat /\ MaxQueued \in Nat /\ MaxPeer \in Nat
  /\ PeerFrames \subseteq {"data", "ping", "close", "bad"}

VARIABLES
  queue,      (* each connection's Outbox.queue                             *)
  total,      (* OutboxTotal.queued of the worker                           *)
  log,        (* history: the kinds offered to a connection, in order       *)
  behind,     (* history: broadcasts of a connection were dropped           *)
  member,     (* whether the rooms hold the connection                      *)
  casting,    (* the members a broadcast has still to reach                 *)
  pc,         (* the step of recv_event                                     *)
  session,    (* Session.state                                              *)
  received,   (* Session.close_received                                     *)
  output,     (* Session.output                                             *)
  closing,    (* WebSocket.closing                                          *)
  ended,      (* WebSocket.ended                                            *)
  drained,    (* WebSocket.drained                                          *)
  unreleased, (* WebSocket.unreleased                                       *)
  input,      (* read and not yet fed                                       *)
  peer,       (* how many frames the peer sent                              *)
  woken,      (* the outbox called the waker of the parked task             *)
  paused,     (* ReadPause                                                  *)
  shutdown,   (* the worker's shutdown signal                               *)
  wire,       (* what the peer was sent                                     *)
  why         (* why a connection ended                                     *)

outboxVars  == <<queue, total, log, behind>>
roomVars    == <<member, casting>>
sessionVars == <<session, received, output>>
taskVars    == <<closing, ended, drained, unreleased, input>>
outerVars   == <<peer, paused, shutdown>>
vars == <<queue, total, log, behind, member, casting, pc, session, received, output, closing,
          ended, drained, unreleased, input, peer, woken, paused, shutdown, wire, why>>

Frame(kind, n) == [kind |-> kind, n |-> n]

Init ==
  /\ queue = [c \in Conn |-> EmptyQueue] /\ total = 0 /\ log = [c \in Conn |-> <<>>]
  /\ behind = [c \in Conn |-> FALSE]
  /\ member = [c \in Conn |-> FALSE] /\ casting = {}
  /\ pc = [c \in Conn |-> "pour"]
  /\ session = [c \in Conn |-> "Open"] /\ received = [c \in Conn |-> FALSE]
  /\ output = [c \in Conn |-> <<>>]
  /\ closing = [c \in Conn |-> FALSE] /\ ended = [c \in Conn |-> FALSE]
  /\ drained = [c \in Conn |-> FALSE] /\ unreleased = [c \in Conn |-> 0]
  /\ input \in [Conn -> {<<>>} \cup {<<f>> : f \in PeerFrames}]
  /\ peer = [c \in Conn |-> Len(input[c])]
  /\ woken = [c \in Conn |-> FALSE] /\ paused = [c \in Conn |-> FALSE]
  /\ shutdown = FALSE
  /\ wire = [c \in Conn |-> <<>>] /\ why = [c \in Conn |-> "open"]

-----------------------------------------------------------------------------
(* Other threads.                                                          *)

(* A registered waker is taken under the lock and called after it.         *)
WakesNever(c) == woken
Wakes(c) == [woken EXCEPT ![c] = @ \/ queue[c].waker]

Push(c, m) ==
  LET entry == [kind |-> m.kind, octets |-> m.octets, n |-> Len(log[c]) + 1]
  IN  /\ Len(log[c]) < MaxQueued
      /\ CanPush(queue[c], total, entry)
      /\ queue' = [queue EXCEPT ![c] = push(@, entry)]
      /\ total' = total + entry.octets
      /\ log' = [log EXCEPT ![c] = Append(@, entry.kind)]
      /\ woken' = Wakes(c)
      /\ UNCHANGED <<behind, roomVars, pc, sessionVars, taskVars, outerVars, wire, why>>

(* Rooms::broadcast copies the members, then reaches each one's outbox.    *)
StartBroadcast ==
  /\ casting = {}
  /\ casting' = {c \in Conn : member[c]}
  /\ casting' # {}
  /\ UNCHANGED <<outboxVars, member, pc, sessionVars, taskVars, outerVars, woken, wire, why>>

Broadcast(c) ==
  LET entry == [kind |-> "broadcast", octets |-> CastOctets, n |-> Len(log[c]) + 1]
  IN  /\ c \in casting
      /\ casting' = casting \ {c}
      /\ IF CanBroadcast(queue[c])
         THEN /\ Len(log[c]) < MaxQueued
              /\ queue' = [queue EXCEPT ![c] = broadcast(@, entry)]
              /\ log' = [log EXCEPT ![c] = Append(@, entry.kind)]
              /\ behind' = [behind EXCEPT ![c] = @ \/ Overflows(queue[c], entry)]
              /\ woken' = Wakes(c)
         ELSE UNCHANGED <<queue, log, behind, woken>>
      /\ UNCHANGED <<total, member, pc, sessionVars, taskVars, outerVars, wire, why>>

(* ReadPause::set: the parked task it wakes checks the pause first, and    *)
(* goes round its loop.                                                    *)
Pause(c) ==
  /\ pc[c] # "done"
  /\ paused' = [paused EXCEPT ![c] = ~@]
  /\ pc' = [pc EXCEPT ![c] = IF @ = "parked" THEN "pour" ELSE @]
  /\ UNCHANGED <<outboxVars, roomVars, sessionVars, taskVars, peer, woken, shutdown, wire, why>>

(* The worker drains.                                                      *)
Shutdown ==
  /\ ~shutdown
  /\ shutdown' = TRUE
  /\ UNCHANGED <<outboxVars, roomVars, pc, sessionVars, taskVars, peer, woken, paused, wire, why>>

-----------------------------------------------------------------------------
(* The connection's task.                                                  *)

Goto(c, step) == pc' = [pc EXCEPT ![c] = step]

(* What a task keeps of itself while it applies entries.                   *)
TaskOf(c) ==
  [session |-> session[c], output |-> output[c], closing |-> closing[c], ended |-> ended[c],
   unreleased |-> unreleased[c], member |-> member[c]]

(* Session::close, and the flag its callers set when it succeeds.  A Close *)
(* is of its own kind when it is the server's: 1001 or 1013.               *)
CloseSession(t, frame) ==
  IF t.session # "Open" THEN t
  ELSE [t EXCEPT !.session = "CloseSent", !.closing = TRUE, !.output = Append(@, frame)]

SendEncoded(t, entry) ==
  IF t.session # "Open" THEN t
  ELSE [t EXCEPT !.output = Append(@, Frame(entry.kind, entry.n))]

(* WebSocket::apply of one entry.                                          *)
apply(t, entry) ==
  LET u == IF IsSent(entry) THEN [t EXCEPT !.unreleased = @ + entry.octets] ELSE t
  IN  IF t.ended THEN u
      ELSE CASE entry.kind \in {"frame", "broadcast"} -> SendEncoded(u, entry)
             [] entry.kind = "close" -> CloseSession(u, Frame("close", entry.n))
             [] entry.kind = "end"   -> [u EXCEPT !.ended = TRUE]
             [] entry.kind = "join"  -> [u EXCEPT !.member = TRUE]
             [] entry.kind = "leave" -> [u EXCEPT !.member = FALSE]

ApplyAll(t, entries) ==
  LET after[k \in 0 .. Len(entries)] == IF k = 0 THEN t ELSE apply(after[k - 1], entries[k])
  IN  after[Len(entries)]

Becomes(c, t) ==
  /\ session' = [session EXCEPT ![c] = t.session]
  /\ output' = [output EXCEPT ![c] = t.output]
  /\ closing' = [closing EXCEPT ![c] = t.closing]
  /\ ended' = [ended EXCEPT ![c] = t.ended]
  /\ unreleased' = [unreleased EXCEPT ![c] = t.unreleased]
  /\ member' = [member EXCEPT ![c] = t.member]

Finished(s) == s \in {"Closed", "Failed"}

(* WebSocket::fell_behind: leave the rooms, close with 1013.               *)
FellBehind(t) == CloseSession([t EXCEPT !.member = FALSE], Frame("tryagain", 0))

(* pour: take what waits; a connection that fell behind its broadcasts     *)
(* closes before what was pushed to it is applied.                         *)
Pour(c) ==
  LET first == IF queue[c].overflowed THEN FellBehind(TaskOf(c)) ELSE TaskOf(c)
      t == ApplyAll(first, queue[c].entries)
  IN  /\ pc[c] = "pour"
      /\ queue' = [queue EXCEPT ![c] = take(@)]
      /\ Becomes(c, t)
      /\ Goto(c, IF t.closing \/ t.ended \/ Finished(t.session) THEN "seal" ELSE "flush")
      /\ UNCHANGED <<total, log, behind, casting, received, drained, input, outerVars, woken, wire,
                     why>>

(* The end of pour once nothing more can be sent: refuse later pushes.     *)
Seal(c) ==
  /\ pc[c] = "seal"
  /\ queue' = [queue EXCEPT ![c] = seal(@)]
  /\ Becomes(c, ApplyAll(TaskOf(c), queue[c].entries))
  /\ Goto(c, "flush")
  /\ UNCHANGED <<total, log, behind, casting, received, drained, input, outerVars, woken, wire, why>>

(* flush: one part of the output is written, or the connection dropped.    *)
Write(c) ==
  /\ pc[c] = "flush" /\ output[c] # <<>>
  /\ wire' = [wire EXCEPT ![c] = Append(@, Head(output[c]))]
  /\ output' = [output EXCEPT ![c] = Tail(@)]
  /\ UNCHANGED <<outboxVars, roomVars, pc, session, received, taskVars, outerVars, woken, why>>

WriteFails(c) ==
  /\ pc[c] = "flush" /\ output[c] # <<>>
  /\ Goto(c, "finish")
  /\ why' = [why EXCEPT ![c] = "dropped"]
  /\ UNCHANGED <<outboxVars, roomVars, sessionVars, taskVars, outerVars, woken, wire>>

(* Everything is written: its octets stop counting, and the loop goes on   *)
(* to its end, to a Drained report, to the input or to the next read.      *)
Flushed(c) ==
  LET octets == unreleased[c]
      over == Finished(session[c]) \/ ended[c]
  IN  /\ pc[c] = "flush" /\ output[c] = <<>>
      /\ queue' = IF octets = 0 THEN queue ELSE [queue EXCEPT ![c] = release(@, octets)]
      /\ total' = total - Freed(queue[c], octets)
      /\ unreleased' = [unreleased EXCEPT ![c] = 0]
      /\ drained' = [drained EXCEPT ![c] = @ \/ (octets > 0 /\ Drains(queue[c], octets))]
      /\ Goto(c, IF over THEN "finish"
                 ELSE IF drained'[c] THEN "report"
                 ELSE IF input[c] # <<>> /\ ~paused[c] THEN "feed" ELSE "read")
      /\ why' = [why EXCEPT ![c] = IF ~over THEN @ ELSE IF ended[c] THEN "ended" ELSE "closed"]
      /\ UNCHANGED <<log, behind, roomVars, sessionVars, closing, ended, input, outerVars, woken, wire>>

(* recv_event returns Drained, and is called again.                        *)
Report(c) ==
  /\ pc[c] = "report"
  /\ drained' = [drained EXCEPT ![c] = FALSE]
  /\ Goto(c, "pour")
  /\ UNCHANGED <<outboxVars, roomVars, sessionVars, closing, ended, unreleased, input,
                 outerVars, woken, wire, why>>

(* Session::feed of one whole frame: a ping is answered unless a Close was *)
(* received; a Close, or a frame that fails the session, is answered once. *)
FeedPing(c) == IF received[c] THEN output[c] ELSE Append(output[c], Frame("pong", 0))

FeedEndAlways(c) == Append(output[c], Frame("close", 0))
FeedEnd(c) == IF session[c] = "Open" THEN Append(output[c], Frame("close", 0)) ELSE output[c]

Feed(c) ==
  /\ pc[c] = "feed"
  /\ input' = [input EXCEPT ![c] = Tail(@)]
  /\ CASE Head(input[c]) = "data" ->
            UNCHANGED sessionVars
       [] Head(input[c]) = "ping" ->
            /\ output' = [output EXCEPT ![c] = FeedPing(c)]
            /\ UNCHANGED <<session, received>>
       [] Head(input[c]) = "close" ->
            /\ output' = [output EXCEPT ![c] = FeedEnd(c)]
            /\ session' = [session EXCEPT ![c] = "Closed"]
            /\ received' = [received EXCEPT ![c] = TRUE]
       [] Head(input[c]) = "bad" ->
            /\ output' = [output EXCEPT ![c] = FeedEnd(c)]
            /\ session' = [session EXCEPT ![c] = "Failed"]
            /\ UNCHANGED received
  /\ Goto(c, "pour")
  /\ UNCHANGED <<outboxVars, roomVars, closing, ended, drained, unreleased, outerVars, woken,
                 wire, why>>

(* read: a closing connection waits for the peer only; any other also      *)
(* polls the shutdown signal, then the outbox, which is ready or keeps the *)
(* task's waker.                                                           *)
Park(c) ==
  /\ pc[c] = "read" /\ (closing[c] \/ ~shutdown)
  /\ IF ~closing[c] /\ Ready(queue[c])
     THEN Goto(c, "pour") /\ UNCHANGED <<queue, woken>>
     ELSE /\ Goto(c, "parked")
          /\ queue' = IF closing[c] THEN queue ELSE [queue EXCEPT ![c] = register(@)]
          /\ woken' = [woken EXCEPT ![c] = FALSE]
  /\ UNCHANGED <<total, log, behind, roomVars, sessionVars, taskVars, outerVars, wire, why>>

Wake(c) ==
  /\ pc[c] = "parked" /\ woken[c]
  /\ Goto(c, "pour")
  /\ UNCHANGED <<outboxVars, roomVars, sessionVars, taskVars, outerVars, woken, wire, why>>

Reading(c) == pc[c] \in {"read", "parked"}

(* The peer's bytes complete the read, unless the connection is paused.    *)
ReadData(c) ==
  /\ Reading(c) /\ ~paused[c]
  /\ peer[c] < MaxPeer
  /\ \E f \in PeerFrames : input' = [input EXCEPT ![c] = Append(@, f)]
  /\ peer' = [peer EXCEPT ![c] = @ + 1]
  /\ Goto(c, "pour")
  /\ UNCHANGED <<outboxVars, roomVars, sessionVars, closing, ended, drained, unreleased,
                 woken, paused, shutdown, wire, why>>

(* The peer went away, or did not answer the Close before the deadline.    *)
ReadEnds(c) ==
  /\ Reading(c) /\ ~paused[c]
  /\ Goto(c, "finish")
  /\ why' = [why EXCEPT ![c] = "dropped"]
  /\ UNCHANGED <<outboxVars, roomVars, sessionVars, taskVars, outerVars, woken, wire>>

CloseTimeout(c) ==
  /\ Reading(c) /\ closing[c]
  /\ Goto(c, "finish")
  /\ why' = [why EXCEPT ![c] = "timeout"]
  /\ UNCHANGED <<outboxVars, roomVars, sessionVars, taskVars, outerVars, woken, wire>>

(* The shutdown signal: refuse later pushes, take what waits, then close   *)
(* with 1001.                                                              *)
GoAwaySeals(c) ==
  LET t == ApplyAll(TaskOf(c), queue[c].entries)
  IN  /\ Reading(c) /\ shutdown /\ ~closing[c]
      /\ queue' = [queue EXCEPT ![c] = seal(@)]
      /\ Becomes(c, t)
      /\ Goto(c, "pour")
      /\ UNCHANGED <<total, log, behind, casting, received, drained, input, outerVars, woken, wire, why>>
GoAway(c) ==
  LET t == ApplyAll(TaskOf(c), queue[c].entries)
  IN  /\ Reading(c) /\ shutdown /\ ~closing[c]
      /\ queue' = [queue EXCEPT ![c] = seal(@)]
      /\ Becomes(c, IF t.ended THEN t
                    ELSE [CloseSession(t, Frame("goaway", 0)) EXCEPT !.closing = TRUE])
      /\ Goto(c, "pour")
      /\ UNCHANGED <<total, log, behind, casting, received, drained, input, outerVars, woken, wire, why>>

(* The caller drops the future of recv_event at an await, for a ping that  *)
(* is due or for its event ledger, and calls it again.  A read that found  *)
(* no buffer goes round the same way.                                      *)
AtAwait(c) == pc[c] = "parked" \/ (pc[c] = "flush" /\ output[c] # <<>>)
Cancel(c) ==
  /\ AtAwait(c)
  /\ Goto(c, "pour")
  /\ UNCHANGED <<outboxVars, roomVars, sessionVars, taskVars, outerVars, woken, wire, why>>

(* The drain deadline drops the task at an await; what it held is dropped. *)
DropTask(c) ==
  /\ AtAwait(c) /\ shutdown
  /\ Goto(c, "finish")
  /\ why' = [why EXCEPT ![c] = "dropped"]
  /\ UNCHANGED <<outboxVars, roomVars, sessionVars, taskVars, outerVars, woken, wire>>

(* finish closes the outbox; the task ends and leaves its rooms.           *)
FinishQuiet(c) ==
  /\ pc[c] = "finish"
  /\ queue' = [queue EXCEPT ![c] = closeQueue(@)]
  /\ UNCHANGED total
  /\ member' = [member EXCEPT ![c] = FALSE]
  /\ Goto(c, "done")
  /\ UNCHANGED <<log, behind, casting, sessionVars, taskVars, outerVars, woken, wire, why>>
Finish(c) ==
  /\ pc[c] = "finish"
  /\ queue' = [queue EXCEPT ![c] = closeQueue(@)]
  /\ total' = total - queue[c].bytes
  /\ member' = [member EXCEPT ![c] = FALSE]
  /\ Goto(c, "done")
  /\ UNCHANGED <<log, behind, casting, sessionVars, taskVars, outerVars, woken, wire, why>>

-----------------------------------------------------------------------------
Task(c) ==
  \/ Pour(c) \/ Seal(c) \/ Write(c) \/ WriteFails(c) \/ Flushed(c) \/ Report(c) \/ Feed(c)
  \/ Park(c) \/ Wake(c) \/ ReadData(c) \/ ReadEnds(c) \/ CloseTimeout(c) \/ GoAway(c)
  \/ Cancel(c) \/ DropTask(c) \/ Finish(c)

Others ==
  \/ \E c \in Conn :
       \/ \E m \in Commands : Push(c, m)
       \/ Broadcast(c)
       \/ Pause(c)
  \/ StartBroadcast
  \/ Shutdown

Next == Others \/ \E c \in Conn : Task(c)

Spec == Init /\ [][Next]_vars

(* The runtime polls a task that can go on.  A caller that drops the       *)
(* future polls it first, so a write or a wake that keeps becoming ready   *)
(* is taken, and the deadline of a Close is absolute, so a read that keeps *)
(* starting again does not put it off.  That a peer takes what is written  *)
(* to it is assumed; nobody has to push, to broadcast, to pause or to send.*)
Runs(c) ==
  Pour(c) \/ Seal(c) \/ Flushed(c) \/ Report(c) \/ Feed(c) \/ Park(c) \/ Finish(c)
FairSpec ==
  /\ Spec
  /\ \A c \in Conn :
       /\ WF_vars(Runs(c))
       /\ SF_vars(Write(c)) /\ SF_vars(Wake(c)) /\ SF_vars(GoAway(c)) /\ SF_vars(CloseTimeout(c))
=============================================================================
