------------------------------- MODULE Cores --------------------------------
(***************************************************************************)
(* The cores of a server from start to join (crates/zero-io                *)
(* src/compio_rt/{worker,shutdown,listen}.rs, crates/zero-rt               *)
(* src/worker.rs, crates/zero-http src/server.rs and crates/zero-tls       *)
(* src/accept.rs), where one listener hands its sockets to every core: the *)
(* threads, the shutdown signal with its wakers, the slot each core's      *)
(* accept loop takes sockets from, the task of the first core that fills   *)
(* the slots, the drain and the end of a core.                             *)
(*                                                                         *)
(* A poll of a task is several steps, one for each access to what other    *)
(* threads share: the flag, a slot's lock, the lock of the waiters.  The   *)
(* tasks of one core are polled one at a time.  That a woken task is       *)
(* polled is the executor's promise (module Executor).                     *)
(***************************************************************************)
EXTENDS Naturals, Sequences, FiniteSets, Functions

CONSTANTS
  N,        (* how many cores                                               *)
  Conn,     (* the connections clients make                                 *)
  NoConn,   (* no connection is held                                        *)
  Cap,      (* TlsLimits.max_handshakes_per_core                            *)
  Scenes    (* what the server meets: clients in the listener's queue from  *)
            (* the start (early), others (late), what may go wrong (fault), *)
            (* the cores whose request memory may run short (pressed)       *)

ASSUME CoresAssumption ==
  /\ N \in Nat \ {0} /\ Cap \in Nat \ {0} /\ NoConn \notin Conn
  /\ \A s \in Scenes :
       /\ s.early \in Seq(Conn) /\ s.late \subseteq Conn /\ s.pressed \subseteq 1 .. N
       /\ \A i, j \in DOMAIN s.early : i # j => s.early[i] # s.early[j]
       /\ s.late \cap Range(s.early) = {}
       /\ s.fault \subseteq {"start", "driver", "build", "setup", "panic"}

Core == 1 .. N
First == 1
Dist == 0                 (* distribute, the second task of the first core *)
Task == Core \cup {Dist}
CoreOf(t) == IF t = Dist THEN First ELSE t

VARIABLES
  scene,      (* what the server meets, fixed from the start                *)
  serve,      (* the starting thread: its step and how many cores it started *)
  core,       (* each thread: unborn, starting, running, drain, gone, unwound *)
  outcome,    (* what a core's loop returned                                *)
  events,     (* what the status callback was told of a core                *)
  at,         (* each task's step in its poll                               *)
  doing,      (* the future inside until                                    *)
  woken,      (* the tasks a waker scheduled                                *)
  requested,  (* Inner.requested                                            *)
  waiters,    (* Inner.waiters: the tasks with a waker there                *)
  waking,     (* the wakers request took and has yet to call                *)
  slot,       (* each core's Slot                                           *)
  next,       (* distribute's cycle, and the slot it closes                 *)
  backlog,    (* what the listener has not accepted                         *)
  conn,       (* each connection: where it is and on which core             *)
  held,       (* the connection the accept loop holds                       *)
  over        (* the core is over its request-memory budget                 *)

threadVars == <<serve, core, outcome, events>>
pollVars   == <<at, doing, woken>>
stopVars   == <<requested, waiters, waking>>
sockVars   == <<slot, next, backlog, conn, held>>
envVars    == <<scene, over>>
vars == <<scene, serve, core, outcome, events, at, doing, woken, requested, waiters, waking,
          slot, next, backlog, conn, held, over>>

Init ==
  /\ scene \in Scenes
  /\ serve = [at |-> "spawning", count |-> 0]
  /\ core = [c \in Core |-> "unborn"]
  /\ outcome = [c \in Core |-> "none"] /\ events = [c \in Core |-> {}]
  /\ at = [t \in Task |-> "unborn"] /\ doing = [t \in Task |-> "accept"]
  /\ woken = {} /\ requested = FALSE /\ waiters = {} /\ waking = {}
  /\ slot = [c \in Core |-> [items |-> <<>>, waker |-> FALSE, closed |-> FALSE]]
  /\ next = First /\ backlog = scene.early
  /\ conn = [x \in Conn |-> [at |-> IF x \in Range(scene.early) THEN "backlog" ELSE "away",
                            core |-> First]]
  /\ held = [c \in Core |-> NoConn] /\ over = [c \in Core |-> FALSE]

Place(x, where, c) == conn' = [conn EXCEPT ![x] = [at |-> where, core |-> c]]
Handshakes(c) == {x \in Conn : conn[x].at = "handshake" /\ conn[x].core = c}
Open(c) == {x \in Conn : conn[x].at \in {"handshake", "served"} /\ conn[x].core = c}

(* The listener is dropped before distribute ran: its backlog is refused.  *)
Refused == [x \in Conn |-> IF conn[x].at = "backlog" THEN [conn[x] EXCEPT !.at = "closed"]
                           ELSE conn[x]]
DropListener(here) ==
  IF here
  THEN at' = [at EXCEPT ![Dist] = "dropped"] /\ backlog' = <<>> /\ conn' = Refused
  ELSE UNCHANGED <<at, backlog, conn>>

-----------------------------------------------------------------------------
(* serve: a thread per core; when one cannot be started, the others are    *)
(* told to stop and joined.                                                *)

SpawnThread ==
  /\ serve.at = "spawning"
  /\ core' = [core EXCEPT ![serve.count + 1] = "starting"]
  /\ serve' = [at |-> IF serve.count + 1 = N THEN "running" ELSE "spawning",
               count |-> serve.count + 1]
  /\ UNCHANGED <<outcome, events, pollVars, stopVars, sockVars, envVars>>

SpawnFails ==
  /\ "start" \in scene.fault /\ serve.at = "spawning"
  /\ serve' = [serve EXCEPT !.at = "failing"]
  /\ DropListener(serve.count = 0)
  /\ UNCHANGED <<core, outcome, events, doing, woken, stopVars, slot, next, held, envVars>>

(* request, by anyone with the handle or by a start that failed: the flag  *)
(* is set and the wakers are taken under the lock, then each is called.    *)
request ==
  /\ ~requested /\ (serve.count > 0 \/ serve.at = "failing")
  /\ requested' = TRUE /\ waking' = waiters /\ waiters' = {}
  /\ UNCHANGED <<threadVars, pollVars, sockVars, envVars>>

CallWaker(t) ==
  /\ t \in waking
  /\ waking' = waking \ {t} /\ woken' = woken \cup {t}
  /\ UNCHANGED <<threadVars, at, doing, requested, waiters, sockVars, envVars>>

Ended(c) == core[c] \in {"gone", "unwound"}

JoinStarted ==
  /\ serve.at = "failing" /\ requested /\ waking = {}
  /\ \A c \in 1 .. serve.count : Ended(c)
  /\ serve' = [serve EXCEPT !.at = "failed"]
  /\ UNCHANGED <<core, outcome, events, pollVars, stopVars, sockVars, envVars>>

(* Workers::join.                                                          *)
Join ==
  /\ serve.at = "running" /\ \A c \in Core : Ended(c)
  /\ serve' = [serve EXCEPT !.at = "joined"]
  /\ UNCHANGED <<core, outcome, events, pollVars, stopVars, sockVars, envVars>>

-----------------------------------------------------------------------------
(* A worker's thread up to its loop.                                       *)

StartCore(c) ==
  /\ core[c] = "starting"
  /\ core' = [core EXCEPT ![c] = "running"]
  /\ events' = [events EXCEPT ![c] = @ \cup {"Started"}]
  /\ at' = [t \in Task |-> IF CoreOf(t) = c THEN "queued" ELSE at[t]]
  /\ UNCHANGED <<serve, outcome, doing, woken, stopVars, sockVars, envVars>>

(* The driver cannot be created, or the listener not be attached: the      *)
(* worker returns, and the listener goes with its seed.                    *)
DriverFails(c) ==
  /\ "driver" \in scene.fault /\ core[c] = "starting"
  /\ core' = [core EXCEPT ![c] = "gone"]
  /\ outcome' = [outcome EXCEPT ![c] = "err"]
  /\ DropListener(c = First)
  /\ UNCHANGED <<serve, events, doing, woken, stopVars, slot, next, held, envVars>>

(* per_core itself, which makes the handler, panics outside contain: the   *)
(* thread unwinds without clear, and the tasks, which hold the handle that *)
(* holds them, are leaked with their listener.                             *)
BuildPanics(c) ==
  /\ "build" \in scene.fault /\ core[c] = "starting"
  /\ core' = [core EXCEPT ![c] = "unwound"]
  /\ outcome' = [outcome EXCEPT ![c] = "err"]
  /\ at' = [t \in Task |-> IF CoreOf(t) # c THEN at[t] ELSE "leaked"]
  /\ UNCHANGED <<serve, events, doing, woken, stopVars, sockVars, envVars>>

-----------------------------------------------------------------------------
(* ShutdownHandle::until around the future of a task.                      *)

MidPoll(t) == at[t] \notin {"unborn", "queued", "parked", "ended", "dropped", "leaked"}
MayBePolled(t) ==
  /\ core[CoreOf(t)] \in {"running", "drain"}
  /\ \A u \in Task \ {t} : CoreOf(u) = CoreOf(t) => ~MidPoll(u)

(* The loop of a core returns: the connection it holds is dropped, and the *)
(* drain begins.                                                           *)
LoopEnds(c, result, told) ==
  /\ at' = [at EXCEPT ![c] = "ended"]
  /\ core' = [core EXCEPT ![c] = "drain"]
  /\ outcome' = [outcome EXCEPT ![c] = result]
  /\ events' = [events EXCEPT ![c] = @ \cup told \cup {"Stopped"}]
  /\ held' = [held EXCEPT ![c] = NoConn]

(* until yields None.                                                      *)
Stops(t) ==
  IF t = Dist
  THEN /\ at' = [at EXCEPT ![t] = "close"] /\ next' = First
       /\ UNCHANGED <<core, outcome, events, conn, held>>
  ELSE /\ LoopEnds(t, "ok", {})
       /\ conn' = IF held[t] = NoConn THEN conn ELSE [conn EXCEPT ![held[t]].at = "closed"]
       /\ UNCHANGED next

(* A poll begins, or the loop comes round: the signal is read first.       *)
ReadFlag(t) ==
  /\ MayBePolled(t)
  /\ at[t] = "flag" \/ (at[t] = "parked" /\ t \in woken) \/ (at[t] = "queued" /\ t = Dist)
  /\ woken' = IF at[t] = "parked" THEN woken \ {t} ELSE woken
  /\ IF requested
     THEN /\ Stops(t) /\ waiters' = waiters \ {t}
     ELSE /\ at' = [at EXCEPT ![t] = "future"]
          /\ UNCHANGED <<core, outcome, events, next, conn, held, waiters>>
  /\ UNCHANGED <<serve, doing, requested, waking, slot, backlog, envVars>>

(* The future was pending: Requested::poll reads the flag and registers    *)
(* under one lock.                                                         *)
RegistersUnchecked(t) ==
  /\ at[t] = "stop"
  /\ waiters' = waiters \cup {t} /\ at' = [at EXCEPT ![t] = "parked"]
  /\ UNCHANGED <<threadVars, doing, woken, requested, waking, sockVars, envVars>>
PollStop(t) ==
  /\ at[t] = "stop"
  /\ IF requested
     THEN /\ Stops(t) /\ waiters' = waiters \ {t}
     ELSE /\ waiters' = waiters \cup {t} /\ at' = [at EXCEPT ![t] = "parked"]
          /\ UNCHANGED <<core, outcome, events, next, conn, held>>
  /\ UNCHANGED <<serve, doing, woken, requested, waking, slot, backlog, envVars>>

(* A pause is polled: over once its timer fired.                           *)
PollPause(t) ==
  /\ at[t] = "future" /\ doing[t] \in {"pause", "elapsed"}
  /\ IF doing[t] = "pause"
     THEN at' = [at EXCEPT ![t] = "stop"] /\ UNCHANGED <<doing, waiters>>
     ELSE /\ at' = [at EXCEPT ![t] = IF t = Dist THEN "flag" ELSE "gate"]
          /\ doing' = [doing EXCEPT ![t] = "accept"] /\ waiters' = waiters \ {t}
  /\ UNCHANGED <<threadVars, woken, requested, waking, sockVars, envVars>>

TimerFires(t) ==
  /\ at[t] = "parked" /\ doing[t] = "pause"
  /\ doing' = [doing EXCEPT ![t] = "elapsed"] /\ woken' = woken \cup {t}
  /\ UNCHANGED <<threadVars, at, stopVars, sockVars, envVars>>

-----------------------------------------------------------------------------
(* run_core.                                                               *)

Busy(c) == over[c] \/ Cardinality(Handshakes(c)) >= Cap

(* The head of the loop, and the wait with a connection in hand.  spawn    *)
(* counts the handshake before the loop goes on (Slot::enter).             *)
Gate(c) ==
  /\ at[c] = "gate" \/ (at[c] = "queued" /\ MayBePolled(c))
  /\ \/ /\ Busy(c)
        /\ at' = [at EXCEPT ![c] = "flag"] /\ doing' = [doing EXCEPT ![c] = "pause"]
        /\ UNCHANGED <<conn, held>>
     \/ /\ ~Busy(c) /\ held[c] # NoConn
        /\ Place(held[c], "handshake", c) /\ held' = [held EXCEPT ![c] = NoConn]
        /\ UNCHANGED <<at, doing>>
     \/ /\ ~Busy(c) /\ held[c] = NoConn
        /\ at' = [at EXCEPT ![c] = "flag"] /\ doing' = [doing EXCEPT ![c] = "accept"]
        /\ UNCHANGED <<conn, held>>
  /\ UNCHANGED <<threadVars, woken, stopVars, slot, next, backlog, envVars>>

(* Slot::poll_next, under its lock, inside Acceptor::accept.               *)
Accepting(c) == at[c] = "future" /\ doing[c] = "accept"

TakeSocket(c) ==
  /\ Accepting(c) /\ slot[c].items # <<>>
  /\ LET x == Head(slot[c].items)
     IN  Place(x, "held", c) /\ held' = [held EXCEPT ![c] = x]
  /\ slot' = [slot EXCEPT ![c].items = Tail(@)]
  /\ at' = [at EXCEPT ![c] = "gate"] /\ waiters' = waiters \ {c}
  /\ UNCHANGED <<threadVars, doing, woken, requested, waking, next, backlog, envVars>>

(* The stream cannot be set up: the socket is dropped, and the loop goes   *)
(* on, pauses, or returns the error.                                       *)
SetupFails(c, kind) ==
  /\ "setup" \in scene.fault /\ Accepting(c) /\ slot[c].items # <<>>
  /\ Place(Head(slot[c].items), "closed", c)
  /\ slot' = [slot EXCEPT ![c].items = Tail(@)] /\ waiters' = waiters \ {c}
  /\ IF kind = "fatal"
     THEN /\ LoopEnds(c, "err", {}) /\ UNCHANGED doing
     ELSE /\ at' = [at EXCEPT ![c] = IF kind = "resources" THEN "flag" ELSE "gate"]
          /\ doing' = [doing EXCEPT ![c] = IF kind = "resources" THEN "pause" ELSE @]
          /\ UNCHANGED <<core, outcome, events, held>>
  /\ UNCHANGED <<serve, woken, requested, waking, next, backlog, envVars>>

SlotClosed(c) ==
  /\ Accepting(c) /\ slot[c].items = <<>> /\ slot[c].closed
  /\ LoopEnds(c, "err", {}) /\ waiters' = waiters \ {c}
  /\ UNCHANGED <<serve, doing, woken, requested, waking, slot, next, backlog, conn, envVars>>

AwaitSocket(c) ==
  /\ Accepting(c) /\ slot[c].items = <<>> /\ ~slot[c].closed
  /\ slot' = [slot EXCEPT ![c].waker = TRUE]
  /\ at' = [at EXCEPT ![c] = "stop"]
  /\ UNCHANGED <<threadVars, doing, woken, stopVars, next, backlog, conn, held, envVars>>

(* A panic in the loop, which contain catches.                             *)
LoopPanics(c) ==
  /\ "panic" \in scene.fault /\ Accepting(c)
  /\ LoopEnds(c, "err", {"WorkerPanic"}) /\ waiters' = waiters \ {c}
  /\ UNCHANGED <<serve, doing, woken, requested, waking, slot, next, backlog, conn, envVars>>

-----------------------------------------------------------------------------
(* distribute.                                                             *)

DistAccepting == at[Dist] = "future" /\ doing[Dist] = "accept"

PushesQuietly ==
  LET x == Head(backlog)
  IN  /\ DistAccepting /\ backlog # <<>>
      /\ backlog' = Tail(backlog) /\ Place(x, "handed", next)
      /\ slot' = [slot EXCEPT ![next].items = Append(@, x)]
      /\ at' = [at EXCEPT ![Dist] = "flag"]
      /\ next' = (next % N) + 1
      /\ waiters' = waiters \ {Dist}
      /\ UNCHANGED <<threadVars, doing, woken, requested, waking, held, envVars>>
(* push, under the slot's lock; its waker is called after it.              *)
Push ==
  LET x == Head(backlog)
  IN  /\ DistAccepting /\ backlog # <<>>
      /\ backlog' = Tail(backlog) /\ Place(x, "handed", next)
      /\ slot' = [slot EXCEPT ![next] = [@ EXCEPT !.items = Append(@, x), !.waker = FALSE]]
      /\ at' = [at EXCEPT ![Dist] = IF slot[next].waker THEN "call" ELSE "flag"]
      /\ next' = (next % N) + 1
      /\ waiters' = waiters \ {Dist}
      /\ UNCHANGED <<threadVars, doing, woken, requested, waking, held, envVars>>

CallSlotWaker ==
  /\ at[Dist] = "call"
  /\ woken' = woken \cup {IF next = 1 THEN N ELSE next - 1}
  /\ at' = [at EXCEPT ![Dist] = "flag"]
  /\ UNCHANGED <<threadVars, doing, stopVars, sockVars, envVars>>

AwaitAccept ==
  /\ DistAccepting /\ backlog = <<>>
  /\ at' = [at EXCEPT ![Dist] = "stop"]
  /\ UNCHANGED <<threadVars, doing, woken, stopVars, sockVars, envVars>>

AcceptDone ==
  /\ at[Dist] = "parked" /\ doing[Dist] = "accept" /\ backlog # <<>>
  /\ woken' = woken \cup {Dist}
  /\ UNCHANGED <<threadVars, at, doing, stopVars, sockVars, envVars>>

(* The accept fails: a pause, or the end.                                  *)
AcceptFails(transient) ==
  /\ "setup" \in scene.fault /\ DistAccepting
  /\ at' = [at EXCEPT ![Dist] = IF transient THEN "flag" ELSE "close"]
  /\ doing' = [doing EXCEPT ![Dist] = IF transient THEN "pause" ELSE @]
  /\ next' = IF transient THEN next ELSE First
  /\ waiters' = waiters \ {Dist}
  /\ UNCHANGED <<threadVars, woken, requested, waking, slot, backlog, conn, held, envVars>>

(* close: the mark, then the waker under the lock, slot by slot; at the    *)
(* end the listener goes.                                                  *)
CloseMark ==
  /\ at[Dist] = "close"
  /\ slot' = [slot EXCEPT ![next].closed = TRUE]
  /\ at' = [at EXCEPT ![Dist] = "close_wake"]
  /\ UNCHANGED <<threadVars, doing, woken, stopVars, next, backlog, conn, held, envVars>>

CloseWake ==
  /\ at[Dist] = "close_wake"
  /\ slot' = [slot EXCEPT ![next].waker = FALSE]
  /\ woken' = IF slot[next].waker THEN woken \cup {next} ELSE woken
  /\ IF next < N
     THEN /\ next' = next + 1 /\ at' = [at EXCEPT ![Dist] = "close"]
          /\ UNCHANGED <<backlog, conn>>
     ELSE /\ at' = [at EXCEPT ![Dist] = "ended"] /\ backlog' = <<>> /\ conn' = Refused
          /\ UNCHANGED next
  /\ UNCHANGED <<threadVars, doing, stopVars, held, envVars>>

-----------------------------------------------------------------------------
(* drain, until no task is left: the ticker is one and ends with the       *)
(* signal, distribute another; or until the deadline.  Then clear drops    *)
(* what is left.                                                           *)
Drained(c) ==
  /\ requested /\ Open(c) = {}
  /\ c = First => at[Dist] = "ended"

EndCore(c, deadline) ==
  /\ core[c] = "drain" /\ (deadline \/ Drained(c))
  /\ \A t \in Task : CoreOf(t) = c => ~MidPoll(t)
  /\ core' = [core EXCEPT ![c] = "gone"]
  /\ LET cut == c = First /\ at[Dist] # "ended"
         base == IF cut THEN Refused ELSE conn
     IN  /\ at' = IF cut THEN [at EXCEPT ![Dist] = "dropped"] ELSE at
         /\ waiters' = IF cut THEN waiters \ {Dist} ELSE waiters
         /\ backlog' = IF cut THEN <<>> ELSE backlog
         /\ conn' = [x \in Conn |-> IF x \in Open(c) THEN [conn[x] EXCEPT !.at = "closed"]
                                    ELSE base[x]]
  /\ UNCHANGED <<serve, outcome, events, doing, woken, requested, waking, slot, next, held, envVars>>

-----------------------------------------------------------------------------
(* The clients, the handshakes and the budget of a core.                   *)

Arrive(x) ==
  /\ x \in scene.late /\ conn[x].at = "away" /\ at[Dist] \notin {"ended", "dropped"}
  /\ Place(x, "backlog", First) /\ backlog' = Append(backlog, x)
  /\ UNCHANGED <<threadVars, pollVars, stopVars, slot, next, held, envVars>>

Prepared(x) ==
  /\ conn[x].at = "handshake"
  /\ \E result \in {"served", "closed"} : Place(x, result, conn[x].core)
  /\ UNCHANGED <<threadVars, pollVars, stopVars, slot, next, backlog, held, envVars>>

Finish(x) ==
  /\ conn[x].at = "served"
  /\ Place(x, "closed", conn[x].core)
  /\ UNCHANGED <<threadVars, pollVars, stopVars, slot, next, backlog, held, envVars>>

Budget(c) ==
  /\ c \in scene.pressed /\ at[c] = "parked"
  /\ over' = [over EXCEPT ![c] = ~@]
  /\ UNCHANGED <<threadVars, pollVars, stopVars, sockVars, scene>>

-----------------------------------------------------------------------------
ServeStep == SpawnThread \/ SpawnFails \/ JoinStarted \/ Join \/ (serve.at = "failing" /\ request)
CoreStep(c) == StartCore(c) \/ DriverFails(c) \/ BuildPanics(c) \/ Gate(c) \/ TakeSocket(c)
  \/ SlotClosed(c) \/ AwaitSocket(c) \/ LoopPanics(c)
  \/ \E kind \in {"transient", "resources", "fatal"} : SetupFails(c, kind)
DistStep == Push \/ CallSlotWaker \/ AwaitAccept \/ CloseMark \/ CloseWake
  \/ \E transient \in BOOLEAN : AcceptFails(transient)
PollStep(t) == ReadFlag(t) \/ PollStop(t) \/ PollPause(t)

Next ==
  \/ ServeStep \/ request \/ DistStep \/ AcceptDone
  \/ \E c \in Core : CoreStep(c) \/ Budget(c) \/ \E deadline \in BOOLEAN : EndCore(c, deadline)
  \/ \E t \in Task : PollStep(t) \/ CallWaker(t) \/ TimerFires(t)
  \/ \E x \in Conn : Arrive(x) \/ Prepared(x) \/ Finish(x)

(* A step of a task, a core's accept loop from its thread's start on.      *)
TaskStep(t) == PollStep(t) \/ (t \in Core /\ CoreStep(t)) \/ (t = Dist /\ DistStep)

(* Every thread is scheduled, timers fire, accepts complete and handshakes *)
(* end by their timeout; nobody need connect, finish or ask for a stop.    *)
(* The fairness of a task is strong: its executor polls what was woken in  *)
(* the next round, however busy the other task of the core is.             *)
Spec ==
  /\ Init /\ [][Next]_vars
  /\ WF_vars(ServeStep) /\ WF_vars(AcceptDone) /\ WF_vars(\E t \in Task : CallWaker(t))
  /\ \A c \in Core : WF_vars(\E deadline \in BOOLEAN : EndCore(c, deadline))
  /\ \A t \in Task : SF_vars(TaskStep(t)) /\ WF_vars(TimerFires(t))
  /\ \A x \in Conn : WF_vars(Prepared(x))
=============================================================================
