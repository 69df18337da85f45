----------------------------- MODULE CoresProps -----------------------------
(***************************************************************************)
(* What the cores of a server must keep.                                   *)
(***************************************************************************)
EXTENDS Cores

(* A request ends every core, whatever it was doing: waiting for a socket, *)
(* pausing, holding a connection, filling the slots, or just starting, and *)
(* the server is joined (request, Requested::poll, until, drain).          *)
AllEnd == requested ~> serve.at \in {"failed", "joined"}

(* A socket that was handed to a core leaves its slot, and the one its     *)
(* loop holds is spawned, unless the loop ends or the core is over its     *)
(* budget again and again (push, poll_next, run_core).                     *)
Waiting(x) ==
  /\ conn[x].at \in {"handed", "held"}
  /\ core[conn[x].core] \in {"starting", "running"}

HandedSpawned == \A x \in Conn : []<>(~Waiting(x) \/ over[conn[x].core])
=============================================================================
