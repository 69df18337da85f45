--------------------------- MODULE HttpConnProps ---------------------------
(***************************************************************************)
(* What the HTTP/1.1 driver promises.                                      *)
(***************************************************************************)
EXTENDS HttpConn

(* A response that says close, or that claims the connection.  Not the one *)
(* that says close astray: a bare 500 in the place of a stream's head, with *)
(* which the connection goes on.                                           *)
Ends(w) == (w.says /\ ~w.stray) \/ w.claim # "none"

(* RFC 9112 Section 9.3.2, the purpose of the ring: responses go out in    *)
(* the order of the requests, one for each and none skipped, whatever      *)
(* order their handlers completed in, timed out or were dropped in.  Only  *)
(* behind a response that ends the connection are requests skipped, and at *)
(* most one response follows it: a head that timed out is still answered.  *)
OneEach ==
  \A k \in DOMAIN wire :
    /\ (\A j \in 1..(k - 1) : ~Ends(wire[j])) => wire[k].r = k
    /\ \A j \in 1..(k - 1) : /\ wire[j].r < wire[k].r
                             /\ Ends(wire[j]) => k = j + 1 /\ k = Len(wire)

(* owes_continue, wrote: a 100 goes out at most once, only to a request    *)
(* that expects it, and never after that request's own response.           *)
ContinueFirst ==
  \A k \in DOMAIN interim :
    /\ asked[interim[k].r].expect = "continue"
    /\ \A j \in 1..(k - 1) : interim[j].r # interim[k].r
    /\ \A j \in 1..interim[k].after : wire[j].r # interim[k].r

(* start_runnable: two handlers run at once only if both requests are      *)
(* safe, so an unsafe one sees every earlier response sent and delays      *)
(* every later one.                                                        *)
UnsafeAlone ==
  \A i, j \in DOMAIN ring :
    (i # j /\ ring[i].stage = "running" /\ ring[j].stage = "running")
       => (ring[i].safe /\ ring[j].safe)

(* The order of requests, in responses, 100s and handlers.                 *)
InOrder == OneEach /\ ContinueFirst /\ UnsafeAlone

(* count_body, uncount_body: the core's body budget is exactly what the    *)
(* ring's entries and their handlers' records hold, through completion,    *)
(* export, cancellation, time outs and the drop of later requests.  The    *)
(* ring itself stays within max_pipelined, the answer to a head that timed *)
(* out included, so its push never refuses one.                            *)
BodiesCounted == bodies = Charges(ring) /\ Len(ring) <= MaxPipelined

(* complete, wrote, give_record, run: a claim that a response carries is   *)
(* handed over if its head was written, and reported dropped if it was     *)
(* not, by the time the task ends: never both, never neither.  Only a      *)
(* claim that no response came to carry ends without a word to its         *)
(* handler: "void", for the handler failed or answered something else, or  *)
(* "lost", with the future of a handler that was canceled.  Its request is *)
(* never answered by a head that claims the connection.                    *)
ClaimSettled ==
  \A r \in Request :
    /\ pc = "closed" => claims[r] \notin {"claimed", "kept"}
    /\ claims[r] = "handed" => \E k \in DOMAIN wire : wire[k].r = r /\ wire[k].claim # "none"
    /\ claims[r] = "dropped" => \A k \in DOMAIN wire : wire[k].r # r
    /\ \A k \in DOMAIN wire :
         (wire[k].r = r /\ wire[k].claim # "none") => claims[r] \in {"kept", "handed"}

(* What follows an upgrade request reaches the new protocol complete: the  *)
(* input handed over begins right behind the request, and what is not in   *)
(* it is still in the socket.                                              *)
UpgradeKeepsInput ==
  \A k \in DOMAIN wire :
    (wire[k].claim = "upgrade" /\ claims[wire[k].r] = "handed")
       => parsed = <<wire[k].r + 1, 1>>

(* A connection whose worker shuts down ends, even if the peer stops       *)
(* sending and reading, no handler completes and no hold is dropped.       *)
ShutdownEnds == stop ~> (pc = "closed")

(* decode: the framing that NeedMore left unconsumed is presented again    *)
(* with more bytes after it, so a connection that waits for the rest of a  *)
(* body reads.                                                             *)
StalledReads == (pc = "wait" /\ BodyPending /\ ~Held /\ ~retry /\ ~taking) => want
=============================================================================
