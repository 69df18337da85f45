------------------------------ MODULE HttpConn ------------------------------
(***************************************************************************)
(* The HTTP/1.1 driver of one connection (crates/zero-http conn.rs and     *)
(* ring.rs): one task that reads heads and bodies into a ring of pipelined *)
(* requests, runs their handlers, and writes responses in request order.   *)
(*                                                                         *)
(* A turn of the task is tick (expire, process_input, start_runnable,      *)
(* plan_write) and then one wait for a handler, the write, the read, a     *)
(* deadline, a dropped read hold or the shutdown.  pc is the place in that *)
(* turn.  Octets are pieces: of a head, of a body, of a chunk's framing.   *)
(* Time is abstracted: a deadline that is set may have passed at any tick. *)
(***************************************************************************)
EXTENDS Naturals, SequencesExt, FiniteSets

CONSTANTS
  Kinds,         (* kinds of requests: [safe, keep, body, expect, upgrade,  *)
                 (* stream]; none for a HEAD request may stream             *)
  Scripts,       (* what peers send: sequences of at most MaxRequests kinds *)
  Answers,       (* how handlers answer: the fate of a claim, and close     *)
  MaxRequests,   (* bound: requests the peer sends                          *)
  MaxPipelined,  (* Http1Limits.max_pipelined, within the ring's CAP        *)
  MaxServed,     (* Http1Limits.max_requests_per_connection                 *)
  MaxSocket,     (* bound: pieces that wait in the socket                   *)
  MaxHolds       (* bound: read holds in place at once                      *)

ASSUME HttpAssumption ==
  /\ \A k \in Kinds : /\ k.safe \in BOOLEAN /\ k.keep \in BOOLEAN /\ k.upgrade \in BOOLEAN
                      /\ k.stream \in BOOLEAN
                      /\ k.body \in {"none", "length", "huge", "chunked", "over", "malformed", "reject"}
                      /\ k.expect \in {"none", "continue", "other"}
  /\ \A s \in Scripts : s \in Seq(Kinds) /\ Len(s) <= MaxRequests
  /\ Answers \subseteq [fate : {"kept", "void", "bare"}, close : BOOLEAN]
  /\ {MaxRequests, MaxPipelined, MaxServed, MaxSocket} \subseteq Nat \ {0} /\ MaxHolds \in Nat

VARIABLES
  asked,      (* the requests the peer sends, by number                     *)
  sent,       (* the peer's stream, sent up to this mark                    *)
  fin,        (* the peer closed its side                                   *)
  stop,       (* the worker's shutdown signal                               *)
  pc,         (* the place in the turn                                      *)
  polled,     (* the first entry that completed in this poll, 0 for none    *)
  want,       (* wait: want_read                                            *)
  got,        (* the stream, read up to this mark                           *)
  parsed,     (* Conn.input: the stream from this mark to got               *)
  head_since, (* Conn.head_since is set                                     *)
  ring,       (* Conn.ring, from its head                                   *)
  writing,    (* Conn.writing                                               *)
  requests,   (* Conn.requests                                              *)
  close,      (* Conn.close                                                 *)
  draining,   (* Conn.draining                                              *)
  retry,      (* Conn.retry_read_at is set                                  *)
  aborted,    (* Conn.aborted                                               *)
  taking,     (* Conn.taking                                                *)
  taken,      (* the request of Conn.taken, 0 for none                      *)
  holds,      (* HoldCell.count                                             *)
  read_held,  (* Conn.read_held                                             *)
  bodies,     (* Shared.bodies                                              *)
  wire,       (* history: the responses written                             *)
  interim,    (* history: the 100s written, and behind how many responses   *)
  claims      (* history: what became of each request's claim               *)

peerVars  == <<asked, sent, fin, stop>>
inputVars == <<got, parsed>>
wireVars  == <<wire, interim>>
ringVars  == <<ring, bodies, claims>>
closeVars == <<close, draining, aborted>>
takeVars  == <<taking, taken>>
holdVars  == <<holds, read_held>>
vars == <<asked, sent, fin, stop, pc, polled, want, got, parsed, head_since, ring, writing,
          requests, close, draining, retry, aborted, taking, taken, holds, read_held, bodies,
          wire, interim, claims>>

Request == 1..MaxRequests
NoWrite == [count |-> 0, prefix |-> 0]     (* prefix: whose 100 it is       *)

(* The pieces of a request on the wire.  A head arrives in two pieces or   *)
(* at once.  A body of known length has two octets.  A chunk is a piece of *)
(* its size line and the rest of it with its data.                         *)
BodyPieces(body) ==
  CASE body \in {"none", "reject"}    -> <<>>
    [] body = "length"                -> <<"octet", "octet">>
    [] body = "huge"                  -> <<"octet">>
    [] body = "malformed"             -> <<"junk">>
    [] body \in {"chunked", "over"}   -> <<"line", "data", "last">>
Pieces(r) == <<"head", "rest">> \o BodyPieces(asked[r].body)

(* A mark <<r, k>> of the stream: the k-th piece of request r is next.     *)
After(m) == IF m[2] < Len(Pieces(m[1])) THEN <<m[1], m[2] + 1>> ELSE <<m[1] + 1, 1>>
Precedes(m, n) == m[1] < n[1] \/ (m[1] = n[1] /\ m[2] < n[2])
MarksOf(r) == {r} \X DOMAIN Pieces(r)
StreamEnd == <<Len(asked) + 1, 1>>
Marks == {StreamEnd} \cup UNION {MarksOf(r) : r \in DOMAIN asked}

NoInput   == parsed = got
Piece     == Pieces(parsed[1])[parsed[2]]
MoreInput == ~NoInput /\ After(parsed) # got     (* more than one piece      *)

(* Ring entries: the request's stage, whether its head was parsed, what its *)
(* body's framing still needs, the 100 it is owed, its charges on the core's *)
(* budget, the claim of a running handler, its response: the claim it      *)
(* carries, whether the handler closes, whether the head says close, and   *)
(* whether it says so astray, on a connection that goes on.                *)
NewEntry(r, stage, complete, left, cont) ==
  [r |-> r, stage |-> stage, safe |-> complete /\ asked[r].safe,
   upgrade |-> complete /\ asked[r].upgrade, left |-> left, cont |-> cont, bytes |-> 0,
   charge |-> 0, claiming |-> "none", claim |-> "none", close |-> FALSE, says |-> FALSE,
   stray |-> FALSE]

Held           == holds > 0
BodyPending    == ring # <<>> /\ Last(ring).stage = "body"
UpgradePendingEarly == ring # <<>> /\ Last(ring).upgrade /\ Last(ring).stage = "waiting"
UpgradePending == ring # <<>> /\ Last(ring).upgrade /\ Last(ring).stage # "body"
IdleConn       == ring = <<>> /\ NoInput /\ ~head_since /\ writing = NoWrite

(* wait: whether the connection reads.                                     *)
WantRead ==
  /\ NoInput \/ head_since
  /\ ~close \/ BodyPending
  /\ ~retry /\ ~taking /\ ~UpgradePending

(* next_deadline: whether any deadline is set.                             *)
HasDeadline ==
  \/ retry
  \/ IdleConn /\ ~close
  \/ writing # NoWrite
  \/ head_since /\ ~Held
  \/ \E i \in DOMAIN ring : ring[i].stage # "done"

(* serialize: a claim decides whether the head says Connection: close.     *)
Says(claim, flag) ==
  CASE claim = "upgrade" -> FALSE
    [] claim = "stream"  -> TRUE
    [] OTHER             -> flag

(* Entries that leave the ring return their charges, octet by octet        *)
(* (release_entry, and the drop of Charged with a handler's future).  The  *)
(* claim of a response that was not handed over is reported dropped        *)
(* (give_record); the claim of a handler that still runs goes down with    *)
(* its future, and nobody is told.                                         *)
Octets(entries) ==
  UNION {{k} \X (1..(entries[k].bytes + entries[k].charge)) : k \in DOMAIN entries}
Charges(entries) == Cardinality(Octets(entries))
DroppedClaimsForgotten(entries, was) == was
DroppedClaims(entries, was) ==
  [r \in Request |->
     IF \E k \in DOMAIN entries : entries[k].r = r /\ entries[k].claim # "none"
     THEN "dropped"
     ELSE IF \E k \in DOMAIN entries : entries[k].r = r /\ entries[k].claiming # "none"
          THEN "lost" ELSE was[r]]

(* discard_from: the entries behind the first n.                           *)
Behind(n) == SubSeq(ring, n + 1, Len(ring))

(* mark_close: the last response says so, unless its write has begun.      *)
Marked(entries) ==
  IF entries # <<>> /\ Len(entries) > writing.count /\ Last(entries).stage = "done"
  THEN [entries EXCEPT ![Len(entries)].says = Says(Last(entries).claim, TRUE),
                       ![Len(entries)].stray = FALSE]
  ELSE entries

-----------------------------------------------------------------------------
Init ==
  /\ asked \in Scripts
  /\ sent = <<1, 1>> /\ fin = FALSE /\ stop = FALSE
  /\ pc = "expire" /\ polled = 0 /\ want = FALSE
  /\ got = <<1, 1>> /\ parsed = <<1, 1>> /\ head_since = FALSE /\ ring = <<>> /\ writing = NoWrite
  /\ requests = 0 /\ close = FALSE /\ draining = FALSE /\ retry = FALSE
  /\ aborted = FALSE /\ taking = FALSE /\ taken = 0
  /\ holds = 0 /\ read_held = FALSE /\ bodies = 0
  /\ wire = <<>> /\ interim = <<>> /\ claims = [r \in Request |-> "none"]

(* The peer sends the next piece, closes its side; the server shuts down.  *)
(* The task sees any of it only when it waits, so it happens then.         *)
Socket == {m \in Marks : ~Precedes(m, got) /\ Precedes(m, sent)}
PeerSends ==
  /\ pc = "wait" /\ sent[1] <= Len(asked) /\ ~fin /\ Cardinality(Socket) < MaxSocket
  /\ sent' = After(sent)
  /\ UNCHANGED <<asked, fin, stop, pc, polled, want, inputVars, head_since, ringVars, writing,
                 requests, closeVars, retry, takeVars, holdVars, wireVars>>
PeerCloses ==
  /\ pc = "wait" /\ ~fin /\ fin' = TRUE
  /\ UNCHANGED <<asked, sent, stop, pc, polled, want, inputVars, head_since, ringVars,
                 writing, requests, closeVars, retry, takeVars, holdVars, wireVars>>
RequestStop ==
  /\ pc = "wait" /\ ~stop /\ stop' = TRUE
  /\ UNCHANGED <<asked, sent, fin, pc, polled, want, inputVars, head_since, ringVars,
                 writing, requests, closeVars, retry, takeVars, holdVars, wireVars>>

(* A running handler takes a read hold, or exports its request's body with *)
(* the body's charge; a hold drops whenever its owner lets go of it.       *)
TakeHold ==
  /\ pc = "wait" /\ holds < MaxHolds
  /\ \E i \in DOMAIN ring : ring[i].stage = "running"
  /\ holds' = holds + 1
  /\ UNCHANGED <<peerVars, pc, polled, want, inputVars, head_since, ringVars, writing, requests,
                 closeVars, retry, takeVars, read_held, wireVars>>
DropHold ==
  /\ pc = "wait" /\ Held
  /\ holds' = holds - 1
  /\ UNCHANGED <<peerVars, pc, polled, want, inputVars, head_since, ringVars, writing, requests,
                 closeVars, retry, takeVars, read_held, wireVars>>
Export(i) ==
  /\ pc = "wait" /\ ring[i].stage = "running" /\ ring[i].charge > 0
  /\ bodies' = bodies - ring[i].charge
  /\ ring' = [ring EXCEPT ![i].charge = 0]
  /\ UNCHANGED <<peerVars, pc, polled, want, inputVars, head_since, claims, writing, requests,
                 closeVars, retry, takeVars, holdVars, wireVars>>

(* upgrade, stream: a running handler claims its connection, in its record. *)
(* A second claim takes the place of the first.                            *)
Claim(i, kind) ==
  /\ pc = "wait" /\ ring[i].stage = "running" /\ ring[i].claiming # kind
  /\ IF kind = "upgrade" THEN ring[i].upgrade ELSE asked[ring[i].r].stream
  /\ ring' = [ring EXCEPT ![i].claiming = kind]
  /\ claims' = [claims EXCEPT ![ring[i].r] = "claimed"]
  /\ UNCHANGED <<peerVars, pc, polled, want, inputVars, head_since, bodies, writing, requests,
                 closeVars, retry, takeVars, holdVars, wireVars>>

(* A claim is kept; or void, since the handler failed or changed what it   *)
(* answers (problem, serialize); or the head is too large, and goes bare.  *)
KeptClaim(e, answer) == IF answer.fate = "kept" THEN e.claiming ELSE "none"
HeadClaim(e, answer) == IF answer.fate = "void" THEN "none" ELSE e.claiming

(* complete: the charge the handler did not export returns to the entry.   *)
(* A bare head says close as its claim would have.                         *)
AnsweredUncharged(e, answer, flag) ==
  [e EXCEPT !.stage = "done", !.claiming = "none", !.claim = KeptClaim(e, answer),
            !.close = answer.close, !.says = Says(HeadClaim(e, answer), flag),
            !.stray = answer.fate = "bare" /\ e.claiming = "stream" /\ ~flag, !.charge = 0]
Answered(e, answer, flag) ==
  [e EXCEPT !.stage = "done", !.claiming = "none", !.claim = KeptClaim(e, answer),
            !.close = answer.close, !.says = Says(HeadClaim(e, answer), flag),
            !.stray = answer.fate = "bare" /\ e.claiming = "stream" /\ ~flag,
            !.bytes = @ + e.charge, !.charge = 0]

(* poll_running and drain_completed: the handlers that completed in one    *)
(* poll are taken last entry first.  A response that claims the connection *)
(* or closes it drops the requests behind it.                              *)
Complete(i, answer) ==
  /\ pc = "wait" /\ ring[i].stage = "running"
  /\ polled = 0 \/ i < polled
  /\ answer.fate # "kept" => ring[i].claiming # "none"
  /\ LET claimed == KeptClaim(ring[i], answer) # "none"
         kept    == IF claimed \/ answer.close THEN i ELSE Len(ring)
     IN  /\ ring' = [SubSeq(ring, 1, kept) EXCEPT ![i] =
                       Answered(ring[i], answer, answer.close \/ (close /\ i = Len(ring)))]
         /\ bodies' = bodies - Charges(Behind(kept))
         /\ claims' = [DroppedClaims(Behind(kept), claims) EXCEPT
                         ![ring[i].r] = IF ring[i].claiming = "none" THEN @
                                        ELSE IF claimed THEN "kept" ELSE "void"]
         /\ taking' = (taking \/ claimed)
         /\ close' = (close \/ answer.close)
  /\ polled' = i
  /\ UNCHANGED <<peerVars, pc, want, inputVars, head_since, writing, requests, draining, retry,
                 aborted, taken, holdVars, wireVars>>

-----------------------------------------------------------------------------
(* What wait woke up for, applied; then the next tick begins.              *)
Woken == pc = "wait" /\ pc' = "expire" /\ polled' = 0

ReadData ==
  /\ Woken /\ want /\ ~Held
  /\ got' \in {m \in Marks : Precedes(got, m) /\ ~Precedes(sent, m)}
  /\ UNCHANGED <<peerVars, want, parsed, head_since, ringVars, writing, requests, closeVars,
                 retry, takeVars, holdVars, wireVars>>

(* eof: an incomplete request gets no response.                            *)
EofKept == IF BodyPending THEN Len(ring) - 1 ELSE Len(ring)
ReadEof ==
  /\ Woken /\ want /\ ~Held /\ fin /\ got = sent
  /\ parsed' = got /\ head_since' = FALSE /\ close' = TRUE
  /\ ring' = Marked(SubSeq(ring, 1, EofKept))
  /\ bodies' = bodies - Charges(Behind(EofKept))
  /\ claims' = DroppedClaims(Behind(EofKept), claims)
  /\ UNCHANGED <<peerVars, got, want, writing, requests, draining, aborted, retry, takeVars,
                 holdVars, wireVars>>

ReadNoBudget ==
  /\ Woken /\ want /\ ~Held /\ got # sent
  /\ retry' = TRUE
  /\ UNCHANGED <<peerVars, want, inputVars, head_since, ringVars, writing, requests, closeVars,
                 takeVars, holdVars, wireVars>>

SocketFails ==
  /\ Woken
  /\ (want /\ ~Held) \/ writing # NoWrite
  /\ aborted' = TRUE
  /\ UNCHANGED <<peerVars, want, inputVars, head_since, ringVars, writing, requests, close,
                 draining, retry, takeVars, holdVars, wireVars>>

(* wrote: the batch is written; its entries leave the ring, and behind a   *)
(* response that closes the connection so does everything else.            *)
BatchAtEnd == SelectSeq(ring, LAMBDA e : e.stage = "done")
Batch == SubSeq(ring, 1, writing.count)
Final(e) == [r |-> e.r, says |-> e.says, claim |-> e.claim, stray |-> e.stray]
WroteContinue ==
  /\ writing.prefix # 0
  /\ interim' = Append(interim, [r |-> writing.prefix, after |-> Len(wire)])
  /\ ring' = IF ring = <<>> THEN ring ELSE [ring EXCEPT ![1].cont = FALSE]
  /\ UNCHANGED <<wire, bodies, claims, taken, close>>
WroteBatch ==
  /\ writing.prefix = 0
  /\ LET closed == \E k \in DOMAIN Batch : Batch[k].close
         rest   == Behind(writing.count)
         gone   == IF closed THEN rest ELSE <<>>
     IN  /\ wire' = wire \o [k \in DOMAIN Batch |-> Final(Batch[k])]
         /\ ring' = IF closed THEN <<>> ELSE rest
         /\ bodies' = bodies - Charges(Batch) - Charges(gone)
         /\ claims' = DroppedClaims(gone, claims)
         /\ close' = (close \/ closed)
  /\ \/ \E k \in DOMAIN Batch :
          /\ Batch[k].claim # "none" /\ \A j \in DOMAIN Batch : Batch[j].claim # "none" => j <= k
          /\ taken' = Batch[k].r
     \/ (\A k \in DOMAIN Batch : Batch[k].claim = "none") /\ UNCHANGED taken
  /\ UNCHANGED interim
Wrote ==
  /\ Woken /\ writing # NoWrite /\ writing' = NoWrite
  /\ WroteContinue \/ WroteBatch
  /\ UNCHANGED <<peerVars, want, inputVars, head_since, requests, draining, retry, aborted,
                 taking, holdVars>>

(* A deadline passed, a handler completed or the last hold dropped: the    *)
(* tick that follows does the rest.                                        *)
Timer ==
  /\ Woken /\ HasDeadline
  /\ UNCHANGED <<peerVars, want, inputVars, head_since, ringVars, writing, requests, closeVars,
                 retry, takeVars, holdVars, wireVars>>
Progress ==
  /\ Woken
  /\ polled # 0 \/ (read_held /\ ~Held)
  /\ UNCHANGED <<peerVars, want, inputVars, head_since, ringVars, writing, requests, closeVars,
                 retry, takeVars, holdVars, wireVars>>
SeeShutdownUnmarked ==
  /\ Woken /\ stop /\ ~draining /\ draining' = TRUE
  /\ UNCHANGED <<peerVars, want, inputVars, head_since, ringVars, writing, requests, close, aborted,
                 retry, takeVars, holdVars, wireVars>>
SeeShutdown ==
  /\ Woken /\ stop /\ ~draining
  /\ draining' = TRUE /\ close' = TRUE
  /\ ring' = Marked(ring)
  /\ UNCHANGED <<peerVars, want, inputVars, head_since, bodies, claims, writing, requests, aborted,
                 retry, takeVars, holdVars, wireVars>>

-----------------------------------------------------------------------------
(* answer_now: an answer for a head that has no entry yet; then close.     *)
AnswerNow(r, complete) ==
  /\ ring' = Append(ring, [NewEntry(r, "done", complete, 0, FALSE) EXCEPT
                             !.close = TRUE, !.says = TRUE])
  /\ parsed' = got /\ close' = TRUE
  /\ UNCHANGED <<got, bodies, claims>>

(* fail_at: the request is answered by the driver, its handler canceled    *)
(* with the charge and the claim its record holds; later requests are      *)
(* dropped.                                                                *)
FailAt(i) ==
  /\ ring' = [SubSeq(ring, 1, i) EXCEPT ![i] =
                [ring[i] EXCEPT !.stage = "done", !.close = TRUE, !.says = TRUE,
                                !.stray = FALSE, !.cont = FALSE, !.charge = 0,
                                !.claiming = "none"]]
  /\ bodies' = bodies - ring[i].charge - Charges(Behind(i))
  /\ claims' = DroppedClaims(Behind(i - 1), claims)
  /\ parsed' = got /\ close' = TRUE /\ UNCHANGED got

(* expire, with resume_reading: the read's retry is due or not, and at     *)
(* most one other deadline fires in a tick.                                *)
Ticks == pc = "expire" /\ pc' = "input" /\ read_held' = Held /\ retry' \in {retry, FALSE}
ExpireNone ==
  /\ Ticks
  /\ UNCHANGED <<peerVars, polled, want, inputVars, head_since, ringVars, writing, requests,
                 closeVars, takeVars, holds, wireVars>>
ExpireSend ==
  /\ Ticks /\ writing # NoWrite /\ aborted' = TRUE
  /\ UNCHANGED <<peerVars, polled, want, inputVars, head_since, ringVars, writing, requests, close,
                 draining, takeVars, holds, wireVars>>
ExpireIdle ==
  /\ Ticks /\ IdleConn /\ ~close /\ close' = TRUE
  /\ UNCHANGED <<peerVars, polled, want, inputVars, head_since, ringVars, writing, requests,
                 draining, aborted, takeVars, holds, wireVars>>
ExpireHead ==
  /\ Ticks /\ head_since /\ ~Held
  /\ head_since' = FALSE
  /\ AnswerNow(requests + 1, FALSE)
  /\ UNCHANGED <<peerVars, polled, want, writing, requests, draining, aborted, takeVars,
                 holds, wireVars>>

(* request_total runs from each request's acceptance, so the first request *)
(* that is not answered has passed it first; body_read_idle is the tail's. *)
ExpireTotal ==
  /\ Ticks
  /\ \E i \in DOMAIN ring : /\ ring[i].stage # "done"
                            /\ \A j \in 1..(i - 1) : ring[j].stage = "done"
                            /\ FailAt(i)
  /\ UNCHANGED <<peerVars, polled, want, head_since, writing, requests, draining, aborted,
                 takeVars, holds, wireVars>>
ExpireBody ==
  /\ Ticks /\ BodyPending /\ ~Held /\ FailAt(Len(ring))
  /\ UNCHANGED <<peerVars, polled, want, head_since, writing, requests, draining, aborted,
                 takeVars, holds, wireVars>>

-----------------------------------------------------------------------------
(* process_input, one piece or one head at a time.                         *)
Feeding == pc = "input" /\ ~NoInput /\ BodyPending
Framing == asked[Last(ring).r].body
inputFrame == UNCHANGED <<peerVars, got, polled, want, writing, draining, aborted, retry,
                          takeVars, holdVars, wireVars>>
(* feed_body counted n octets and the body still needs left pieces.        *)
Fed(n, left) ==
  /\ ring' = [ring EXCEPT ![Len(ring)] =
                [ring[Len(ring)] EXCEPT !.bytes = @ + n, !.left = left, !.cont = FALSE,
                                        !.stage = IF left = 0 THEN "waiting" ELSE "body"]]
  /\ bodies' = bodies + n
  /\ UNCHANGED <<pc, head_since, requests, close, claims>>

FeedLength ==
  /\ Feeding /\ Framing = "length"
  /\ Fed(1, Last(ring).left - 1)
  /\ parsed' = After(parsed)
  /\ inputFrame
FeedChunk ==
  /\ Feeding /\ Framing = "chunked"
  /\ \/ Piece = "line" /\ MoreInput /\ Fed(1, 1) /\ parsed' = After(After(parsed))
     \/ Piece = "last" /\ Fed(0, 0) /\ parsed' = After(parsed)
  /\ inputFrame
(* decode needs more: the framing is incomplete and nothing was consumed.  *)
FeedStalled ==
  /\ Feeding /\ Piece = "line" /\ ~MoreInput
  /\ ring' = [ring EXCEPT ![Len(ring)].cont = FALSE]
  /\ pc' = "start"
  /\ UNCHANGED <<parsed, head_since, requests, close, bodies, claims>>
  /\ inputFrame
(* The chunk is malformed, or its data would pass the body limit.          *)
FeedReject ==
  /\ Feeding
  /\ Framing = "malformed" \/ (Framing = "over" /\ MoreInput)
  /\ FailAt(Len(ring))
  /\ pc' = "start"
  /\ UNCHANGED <<head_since, requests>>
  /\ inputFrame

(* Nothing to parse, or nothing may be parsed now.                         *)
InputDone ==
  /\ pc = "input" /\ pc' = "start"
  /\ \/ NoInput /\ UNCHANGED parsed
     \/ /\ ~NoInput /\ ~BodyPending
        /\ \/ (taking \/ UpgradePending) /\ UNCHANGED parsed
           \/ ~(taking \/ UpgradePending) /\ close /\ parsed' = got
           \/ /\ ~(taking \/ UpgradePending) /\ ~close
              /\ Len(ring) >= MaxPipelined \/ Held
              /\ UNCHANGED parsed
  /\ UNCHANGED <<ringVars, head_since, requests, close>>
  /\ inputFrame

Parsing == /\ pc = "input" /\ ~NoInput /\ ~BodyPending
           /\ ~taking /\ ~UpgradePending /\ ~close
           /\ Len(ring) < MaxPipelined /\ ~Held

ParsePartial ==
  /\ Parsing /\ ~MoreInput /\ asked[parsed[1]].body # "reject"
  /\ head_since' = TRUE
  /\ pc' = "start"
  /\ UNCHANGED <<parsed, ringVars, requests, close>>
  /\ inputFrame

(* A head the codec rejects is answered at once.                           *)
ParseReject ==
  /\ Parsing /\ asked[parsed[1]].body = "reject"
  /\ head_since' = FALSE
  /\ AnswerNow(parsed[1], FALSE)
  /\ pc' = "start"
  /\ UNCHANGED requests
  /\ inputFrame

(* accept: a complete head becomes an entry, or is answered at once.       *)
Refused(kind) == kind.expect = "other" \/ kind.body = "huge"
Accept ==
  /\ Parsing /\ MoreInput /\ asked[parsed[1]].body # "reject"
  /\ requests' = requests + 1 /\ head_since' = FALSE
  /\ LET r    == parsed[1]
         kind == asked[r]
         rest == After(After(parsed))
         left == Len(BodyPieces(kind.body))
     IN  \/ Refused(kind) /\ AnswerNow(r, TRUE)
         \/ /\ ~Refused(kind)
            /\ parsed' = rest
            /\ close' = (close \/ ~kind.keep \/ requests + 1 >= MaxServed)
            /\ ring' = Append(ring, NewEntry(r, IF left = 0 THEN "waiting" ELSE "body", TRUE,
                                             left, left > 0 /\ kind.expect = "continue" /\ rest = got))
            /\ UNCHANGED <<bodies, claims>>
  /\ UNCHANGED pc
  /\ inputFrame

-----------------------------------------------------------------------------
(* start_runnable: the head of the ring runs; a later request only when it *)
(* and all before it are safe, and those are started.  The charge moves    *)
(* into the handler's record.                                              *)
Runnable(i) ==
  /\ ring[i].stage = "waiting"
  /\ i = 1 \/ \A j \in 1..i : ring[j].safe /\ ring[j].stage # "body"
StartRunnable ==
  /\ pc = "start" /\ pc' = "plan"
  /\ ring' = [i \in DOMAIN ring |->
                IF Runnable(i)
                THEN [ring[i] EXCEPT !.stage = "running", !.charge = @ + ring[i].bytes, !.bytes = 0]
                ELSE ring[i]]
  /\ UNCHANGED <<peerVars, polled, want, inputVars, head_since, bodies, claims, writing, requests,
                 closeVars, retry, takeVars, holdVars, wireVars>>

(* plan_write, and the test of run's loop before it waits.                 *)
DoneUpTo(n) == /\ \A i \in 1..n : ring[i].stage = "done"
               /\ n < Len(ring) => ring[n + 1].stage # "done"
OwesContinue == ring # <<>> /\ ring[1].stage = "body" /\ ring[1].cont
PlanWrite ==
  /\ pc = "plan"
  /\ \/ (writing # NoWrite \/ aborted) /\ UNCHANGED writing
     \/ /\ writing = NoWrite /\ ~aborted
        /\ \E n \in 0..Len(ring) :
             /\ DoneUpTo(n)
             /\ writing' = [count |-> n, prefix |-> IF n = 0 /\ OwesContinue THEN ring[1].r ELSE 0]
  /\ pc' = IF taken # 0 \/ aborted \/ (close /\ ring = <<>> /\ writing' = NoWrite)
           THEN "end" ELSE "wait"
  /\ want' = WantRead
  /\ UNCHANGED <<peerVars, polled, inputVars, head_since, ringVars, requests, closeVars, retry,
                 takeVars, holdVars, wireVars>>

(* The end of run: what is left in the ring is dropped; the claimed        *)
(* request is handed over with the input behind it, unless the socket      *)
(* failed.                                                                 *)
End ==
  /\ pc = "end" /\ pc' = "closed"
  /\ ring' = <<>>
  /\ bodies' = bodies - Charges(ring)
  /\ claims' = [r \in Request |-> IF r # taken THEN DroppedClaims(ring, claims)[r]
                                 ELSE IF aborted THEN "dropped" ELSE "handed"]
  /\ UNCHANGED <<peerVars, polled, want, inputVars, head_since, writing, requests, closeVars,
                 retry, takeVars, holdVars, wireVars>>

-----------------------------------------------------------------------------
Peer    == PeerSends \/ PeerCloses \/ RequestStop
Handler == \/ TakeHold \/ DropHold
           \/ \E i \in DOMAIN ring : \/ Export(i)
                                    \/ \E kind \in {"upgrade", "stream"} : Claim(i, kind)
                                    \/ \E a \in Answers : Complete(i, a)
Wake    == \/ ReadData \/ ReadEof \/ ReadNoBudget \/ SocketFails \/ Wrote
           \/ Timer \/ Progress \/ SeeShutdown
Expire  == \/ ExpireNone \/ ExpireSend \/ ExpireIdle \/ ExpireHead
           \/ ExpireTotal \/ ExpireBody
Process == \/ FeedLength \/ FeedChunk \/ FeedStalled \/ FeedReject
           \/ InputDone \/ ParsePartial \/ ParseReject \/ Accept
Next == Peer \/ Handler \/ Wake \/ Expire \/ Process \/ StartRunnable \/ PlanWrite \/ End

Spec == Init /\ [][Next]_vars

(* The task runs when it is woken.  A deadline that is set comes, and a    *)
(* tick after it finds it passed: ticks are many, time goes on, so what is *)
(* expired again and again is found once (strong fairness).  The shutdown  *)
(* is polled last, so it is seen once reads stop completing at once.       *)
FairSpec ==
  /\ Spec
  /\ WF_vars(Expire \/ Process \/ StartRunnable \/ PlanWrite \/ End)
  /\ WF_vars(Timer) /\ WF_vars(Progress) /\ SF_vars(SeeShutdown)
  /\ SF_vars(ExpireTotal) /\ SF_vars(Wrote \/ SocketFails \/ ExpireSend)
=============================================================================
