---------------------------- MODULE HttpConnInv ----------------------------
(***************************************************************************)
(* The inductive invariant of the HTTP/1.1 driver, in parts: what is read  *)
(* and parsed, the stages of the ring's entries, the numbers of requests   *)
(* in the ring and on the wire, the 100s, and the claims.                  *)
(***************************************************************************)
EXTENDS HttpConnProps

Stages  == {"body", "waiting", "running", "done"}
ClaimOf == {"none", "upgrade", "stream"}
ClaimStates == {"none", "claimed", "kept", "void", "lost", "dropped", "handed"}
Entries == [r : Request, stage : Stages, safe : BOOLEAN, upgrade : BOOLEAN, left : Nat,
            cont : BOOLEAN, bytes : Nat, charge : Nat, claiming : ClaimOf, claim : ClaimOf,
            close : BOOLEAN, says : BOOLEAN, stray : BOOLEAN]
Responses == [r : Request, says : BOOLEAN, claim : ClaimOf, stray : BOOLEAN]

HttpTyped ==
  /\ asked \in Scripts /\ sent \in Marks /\ got \in Marks /\ parsed \in Marks
  /\ pc \in {"expire", "input", "start", "plan", "wait", "end", "closed"}
  /\ ring \in Seq(Entries) /\ writing \in [count : Nat, prefix : {0} \cup Request]
  /\ requests \in Nat /\ taken \in {0} \cup Request
  /\ want \in BOOLEAN /\ head_since \in BOOLEAN /\ close \in BOOLEAN
  /\ aborted \in BOOLEAN /\ taking \in BOOLEAN
  /\ wire \in Seq(Responses) /\ interim \in Seq([r : Request, after : Nat])
  /\ claims \in [Request -> ClaimStates]

(* Another head may be parsed.                                             *)
Open == pc # "closed" /\ ~close /\ ~taking

(* The stream is parsed behind what is read, and read behind what is sent. *)
MarkInv == ~Precedes(got, parsed) /\ ~Precedes(sent, got)

(* A body is parsed piece by piece, the next head right behind it.         *)
BodyInv ==
  BodyPending =>
    /\ Last(ring).r = requests /\ requests \in DOMAIN asked
    /\ Last(ring).left \in 1..Len(BodyPieces(Framing))
    /\ parsed = <<requests, Len(Pieces(requests)) + 1 - Last(ring).left>>
HeadInv ==
  /\ Open /\ ~BodyPending => parsed = <<requests + 1, 1>>
  /\ head_since => requests < MaxRequests /\ Len(ring) < MaxPipelined /\ ~BodyPending

(* Only the last entry's body arrives; an entry has a response when it is  *)
(* done; two handlers run only behind safe requests.                       *)
StageInv ==
  /\ Len(ring) <= MaxPipelined
  /\ \A i \in DOMAIN ring :
       /\ ring[i].stage = "body" => i = Len(ring)
       /\ ring[i].stage # "done" => ring[i].claim = "none" /\ ~ring[i].says /\ ~ring[i].close
       /\ ring[i].close => Ends(ring[i]) \/ ring[i].upgrade
       /\ ring[i].stage = "running" /\ i > 1 => \A j \in 1..i : ring[j].safe

(* Nothing follows an upgrade in the ring, and nothing behind it is read.  *)
UpgradeInv ==
  /\ \A i \in DOMAIN ring : ring[i].upgrade =>
       /\ i = Len(ring) /\ ~head_since
       /\ ring[i].stage # "body" /\ (~ring[i].close \/ ring[i].claim # "none")
            => parsed = <<ring[i].r + 1, 1>>
  /\ pc = "wait" /\ want => ~UpgradePending

(* What is being written is done and stays in the ring.                    *)
WritingInv ==
  pc # "closed" => /\ writing.count <= Len(ring)
                   /\ \A i \in 1..writing.count : ring[i].stage = "done"

(* Requests are numbered in their order, through ring and wire.            *)
NumberInv ==
  /\ \A i, j \in DOMAIN ring : i < j => ring[i].r < ring[j].r
  /\ \A k \in DOMAIN wire, i \in DOMAIN ring : wire[k].r < ring[i].r
  /\ \A i \in DOMAIN ring : ring[i].r <= requests \/ (close /\ ~head_since)
  /\ \A k \in DOMAIN wire : wire[k].r <= requests \/ (close /\ ~head_since)

(* Behind what ends the connection there is at most the driver's answer to *)
(* a head that timed out.                                                  *)
EndInv ==
  /\ \A i \in DOMAIN ring : Ends(ring[i]) =>
       /\ close \/ taking
       /\ i < Len(ring) => /\ i = Len(ring) - 1 /\ ~head_since
                           /\ ring[i + 1].stage = "done" /\ ring[i + 1].says
                           /\ ring[i + 1].claim = "none"
  /\ \A k \in DOMAIN wire : Ends(wire[k]) =>
       /\ close \/ taking
       /\ k >= Len(wire) - 1
       /\ k = Len(wire) => /\ Len(ring) <= 1
                           /\ ring # <<>> => /\ ~head_since /\ ring[1].says
                                             /\ ring[1].claim = "none" /\ ring[1].stage = "done"
       /\ k # Len(wire) => ring = <<>> /\ ~head_since

(* Until something ends the connection no request is skipped.              *)
WireOpen == \A k \in DOMAIN wire : ~Ends(wire[k])
RingOpen == \A i \in DOMAIN ring : ~Ends(ring[i])
CountInv ==
  /\ WireOpen => \A i \in DOMAIN ring :
       (\A j \in 1..(i - 1) : ~Ends(ring[j])) => ring[i].r = Len(wire) + i
  /\ WireOpen /\ RingOpen /\ (Open \/ (head_since /\ pc # "closed")) =>
       requests = Len(wire) + Len(ring)

(* A 100 that is owed or being written was not written before.            *)
OwedInv ==
  \A i \in DOMAIN ring : ring[i].cont =>
    /\ ring[i].stage = "body" /\ asked[ring[i].r].expect = "continue"
    /\ \A k \in DOMAIN interim : interim[k].r # ring[i].r
PrefixInv ==
  writing.prefix # 0 =>
    /\ writing.count = 0 /\ writing.prefix <= requests
    /\ asked[writing.prefix].expect = "continue"
    /\ \A k \in DOMAIN interim : interim[k].r # writing.prefix
    /\ \A k \in DOMAIN wire : wire[k].r # writing.prefix
    /\ \A i \in DOMAIN ring : ring[i].r >= writing.prefix
InterimInv == \A k \in DOMAIN interim : interim[k].r <= requests /\ interim[k].after <= Len(wire)

(* The request that claimed the connection is taken out of the ring.       *)
TakingInv ==
  \A i \in DOMAIN ring :
    /\ ring[i].claim # "none" => taking
    /\ (ring[i].claim = "upgrade" \/ ring[i].claiming = "upgrade") => ring[i].upgrade
TakenInv ==
  /\ taken # 0 => /\ taking /\ pc # "wait"
                  /\ \E k \in DOMAIN wire : wire[k].r = taken /\ wire[k].claim # "none"
  /\ \A k \in DOMAIN wire : (wire[k].r = taken /\ wire[k].claim = "upgrade") =>
       ring = <<>> /\ ~head_since /\ parsed = <<taken + 1, 1>>

StreamInv   == MarkInv /\ BodyInv /\ HeadInv
RingInv     == StageInv /\ UpgradeInv /\ WritingInv
OrderInv    == NumberInv /\ EndInv /\ CountInv /\ OneEach
ContinueInv == OwedInv /\ PrefixInv /\ InterimInv /\ ContinueFirst
SettleInv   == TakingInv /\ TakenInv
HttpInv ==
  /\ HttpTyped /\ StreamInv /\ RingInv /\ OrderInv /\ ContinueInv /\ SettleInv
  /\ bodies = Charges(ring)

(* A task that has ended has dropped its ring.                             *)
ClosedInv == pc = "closed" => ring = <<>>

(* A claim is in its handler's record, then with its entry until its head  *)
(* is written, then in taken; one that is dropped leaves no response.      *)
PlaceInv ==
  \A r \in Request :
    /\ claims[r] = "claimed" => \E i \in DOMAIN ring : ring[i].r = r /\ ring[i].claiming # "none"
    /\ claims[r] = "kept" =>
         \/ \E i \in DOMAIN ring : ring[i].r = r /\ ring[i].claim # "none"
         \/ taken = r /\ pc # "closed"
    /\ claims[r] = "handed" => pc = "closed" /\ taken = r
    /\ claims[r] = "dropped" => /\ r <= requests
                                /\ \A i \in DOMAIN ring : ring[i].r # r
                                /\ \A k \in DOMAIN wire : wire[k].r # r
RecordInv ==
  \A i \in DOMAIN ring :
    /\ ring[i].stage # "done" => ring[i].r <= requests
    /\ ring[i].claiming # "none" => ring[i].stage = "running"
    /\ ring[i].claim # "none" => ring[i].r <= requests /\ claims[ring[i].r] = "kept"
HandInv ==
  /\ pc = "wait" => ~aborted
  /\ taken # 0 => /\ ~aborted
                  /\ pc \notin {"end", "closed"} => writing = NoWrite
                  /\ claims[taken] = IF pc = "closed" THEN "handed" ELSE "kept"
  /\ \A k \in DOMAIN wire : wire[k].claim # "none" => taken = wire[k].r
ClaimInv == PlaceInv /\ RecordInv /\ HandInv
=============================================================================
