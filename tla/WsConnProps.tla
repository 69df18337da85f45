---------------------------- MODULE WsConnProps ----------------------------
(***************************************************************************)
(* What the connection task and its outbox promise, whatever other threads *)
(* do between two of the task's steps.                                     *)
(***************************************************************************)
EXTENDS WsConn

-----------------------------------------------------------------------------
(* The octets of the pushed entries, or of the broadcasts.                 *)
Octets(entries, sent) ==
  LET sum[k \in 0 .. Len(entries)] ==
        IF k = 0 THEN 0
        ELSE IF IsSent(entries[k]) = sent THEN sum[k - 1] + entries[k].octets ELSE sum[k - 1]
  IN  sum[Len(entries)]

(* Every octet some outbox counts.                                         *)
Counted == UNION {{c} \X (1 .. queue[c].bytes) : c \in Conn}

(* Outbox::push, Outbox::release, Outbox::close: every pushed octet is     *)
(* counted once, from the push until the connection wrote or dropped it,   *)
(* on the outbox and on the worker's total, which no push takes past its   *)
(* limit; the broadcast octets counted are the ones that wait.  An outbox  *)
(* that passed its mark and was not yet reported drained still holds half  *)
(* the mark, so the release that takes it below reports it.                *)
OctetsCounted ==
  /\ total = Cardinality(Counted)
  /\ total <= TotalLimit
  /\ \A c \in Conn :
       /\ queue[c].bytes <= HighWater * LimitFactor
       /\ pc[c] # "done" => queue[c].bytes = Octets(queue[c].entries, TRUE) + unreleased[c]
       /\ queue[c].broadcast_bytes = Octets(queue[c].entries, FALSE)
       /\ queue[c].broadcast_bytes <= InboxLimit
       /\ queue[c].passed => queue[c].bytes * 2 >= HighWater /\ pc[c] # "done"

-----------------------------------------------------------------------------
IsClose(f) == f.kind \in {"close", "goaway", "tryagain"}
IsContent(f) == f.kind \in {"frame", "broadcast"}
Sending(c) == wire[c] \o output[c]

(* RFC 6455 5.5.1 as Session::ensure_open keeps it: whatever ends the      *)
(* session, one Close at most is sent and no data frame after it.          *)
OneClose ==
  \A c \in Conn : \A i, j \in DOMAIN Sending(c) :
    i < j /\ IsClose(Sending(c)[i]) => ~IsClose(Sending(c)[j]) /\ ~IsContent(Sending(c)[j])

(* What was sent or waits, in order; the places in the connection's log of *)
(* the frames of the given kinds that were accepted, sent, or that wait.   *)
Line(c) == Sending(c) \o queue[c].entries
Places(s, kinds) == {s[k].n : k \in {j \in DOMAIN s : s[j].kind \in kinds}}
Accepted(c, kinds) == {i \in DOMAIN log[c] : log[c][i] \in kinds}
SentTryAgain(c) == \E i \in DOMAIN Sending(c) : Sending(c)[i].kind = "tryagain"

(* The peer ended the session or the connection was lost.                  *)
PeerEnded(c) == session[c] \in {"Closed", "Failed"} \/ why[c] = "dropped"

(* No frame of these kinds is sent before an earlier one that was          *)
(* accepted, and while the peer takes part every one of them is on the     *)
(* wire or on its way.                                                     *)
Kept(c, kinds) ==
  /\ \A n \in Places(Sending(c), kinds) :
       n \in Accepted(c, kinds)
         /\ \A m \in Accepted(c, kinds) : m < n => m \in Places(Sending(c), kinds)
  /\ ~PeerEnded(c) => Accepted(c, kinds) = Places(Line(c), kinds)

(* WebSocket::pour, WebSocket::seal: a Close, an End, a shutdown or a      *)
(* dropped future loses no accepted frame.  A connection that fell behind  *)
(* loses its broadcasts, and what was pushed only if it closes with 1013.  *)
(* Frames go out in the order in which they were accepted, each once.      *)
KeptInOrder ==
  \A c \in Conn :
    /\ ~behind[c] => Kept(c, {"frame", "broadcast"})
    /\ ~SentTryAgain(c) => Kept(c, {"frame"})
    /\ \A i, j \in DOMAIN Line(c) :
         i < j /\ IsContent(Line(c)[i]) /\ IsContent(Line(c)[j]) => Line(c)[i].n < Line(c)[j].n

(* outbox.rs:8: "Terminate and End end the connection once what was pushed *)
(* before them is written".                                                *)
EndAfterPushed ==
  \A c \in Conn :
    why[c] = "ended" =>
      \A i \in DOMAIN log[c] :
        log[c][i] = "frame" => \E k \in DOMAIN wire[c] : wire[c][k] = Frame("frame", i)

-----------------------------------------------------------------------------
(* What waits in an outbox is taken by the task, or dropped as it ends.    *)
EntriesTaken == \A c \in Conn : Ready(queue[c]) ~> ~Ready(queue[c])

(* A sender told to wait past the high-water mark is told to go on, by     *)
(* Drained or by the outbox closing (WebSocket::release).                  *)
DrainReported ==
  \A c \in Conn : queue[c].passed ~> (pc[c] \in {"report", "finish", "done"})

(* After the shutdown signal every connection ends, with its octets given  *)
(* back (recv_event, CLOSE_TIMEOUT), paused or not.                        *)
ShutdownEnds == shutdown ~> (total = 0 /\ \A c \in Conn : pc[c] = "done")
=============================================================================
