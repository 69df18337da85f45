-------------------------- MODULE StreamWriteProps --------------------------
(***************************************************************************)
(* What a dropped write must not do to a stream.                           *)
(***************************************************************************)
EXTENDS StreamWrite

(* The peer reads every record once, whole and in the order they were      *)
(* made, and the octets of a bare stream once and in order, however often  *)
(* a write was dropped with its send in flight and begun again with more   *)
(* or fewer octets (Outbox: "no record is lost, repeated or reordered";    *)
(* TcpStream::writev takes the count of the old send).  An octet is        *)
(* encrypted once, although the driver hands it over again after a drop,   *)
(* and reported written only once it is out (resume, writev); and once the *)
(* write side is closed, the end of the session is out and everything that *)
(* was queued before it (close_write).  Only a record the reading side     *)
(* makes after the end is left: linger still reads, and nothing flushes.   *)
Whole == IF tls THEN made ELSE Octets(1, MaxPlain)

(* The octets of the driver's stream among these units, and that each is   *)
(* there once and behind the earlier ones.                                 *)
Plain(units) == {units[k] : k \in {j \in DOMAIN units : units[j] > 0}}
Ascending(units) ==
  \A i, j \in DOMAIN units : i < j /\ units[i] > 0 /\ units[j] > 0 => units[i] < units[j]

WireExact ==
  /\ Len(wire) <= Len(Whole) /\ wire = SubSeq(Whole, 1, Len(wire))
  /\ 1 .. given \subseteq Plain(wire)
  /\ tls => Plain(made) = 1 .. given + reported /\ Ascending(made)
  /\ shut => send = NoSend /\ \A k \in Len(wire) + 1 .. Len(made) : made[k] = Ticket
=============================================================================
