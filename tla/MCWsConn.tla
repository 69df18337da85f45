------------------------------ MODULE MCWsConn ------------------------------
(* A connection for TLC: frames, an end, and a room to join.               *)
EXTENDS WsConnProps

Command(kind, octets) == [kind |-> kind, octets |-> octets]
Chatter == {Command("frame", 3), Command("end", 0), Command("join", 1)}
=============================================================================
