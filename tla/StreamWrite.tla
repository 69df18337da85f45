---------------------------- MODULE StreamWrite -----------------------------
(***************************************************************************)
(* Writing to a connection through futures that may be dropped: a stream   *)
(* of the completion backend (crates/zero-io src/compio_rt/tcp.rs), bare   *)
(* or under a TLS session (crates/zero-tls src/outbox.rs, buffered.rs,     *)
(* unbuffered.rs), as the seam promises it (crates/zero-io src/seam.rs).   *)
(*                                                                         *)
(* The connection driver hands a write the next octets of its stream,      *)
(* which are numbered from 1; it may drop the future at every await and    *)
(* then writes from the same octet again, more or fewer of them.  Under    *)
(* TLS a write is encrypted into a record, a header and its octets, and    *)
(* records also come from the reading side.  The kernel takes any part of  *)
(* a send, at its own time, whether or not somebody still waits for it.    *)
(***************************************************************************)
EXTENDS Integers, Sequences

CONSTANTS
  MaxPlain,    (* the octets of the driver's stream (a bound)               *)
  MaxWrite,    (* the most octets one write is given (a bound)              *)
  WRITE_CHUNK, (* the most octets one write encrypts                        *)
  MaxRecords   (* the records the reading side may queue (a bound)          *)

ASSUME StreamAssumption ==
  MaxPlain \in Nat /\ MaxWrite \in Nat /\ WRITE_CHUNK \in Nat \ {0} /\ MaxRecords \in Nat

Header == 0
Ticket == -1
Notify == -2
NoSend == [bytes |-> <<>>, result |-> "none", count |-> 0]

VARIABLES
  tls,       (* whether a TLS session lies between                          *)
  given,     (* the octets the writes reported to the driver so far         *)
  call,      (* the call in progress: its step and how much it was given    *)
  reported,  (* the session's reported: octets encrypted, not yet reported  *)
  made,      (* every record made, in order                                 *)
  records,   (* how many the reading side made                              *)
  outbox,    (* Outbox.bytes                                                *)
  taken,     (* Unwritten.bytes                                             *)
  io,        (* where writev of the TCP stream waits: none, old or new send *)
  send,      (* the send in flight                                          *)
  carried,   (* TcpStream.carried                                           *)
  wire,      (* what the kernel took                                        *)
  shut       (* the write side was closed                                   *)

tlsVars == <<reported, made, records, outbox>>
tcpVars == <<send, carried, wire, shut>>
vars == <<tls, given, call, reported, made, records, outbox, taken, io, send, carried, wire, shut>>

Idle == [at |-> "idle", total |-> 0]

Init ==
  /\ tls \in BOOLEAN
  /\ given = 0 /\ call = Idle /\ reported = 0 /\ made = <<>> /\ records = 0
  /\ outbox = <<>> /\ taken = <<>> /\ io = "none" /\ send = NoSend /\ carried = 0
  /\ wire = <<>> /\ shut = FALSE

Octets(from, count) == [k \in 1 .. count |-> from + k - 1]
Least(a, b) == IF a < b THEN a ELSE b

-----------------------------------------------------------------------------
(* TcpStream::writev with these bytes.                                     *)

(* The call returns its count: to the flush of a session, whose Unwritten  *)
(* puts the rest back, or to the driver.                                   *)
Returns(count) ==
  IF tls
  THEN /\ outbox' = SubSeq(taken, count + 1, Len(taken)) \o outbox
       /\ taken' = <<>> /\ io' = "none"
       /\ UNCHANGED <<given, call>>
  ELSE /\ given' = given + count /\ call' = Idle
       /\ taken' = <<>> /\ io' = "none"
       /\ UNCHANGED outbox

Submit(bytes) ==
  /\ send' = [bytes |-> bytes, result |-> "flying", count |-> 0]
  /\ io' = "new"

(* report: what exceeds the write is owed to the next one.                 *)
report(count, total) == <<Least(count, total), count - Least(count, total)>>

(* Up to its first await: octets owed from a finished send are reported at *)
(* once, a send left in flight is waited for, or the bytes are sent.       *)
Enter ==
  /\ io = "enter"
  /\ \/ /\ carried > 0
        /\ LET r == report(carried, Len(taken))
           IN  Returns(r[1]) /\ carried' = r[2]
        /\ UNCHANGED <<send, wire, shut>>
     \/ /\ carried = 0 /\ send # NoSend
        /\ io' = "old"
        /\ UNCHANGED <<given, call, outbox, taken, tcpVars>>
     \/ /\ carried = 0 /\ send = NoSend
        /\ Submit(taken)
        /\ UNCHANGED <<given, call, outbox, taken, carried, wire, shut>>
  /\ UNCHANGED <<reported, made, records>>

(* sent: the result of the send is taken by whoever waits.                 *)
Sent ==
  /\ io \in {"old", "new"} /\ send.result = "done"
  /\ LET r == report(send.count, Len(taken))
     IN  Returns(r[1]) /\ carried' = r[2]
  /\ send' = NoSend
  /\ UNCHANGED <<reported, made, records, wire, shut>>

(* A send that would block is sent again, whoever began it.                *)
WouldBlock ==
  /\ io \in {"old", "new"} /\ send.result = "blocked"
  /\ Submit(taken)
  /\ UNCHANGED <<given, call, tlsVars, taken, carried, wire, shut>>

(* The kernel.                                                             *)
KernelTakes(count) ==
  /\ send.result = "flying"
  /\ wire' = wire \o SubSeq(send.bytes, 1, count)
  /\ send' = [send EXCEPT !.result = "done", !.count = count]
  /\ UNCHANGED <<given, call, tlsVars, taken, io, carried, shut>>

KernelBlocks ==
  /\ send.result = "flying"
  /\ send' = [send EXCEPT !.result = "blocked"]
  /\ UNCHANGED <<given, call, tlsVars, taken, io, carried, wire, shut>>

-----------------------------------------------------------------------------
(* The driver: a write of the next octets, or the end of the stream.       *)

Closing == \E k \in DOMAIN made : made[k] = Notify

Write(total) ==
  /\ call = Idle /\ ~Closing /\ given + total <= MaxPlain
  /\ IF tls
     THEN /\ call' = [at |-> IF reported > 0 THEN "resume" ELSE "first", total |-> total]
          /\ UNCHANGED <<taken, io>>
     ELSE /\ call' = [at |-> "plain", total |-> total]
          /\ taken' = Octets(given + 1, total) /\ io' = "enter"
  /\ UNCHANGED <<given, tlsVars, tcpVars>>

(* close_write of a session: close_notify is queued, once, then all is     *)
(* flushed.                                                                *)
CloseWrite ==
  /\ tls /\ call = Idle /\ ~shut
  /\ LET notify == IF Closing THEN <<>> ELSE <<Notify>>
     IN  made' = made \o notify /\ outbox' = outbox \o notify
  /\ call' = [at |-> "close", total |-> 0]
  /\ UNCHANGED <<given, reported, records, taken, io, tcpVars>>

(* The future is dropped where it awaits: what Unwritten took goes back to *)
(* the front of the queue.                                                 *)
DropsAtBack ==
  /\ io \in {"old", "new"}
  /\ outbox' = IF tls THEN outbox \o taken ELSE outbox
  /\ taken' = <<>> /\ io' = "none" /\ call' = Idle
  /\ UNCHANGED <<given, reported, made, records, tcpVars>>
Drop ==
  /\ io \in {"old", "new"}
  /\ outbox' = IF tls THEN taken \o outbox ELSE outbox
  /\ taken' = <<>> /\ io' = "none" /\ call' = Idle
  /\ UNCHANGED <<given, reported, made, records, tcpVars>>

-----------------------------------------------------------------------------
(* The session.                                                            *)

(* collect on the reading side: a record is queued behind the others, also *)
(* while a write waits and after close_write (linger reads on).            *)
Collect ==
  /\ tls /\ records < MaxRecords
  /\ records' = records + 1
  /\ made' = made \o <<Ticket>> /\ outbox' = outbox \o <<Ticket>>
  /\ UNCHANGED <<given, call, reported, taken, io, tcpVars>>

(* Outbox::flush takes the whole queue for each write to the transport.    *)
FlushTakes ==
  /\ call.at \in {"resume", "first", "last", "close"} /\ io = "none" /\ outbox # <<>>
  /\ taken' = outbox /\ outbox' = <<>> /\ io' = "enter"
  /\ UNCHANGED <<given, call, reported, made, records, tcpVars>>

Flushed(at) == call.at = at /\ io = "none" /\ outbox = <<>>

(* resume: what a dropped write encrypted is reported, no more than this   *)
(* write was given.                                                        *)
Resume ==
  /\ Flushed("resume")
  /\ LET count == Least(reported, call.total)
     IN  reported' = reported - count /\ given' = given + count
  /\ call' = Idle
  /\ UNCHANGED <<made, records, outbox, taken, io, tcpVars>>

(* writev: the next octets become a record, and are owed from here on.     *)
Encrypt ==
  /\ Flushed("first")
  /\ LET count  == Least(call.total, WRITE_CHUNK)
         record == <<Header>> \o Octets(given + 1, count)
     IN  /\ made' = made \o record /\ outbox' = outbox \o record
         /\ reported' = count
  /\ call' = [call EXCEPT !.at = "last"]
  /\ UNCHANGED <<given, records, taken, io, tcpVars>>

Written ==
  /\ Flushed("last")
  /\ given' = given + reported /\ reported' = 0
  /\ call' = Idle
  /\ UNCHANGED <<made, records, outbox, taken, io, tcpVars>>

Closed ==
  /\ Flushed("close")
  /\ shut' = TRUE /\ call' = Idle
  /\ UNCHANGED <<given, tlsVars, taken, io, send, carried, wire>>

Step ==
  \/ Enter \/ Sent \/ WouldBlock \/ KernelBlocks \/ CloseWrite \/ Drop \/ Collect
  \/ FlushTakes \/ Resume \/ Encrypt \/ Written \/ Closed
  \/ \E total \in 1 .. MaxWrite : Write(total)
  \/ \E count \in 1 .. Len(send.bytes) : KernelTakes(count)

Next == Step /\ UNCHANGED tls

Spec == Init /\ [][Next]_vars
=============================================================================
