------------------------- MODULE StreamWriteProofs --------------------------
(***************************************************************************)
(* WireExact for every amount written, every size of a write and of a      *)
(* record and every number of records of the reading side, under TLS and   *)
(* bare.                                                                   *)
(*                                                                         *)
(* Everything a stream holds is a part of one whole: the records made, or  *)
(* the driver's octets.  The invariant says at which place of the whole    *)
(* each part begins.  The writer believes the first Base units to be out;  *)
(* what it took from its queue, and a send left in flight by a write that  *)
(* was dropped, both begin right there, and the wire is ahead of Base by   *)
(* exactly what is Owed to the next write.                                 *)
(***************************************************************************)
EXTENDS StreamWriteProps, TLAPS, SequenceTheorems

(* The kind of the stream, and what the constants are.                     *)
Sized ==
  /\ tls \in BOOLEAN /\ MaxPlain \in Nat /\ MaxWrite \in Nat /\ WRITE_CHUNK \in Nat \ {0}

(* What the kernel took and no write was told of, and what all were.       *)
Owed == carried + IF send.result = "done" THEN send.count ELSE 0
Base == Len(wire) - Owed

(* Units that are the part of the whole behind its first `from`.           *)
PartOf(units, whole, from) ==
  /\ from + Len(units) <= Len(whole)
  /\ \A k \in 1 .. Len(units) : units[k] = whole[from + k]

Sends == [bytes : Seq(Int), result : {"none", "flying", "blocked", "done"}, count : Nat]
Calls == [at : {"idle", "plain", "resume", "first", "last", "close"}, total : Nat]

StreamTypes ==
  /\ tls \in BOOLEAN /\ given \in Nat /\ reported \in Nat /\ carried \in Nat /\ shut \in BOOLEAN
  /\ made \in Seq(Int) /\ outbox \in Seq(Int) /\ taken \in Seq(Int) /\ wire \in Seq(Int)
  /\ call \in Calls /\ send \in Sends /\ io \in {"none", "enter", "old", "new"}

(* Where each part of the stream begins.                                   *)
PartsInv ==
  /\ Base >= 0
  /\ PartOf(wire, Whole, 0) /\ PartOf(taken, Whole, Base) /\ PartOf(send.bytes, Whole, Base)
  /\ tls => PartOf(outbox, made, Base + Len(taken)) /\ Len(made) = Base + Len(taken) + Len(outbox)
  /\ ~tls => Base = given /\ outbox = <<>>

(* What a send, a wait and a call say of one another.                      *)
SendInv ==
  /\ send.result = "none" => send = NoSend
  /\ send.result # "none" => Len(send.bytes) > 0 /\ carried = 0
  /\ send.result = "done" => send.count \in 1 .. Len(send.bytes)
  /\ io \in {"old", "new"} => send.result # "none"
  /\ (io = "none") <=> (taken = <<>>)
  /\ tls => carried = 0 /\ (io # "none" => Len(send.bytes) <= Len(taken))

CallInv ==
  /\ io # "none" => call.at # "idle"
  /\ call.at = "idle" => call = Idle
  /\ tls => call.at # "plain"
  /\ ~tls => call.at \in {"idle", "plain"} /\ ~shut /\ (call.at = "plain" => io # "none")
  /\ call.at = "first" => reported = 0
  /\ call.at = "close" => Closing
  /\ shut => /\ call = Idle /\ Closing /\ send = NoSend
             /\ \A k \in 1 .. Len(outbox) : outbox[k] = Ticket

(* The octets encrypted, and those of them that are out.                   *)
OctetsInv ==
  tls => /\ Plain(made) = 1 .. given + reported /\ Ascending(made)
         /\ \A n \in 1 .. given : \E k \in 1 .. Base : made[k] = n

StreamInv == StreamTypes /\ PartsInv /\ SendInv /\ CallInv /\ OctetsInv


-----------------------------------------------------------------------------
(* Sequences of units, and the parts of a whole.                           *)

(* Concatenation, unit by unit.                                            *)
LEMMA Concats ==
  ASSUME NEW a \in Seq(Int), NEW b \in Seq(Int)
  PROVE  /\ a \o b \in Seq(Int) /\ Len(a \o b) = Len(a) + Len(b)
         /\ \A k \in 1 .. Len(a) : (a \o b)[k] = a[k]
         /\ \A k \in 1 .. Len(b) : (a \o b)[Len(a) + k] = b[k]
OBVIOUS

(* A sequence has a length, and is empty when it is zero.                  *)
LEMMA Lengths ==
  ASSUME NEW a \in Seq(Int)
  PROVE  /\ Len(a) \in Nat /\ DOMAIN a = 1 .. Len(a) /\ (a = <<>>) <=> (Len(a) = 0)
         /\ \A k \in 1 .. Len(a) : a[k] \in Int
OBVIOUS

(* The first units and the others, unit by unit.                           *)
LEMMA Cuts ==
  ASSUME NEW a \in Seq(Int), NEW c \in 0 .. Len(a)
  PROVE  /\ SubSeq(a, 1, c) \in Seq(Int) /\ Len(SubSeq(a, 1, c)) = c
         /\ \A k \in 1 .. c : SubSeq(a, 1, c)[k] = a[k]
         /\ SubSeq(a, c + 1, Len(a)) \in Seq(Int) /\ Len(SubSeq(a, c + 1, Len(a))) = Len(a) - c
         /\ \A k \in 1 .. Len(a) - c : SubSeq(a, c + 1, Len(a))[k] = a[c + k]
OBVIOUS

(* The octets of the driver's stream.                                      *)
LEMMA Numbers ==
  ASSUME NEW from \in Nat, NEW count \in Nat
  PROVE  /\ Octets(from, count) \in Seq(Int) /\ Len(Octets(from, count)) = count
         /\ \A k \in 1 .. count : Octets(from, count)[k] = from + k - 1
BY DEF Octets

(* Nothing is a part at every place.                                       *)
LEMMA PartNone ==
  ASSUME NEW w \in Seq(Int), NEW f \in 0 .. Len(w)
  PROVE  PartOf(<<>>, w, f)
BY DEF PartOf

(* A part stays one when the whole grows at its end.                       *)
LEMMA PartGrows ==
  ASSUME NEW a \in Seq(Int), NEW w \in Seq(Int), NEW x \in Seq(Int), NEW f \in Nat,
         PartOf(a, w, f)
  PROVE  PartOf(a, w \o x, f)
<1>1. Len(a) \in Nat /\ Len(w) \in Nat /\ Len(x) \in Nat BY Lengths
<1>2. Len(w \o x) = Len(w) + Len(x) BY Concats
<1>3. \A k \in 1 .. Len(w) : (w \o x)[k] = w[k] BY Concats
<1>4. \A k \in 1 .. Len(a) : f + k \in 1 .. Len(w) /\ a[k] = w[f + k] BY <1>1 DEF PartOf
<1>5. f + Len(a) <= Len(w \o x) BY <1>1, <1>2 DEF PartOf
<1> QED BY <1>3, <1>4, <1>5 DEF PartOf

(* Two parts next to one another are one.                                  *)
LEMMA PartJoins ==
  ASSUME NEW a \in Seq(Int), NEW b \in Seq(Int), NEW w \in Seq(Int), NEW f \in Nat,
         PartOf(a, w, f), PartOf(b, w, f + Len(a))
  PROVE  PartOf(a \o b, w, f)
<1>1. Len(a) \in Nat /\ Len(b) \in Nat /\ Len(w) \in Nat BY Lengths
<1>2. Len(a \o b) = Len(a) + Len(b) BY Concats
<1>3. f + Len(a \o b) <= Len(w) BY <1>1, <1>2 DEF PartOf
<1>4. ASSUME NEW k \in 1 .. Len(a \o b) PROVE (a \o b)[k] = w[f + k]
  <2>1. CASE k \in 1 .. Len(a) BY <2>1, Concats DEF PartOf
  <2>2. CASE k \notin 1 .. Len(a)
    <3>1. PICK j \in 1 .. Len(b) : k = Len(a) + j
      <4>1. k - Len(a) \in 1 .. Len(b) /\ k = Len(a) + (k - Len(a)) BY <1>1, <1>2, <2>2
      <4> QED BY <4>1
    <3>2. (a \o b)[k] = b[j] BY <3>1, Concats
    <3>3. b[j] = w[(f + Len(a)) + j] BY DEF PartOf
    <3>4. (f + Len(a)) + j = f + k BY <1>1, <3>1
    <3> QED BY <3>2, <3>3, <3>4
  <2> QED BY <2>1, <2>2
<1> QED BY <1>3, <1>4 DEF PartOf

(* A part is cut in two.                                                   *)
LEMMA PartCuts ==
  ASSUME NEW a \in Seq(Int), NEW w \in Seq(Int), NEW f \in Nat, PartOf(a, w, f),
         NEW c \in 0 .. Len(a)
  PROVE  PartOf(SubSeq(a, 1, c), w, f) /\ PartOf(SubSeq(a, c + 1, Len(a)), w, f + c)
<1>1. Len(a) \in Nat /\ Len(w) \in Nat BY Lengths
<1>2. \A k \in 1 .. c : k \in 1 .. Len(a) BY <1>1
<1>3. PartOf(SubSeq(a, 1, c), w, f) BY <1>1, <1>2, Cuts DEF PartOf
<1>4. (f + c) + Len(SubSeq(a, c + 1, Len(a))) <= Len(w)
  <2>1. Len(SubSeq(a, c + 1, Len(a))) = Len(a) - c BY Cuts
  <2>2. f + Len(a) <= Len(w) BY DEF PartOf
  <2>3. PICK n : n = Len(SubSeq(a, c + 1, Len(a))) OBVIOUS
  <2>4. n = Len(a) - c BY <2>1, <2>3
  <2>5. (f + c) + n <= Len(w) BY <1>1, <2>2, <2>4
  <2> QED BY <2>3, <2>5
<1>5. ASSUME NEW k \in 1 .. Len(SubSeq(a, c + 1, Len(a)))
      PROVE  SubSeq(a, c + 1, Len(a))[k] = w[(f + c) + k]
  <2>1. k \in 1 .. Len(a) - c BY Cuts
  <2>2. c + k \in 1 .. Len(a) /\ f + (c + k) = (f + c) + k BY <1>1, <2>1
  <2>3. SubSeq(a, c + 1, Len(a))[k] = a[c + k] BY <2>1, Cuts
  <2> QED BY <2>2, <2>3 DEF PartOf
<1> QED BY <1>3, <1>4, <1>5 DEF PartOf


-----------------------------------------------------------------------------
(* The steps of a stream.                                                  *)

(* What the types say of the sequences, the send and the call.             *)
LEMMA StreamFacts ==
  ASSUME Sized, StreamTypes
  PROVE  /\ Len(made) \in Nat /\ Len(outbox) \in Nat /\ Len(taken) \in Nat /\ Len(wire) \in Nat
         /\ send.bytes \in Seq(Int) /\ Len(send.bytes) \in Nat /\ send.count \in Nat
         /\ Owed \in Nat /\ Base \in Int
         /\ Whole \in Seq(Int) /\ Len(Whole) \in Nat
<1>1. /\ Len(made) \in Nat /\ Len(outbox) \in Nat /\ Len(taken) \in Nat /\ Len(wire) \in Nat
  BY Lengths DEF StreamTypes
<1>2. send.bytes \in Seq(Int) /\ Len(send.bytes) \in Nat /\ send.count \in Nat
  BY Lengths DEF StreamTypes, Sends
<1>3. Owed \in Nat BY <1>2 DEF Owed, StreamTypes
<1>4. Base \in Int BY <1>1, <1>3 DEF Base
<1>5. Octets(1, MaxPlain) \in Seq(Int) BY Numbers DEF Sized
<1>6. Whole \in Seq(Int) BY <1>5 DEF Whole, StreamTypes
<1> QED BY <1>1, <1>2, <1>3, <1>4, <1>6, Lengths

(* No send.                                                                *)
LEMMA NoSendFacts ==
  NoSend.bytes = <<>> /\ NoSend.result = "none" /\ NoSend.count = 0 /\ NoSend \in Sends
BY DEF NoSend, Sends

(* Nothing is made, sent or out at the start.                              *)
LEMMA StreamInit ==
  ASSUME Sized, Init
  PROVE  StreamInv
<1>0. Idle \in Calls /\ <<>> \in Seq(Int) BY DEF Calls, Idle
<1>1. StreamTypes BY <1>0, NoSendFacts DEF Init, StreamTypes
<1>2. Base = 0 /\ Owed = 0 BY NoSendFacts DEF Init, Base, Owed
<1>3. SendInv BY NoSendFacts DEF Init, SendInv
<1>4. CallInv BY DEF Init, CallInv, Idle
<1>5. PartsInv
  <2>1. PartOf(<<>>, Whole, 0) BY <1>1, StreamFacts, PartNone
  <2>2. tls => Whole = <<>> BY DEF Whole, Init
  <2> QED BY <1>2, <2>1, <2>2, NoSendFacts DEF Init, PartsInv, PartOf
<1>6. OctetsInv BY DEF Init, OctetsInv, Plain, Ascending
<1> QED BY <1>1, <1>3, <1>4, <1>5, <1>6 DEF StreamInv


(* Octets known to be out stay known.                                      *)
LEMMA OctetsKept ==
  ASSUME Sized, tls' = tls, StreamInv, UNCHANGED <<made, given, reported>>,
         1 .. Base \subseteq 1 .. Base'
  PROVE  OctetsInv'
<1>1. Plain(made)' = Plain(made) /\ Ascending(made)' = Ascending(made) BY DEF Plain, Ascending
<1> QED BY <1>1 DEF StreamInv, OctetsInv

(* A write is told of octets that are out: the rest of what it took goes   *)
(* back in front, and what exceeds it stays owed.                          *)
LEMMA ReturnsKeeps ==
  ASSUME Sized, tls' = tls, StreamInv, io # "none", NEW count \in Nat, count = Owed, count > 0,
         Returns(Least(count, Len(taken))), carried' = count - Least(count, Len(taken)),
         send' = NoSend, UNCHANGED <<reported, made, wire, shut>>
  PROVE  StreamInv'
<1>1. PICK r : r = Least(count, Len(taken)) OBVIOUS
<1>2. /\ Len(made) \in Nat /\ Len(outbox) \in Nat /\ Len(taken) \in Nat /\ Len(wire) \in Nat
      /\ Base \in Int /\ Len(Whole) \in Nat
  BY StreamFacts DEF StreamInv
<1>3. r \in Nat /\ r <= count /\ r <= Len(taken) BY <1>1, <1>2 DEF Least
<1>4. Base >= 0 /\ Base + count = Len(wire) /\ Len(wire) <= Len(Whole)
  <2>1. Base >= 0 /\ 0 + Len(wire) <= Len(Whole) BY DEF StreamInv, PartsInv, PartOf
  <2> QED BY <1>2, <2>1 DEF Base
<1>5. tls => r = count
  <2>1. SUFFICES ASSUME tls PROVE r = count OBVIOUS
  <2>2. carried = 0 /\ Len(send.bytes) <= Len(taken) BY <2>1 DEF StreamInv, SendInv
  <2>3. send.result = "done" /\ send.count = count BY <2>2, StreamFacts DEF StreamInv, Owed
  <2>4. count <= Len(send.bytes) /\ Len(send.bytes) \in Nat
    BY <2>3, StreamFacts DEF StreamInv, SendInv
  <2> QED BY <1>1, <1>2, <2>2, <2>4 DEF Least
<1>6. carried' = count - r /\ carried' \in Nat BY <1>1, <1>3
<1>7. Owed' = count - r /\ Base' = Base + r
  <2>1. send'.result # "done" BY NoSendFacts
  <2>2. Owed' = carried' + 0 BY <2>1 DEF Owed
  <2>3. Owed' = count - r BY <1>6, <2>2
  <2>4. Base' = Len(wire) - Owed' BY DEF Base
  <2> QED BY <1>2, <1>3, <1>4, <2>3, <2>4
<1>8. Whole' = Whole BY DEF Whole
<1>9. taken' = <<>> /\ io' = "none" BY DEF Returns
<1>10. ~shut /\ call.at # "idle" BY DEF StreamInv, CallInv, Idle
<1>11. PICK rest : rest = SubSeq(taken, r + 1, Len(taken)) OBVIOUS
<1>12. /\ rest \in Seq(Int) /\ Len(rest) = Len(taken) - r
       /\ PartOf(taken, Whole, Base) => PartOf(rest, Whole, Base + r)
  <2>1. taken \in Seq(Int) /\ Whole \in Seq(Int) BY StreamFacts DEF StreamInv, StreamTypes
  <2>2. r \in 0 .. Len(taken) /\ Base \in Nat BY <1>2, <1>3, <1>4
  <2> QED BY <1>11, <2>1, <2>2, Cuts, PartCuts
<1>13. tls => outbox' = rest \o outbox /\ UNCHANGED <<given, call>> BY <1>1, <1>11 DEF Returns
<1>14. ~tls => given' = given + r /\ call' = Idle /\ UNCHANGED outbox BY <1>1 DEF Returns
<1>15. outbox' \in Seq(Int) BY <1>12, <1>13, <1>14, Concats DEF StreamInv, StreamTypes, Sized
<1>16. StreamTypes'
  <2>1. given' \in Nat /\ call' \in Calls
    BY <1>3, <1>13, <1>14 DEF StreamInv, StreamTypes, Calls, Idle, Sized
  <2> QED BY <1>6, <1>9, <1>15, <2>1, NoSendFacts DEF StreamInv, StreamTypes
<1>17. PartsInv'
  <2>1. Base' \in 0 .. Len(Whole) BY <1>2, <1>3, <1>4, <1>7
  <2>2. PartOf(<<>>, Whole, Base') BY <2>1, PartNone, StreamFacts DEF StreamInv
  <2>3. PartOf(wire, Whole, 0) BY DEF StreamInv, PartsInv
  <2>4. ASSUME tls
        PROVE  PartOf(outbox', made, Base') /\ Len(made) = Base' + Len(outbox')
    <3>1. Whole = made /\ made \in Seq(Int) /\ outbox \in Seq(Int)
      BY <2>4 DEF Whole, StreamInv, StreamTypes
    <3>2. /\ PartOf(taken, Whole, Base) /\ PartOf(outbox, made, Base + Len(taken))
          /\ Len(made) = Base + Len(taken) + Len(outbox)
      BY <2>4 DEF StreamInv, PartsInv
    <3>3. PartOf(rest, made, Base') BY <1>7, <1>12, <3>1, <3>2
    <3>4. Base' + Len(rest) = Base + Len(taken) /\ Base' \in Nat BY <1>2, <1>3, <1>4, <1>7, <1>12
    <3>5. PartOf(rest \o outbox, made, Base') BY <1>12, <3>1, <3>2, <3>3, <3>4, PartJoins
    <3>6. Len(rest \o outbox) = Len(rest) + Len(outbox) BY <1>12, <3>1, Concats
    <3>7. PICK b, l : b = Base' /\ l = Len(rest \o outbox) OBVIOUS
    <3>8. b + l = Len(made) BY <1>2, <1>3, <1>7, <1>12, <3>2, <3>6, <3>7
    <3> QED BY <1>13, <2>4, <3>5, <3>7, <3>8
  <2>5. ASSUME ~tls PROVE Base' = given' /\ outbox' = <<>>
    BY <1>7, <1>14, <2>5 DEF StreamInv, PartsInv
  <2>6. \A b \in Int : b + 0 = b OBVIOUS
  <2>7. Len(<<>>) = 0 OBVIOUS
  <2> QED BY <1>8, <1>9, <2>1, <2>2, <2>3, <2>4, <2>5, <2>6, <2>7, NoSendFacts DEF PartsInv
<1>18. SendInv'
  <2>1. tls => carried' = 0 BY <1>3, <1>5, <1>6
  <2> QED BY <1>9, <2>1, NoSendFacts DEF SendInv
<1>19. CallInv'
  <2>1. Closing' = Closing BY DEF Closing
  <2>2. Idle.at = "idle" BY DEF Idle
  <2> QED BY <1>9, <1>10, <1>13, <1>14, <2>1, <2>2 DEF StreamInv, CallInv, Sized
<1>20. OctetsInv'
  <2>1. 1 .. Base \subseteq 1 .. Base' BY <1>2, <1>3, <1>7
  <2>2. CASE tls BY <1>13, <2>1, <2>2, OctetsKept
  <2>3. CASE ~tls BY <2>3 DEF OctetsInv
  <2> QED BY <2>2, <2>3
<1> QED BY <1>16, <1>17, <1>18, <1>19, <1>20 DEF StreamInv


(* The parts and the octets depend on these variables only.                *)
LEMMA QuietKeeps ==
  ASSUME StreamInv, UNCHANGED <<tls, given, reported, made, outbox, taken, send, carried, wire>>,
         StreamTypes', SendInv', CallInv'
  PROVE  StreamInv'
<1>1. Base' = Base BY DEF Base, Owed
<1>2. Whole' = Whole BY DEF Whole
<1>3. PartsInv' BY <1>1, <1>2 DEF StreamInv, PartsInv, PartOf
<1>4. OctetsInv' BY <1>1, OctetsKept DEF StreamInv, OctetsInv, Plain, Ascending
<1> QED BY <1>3, <1>4 DEF StreamInv

(* What was taken is sent, once nothing is owed of an earlier send.        *)
LEMMA SubmitKeeps ==
  ASSUME Sized, tls' = tls, StreamInv, io # "none", carried = 0, send.result # "done", Submit(taken),
         UNCHANGED <<given, call, reported, made, outbox, taken, carried, wire, shut>>
  PROVE  StreamInv'
<1>1. PICK s : s = send' OBVIOUS
<1>2. s.bytes = taken /\ s.result = "flying" /\ s.count = 0 BY <1>1 DEF Submit
<1>3. s \in Sends BY <1>1 DEF Submit, Sends, StreamInv, StreamTypes
<1>4. Len(taken) \in Nat /\ Len(taken) > 0 /\ io' = "new"
  BY Lengths DEF StreamInv, StreamTypes, SendInv, Submit
<1>5. StreamTypes' BY <1>1, <1>3, <1>4 DEF StreamInv, StreamTypes
<1>6. Base' = Base BY <1>1, <1>2 DEF Base, Owed
<1>7. Whole' = Whole BY DEF Whole
<1>8. PartsInv' BY <1>1, <1>2, <1>6, <1>7 DEF StreamInv, PartsInv, PartOf
<1>9. SendInv'
  <2>1. taken # <<>> /\ ~shut BY DEF StreamInv, SendInv, CallInv, Idle
  <2>2. Len(taken) <= Len(taken) BY <1>4
  <2> QED BY <1>1, <1>2, <1>4, <2>1, <2>2 DEF SendInv
<1>10. CallInv'
  <2>1. Closing' = Closing BY DEF Closing
  <2>2. ~shut /\ call.at # "idle" BY DEF StreamInv, CallInv, Idle
  <2> QED BY <1>4, <2>1, <2>2 DEF StreamInv, CallInv
<1>11. OctetsInv' BY <1>6, OctetsKept
<1> QED BY <1>5, <1>8, <1>9, <1>10, <1>11 DEF StreamInv

(* writev enters: it reports, waits or sends.                              *)
LEMMA EnterKeeps ==
  ASSUME Sized, tls' = tls, StreamInv, Enter
  PROVE  StreamInv'
<1>1. io = "enter" /\ UNCHANGED <<reported, made, records>> BY DEF Enter
<1>2. CASE carried > 0 /\ Returns(report(carried, Len(taken))[1])
           /\ carried' = report(carried, Len(taken))[2] /\ UNCHANGED <<send, wire, shut>>
  <2>1. send = NoSend BY <1>2, NoSendFacts DEF StreamInv, StreamTypes, SendInv
  <2>2. Owed = carried /\ carried \in Nat BY <2>1, NoSendFacts DEF Owed, StreamInv, StreamTypes
  <2>3. /\ Returns(Least(carried, Len(taken)))
        /\ carried' = carried - Least(carried, Len(taken))
    BY <1>2 DEF report
  <2> QED BY <1>1, <1>2, <2>1, <2>2, <2>3, ReturnsKeeps
<1>3. CASE carried = 0 /\ send # NoSend /\ io' = "old"
           /\ UNCHANGED <<given, call, outbox, taken, tcpVars>>
  <2>1. UNCHANGED <<send, carried, wire, shut>> BY <1>3 DEF tcpVars
  <2>2. StreamTypes' BY <1>1, <1>3, <2>1 DEF StreamInv, StreamTypes
  <2>3. send.result # "none" /\ taken # <<>> BY <1>1, <1>3 DEF StreamInv, SendInv
  <2>4. SendInv' BY <1>1, <1>3, <2>1, <2>3 DEF StreamInv, SendInv
  <2>5. Closing' = Closing BY <1>1 DEF Closing
  <2>6. CallInv' BY <1>1, <1>3, <2>1, <2>5 DEF StreamInv, CallInv
  <2> QED BY <1>1, <1>3, <2>1, <2>2, <2>4, <2>6, QuietKeeps
<1>4. CASE carried = 0 /\ send = NoSend /\ Submit(taken)
           /\ UNCHANGED <<given, call, outbox, taken, carried, wire, shut>>
  BY <1>1, <1>4, SubmitKeeps, NoSendFacts
<1> QED BY <1>2, <1>3, <1>4 DEF Enter

(* A send is over, or is sent again.                                       *)
LEMMA SentKeeps ==
  ASSUME Sized, tls' = tls, StreamInv, Sent \/ WouldBlock
  PROVE  StreamInv'
<1>1. CASE Sent
  <2>1. io # "none" /\ send.result = "done" BY <1>1 DEF Sent
  <2>2. carried = 0 /\ send.count > 0 /\ send.count \in Nat
    BY <2>1, StreamFacts DEF StreamInv, SendInv
  <2>3. Owed = send.count BY <2>1, <2>2 DEF Owed
  <2>4. /\ Returns(Least(send.count, Len(taken)))
        /\ carried' = send.count - Least(send.count, Len(taken))
        /\ send' = NoSend /\ UNCHANGED <<reported, made, wire, shut>>
    BY <1>1 DEF Sent, report
  <2> QED BY <2>1, <2>2, <2>3, <2>4, ReturnsKeeps
<1>2. CASE WouldBlock
  <2>1. io # "none" /\ send.result = "blocked" /\ carried = 0
    BY <1>2 DEF WouldBlock, StreamInv, SendInv
  <2> QED BY <1>2, <2>1, SubmitKeeps DEF WouldBlock, tlsVars
<1> QED BY <1>1, <1>2

(* The kernel takes some of a send.                                        *)
LEMMA KernelTakesKeeps ==
  ASSUME Sized, tls' = tls, StreamInv, NEW count \in 1 .. Len(send.bytes), KernelTakes(count)
  PROVE  StreamInv'
<1>1. /\ send.result = "flying" /\ carried = 0 /\ send.bytes \in Seq(Int)
      /\ Len(send.bytes) \in Nat /\ Len(wire) \in Nat /\ Len(Whole) \in Nat
  BY StreamFacts DEF KernelTakes, StreamInv, SendInv
<1>2. /\ UNCHANGED <<given, call, reported, made, outbox, taken, io, carried, shut>>
      /\ wire' = wire \o SubSeq(send.bytes, 1, count)
  BY DEF KernelTakes, tlsVars
<1>3. PICK s : s = send' OBVIOUS
<1>4. s.bytes = send.bytes /\ s.result = "done" /\ s.count = count /\ s \in Sends
  <2>1. count \in Nat /\ send \in Sends BY <1>1 DEF StreamInv, StreamTypes
  <2>2. s = [send EXCEPT !.result = "done", !.count = count] BY <1>3 DEF KernelTakes
  <2> QED BY <2>1, <2>2 DEF Sends
<1>5. PICK part : part = SubSeq(send.bytes, 1, count) OBVIOUS
<1>6. Owed = 0 /\ Base = Len(wire) BY <1>1 DEF Owed, Base
<1>7. /\ part \in Seq(Int) /\ Len(part) = count /\ PartOf(part, Whole, Len(wire))
      /\ wire \in Seq(Int) /\ Whole \in Seq(Int)
  <2>1. count \in 0 .. Len(send.bytes) BY <1>1
  <2>2. PartOf(send.bytes, Whole, Len(wire)) BY <1>6 DEF StreamInv, PartsInv
  <2>3. wire \in Seq(Int) /\ Whole \in Seq(Int) BY StreamFacts DEF StreamInv, StreamTypes
  <2> QED BY <1>1, <1>5, <2>1, <2>2, <2>3, Cuts, PartCuts
<1>8. wire' \in Seq(Int) /\ Len(wire') = Len(wire) + count BY <1>2, <1>5, <1>7, Concats
<1>9. Owed' = count BY <1>1, <1>2, <1>3, <1>4 DEF Owed
<1>10. Base' = Base BY <1>1, <1>6, <1>8, <1>9 DEF Base
<1>11. Whole' = Whole BY <1>2 DEF Whole
<1>12. StreamTypes' BY <1>2, <1>3, <1>4, <1>8 DEF StreamInv, StreamTypes
<1>13. PartsInv'
  <2>1. PartOf(wire, Whole, 0) BY DEF StreamInv, PartsInv
  <2>2. 0 + Len(wire) = Len(wire) BY <1>1
  <2>3. PartOf(wire \o part, Whole, 0) BY <1>7, <2>1, <2>2, PartJoins
  <2>4. PartOf(wire', Whole', 0) BY <1>2, <1>5, <1>11, <2>3
  <2> QED BY <1>2, <1>3, <1>4, <1>10, <1>11, <2>4 DEF StreamInv, PartsInv, PartOf
<1>14. SendInv' BY <1>1, <1>2, <1>3, <1>4 DEF StreamInv, SendInv
<1>15. CallInv'
  <2>1. Closing' = Closing BY <1>2 DEF Closing
  <2>2. ~shut BY <1>1, NoSendFacts DEF StreamInv, CallInv
  <2> QED BY <1>2, <2>1, <2>2 DEF StreamInv, CallInv
<1>16. OctetsInv' BY <1>2, <1>10, OctetsKept
<1> QED BY <1>12, <1>13, <1>14, <1>15, <1>16 DEF StreamInv

(* The kernel takes nothing of it for now.                                 *)
LEMMA KernelBlocksKeeps ==
  ASSUME Sized, tls' = tls, StreamInv, KernelBlocks
  PROVE  StreamInv'
<1>1. send.result = "flying" /\ carried = 0 BY DEF KernelBlocks, StreamInv, SendInv
<1>2. UNCHANGED <<given, call, reported, made, outbox, taken, io, carried, wire, shut>>
  BY DEF KernelBlocks, tlsVars
<1>3. PICK s : s = send' OBVIOUS
<1>4. s.bytes = send.bytes /\ s.result = "blocked" /\ s.count = send.count /\ s \in Sends
  BY <1>1, <1>3 DEF KernelBlocks, StreamInv, StreamTypes, Sends
<1>5. Base' = Base BY <1>1, <1>2, <1>3, <1>4 DEF Base, Owed
<1>6. Whole' = Whole BY <1>2 DEF Whole
<1>7. StreamTypes' BY <1>2, <1>3, <1>4 DEF StreamInv, StreamTypes
<1>8. PartsInv' BY <1>2, <1>3, <1>4, <1>5, <1>6 DEF StreamInv, PartsInv, PartOf
<1>9. SendInv' BY <1>1, <1>2, <1>3, <1>4 DEF StreamInv, SendInv
<1>10. CallInv'
  <2>1. Closing' = Closing BY <1>2 DEF Closing
  <2>2. ~shut BY <1>1, NoSendFacts DEF StreamInv, CallInv
  <2> QED BY <1>2, <2>1, <2>2 DEF StreamInv, CallInv
<1>11. OctetsInv' BY <1>2, <1>5, OctetsKept
<1> QED BY <1>7, <1>8, <1>9, <1>10, <1>11 DEF StreamInv


(* The octets of a longer sequence, and their order.                       *)
LEMMA PlainGrows ==
  ASSUME NEW a \in Seq(Int), NEW x \in Seq(Int)
  PROVE  /\ Plain(a \o x) = Plain(a) \cup Plain(x)
         /\ Ascending(a) /\ Ascending(x) /\ (\A m \in Plain(a) : \A n \in Plain(x) : m < n)
              => Ascending(a \o x)
<1>1. Len(a) \in Nat /\ Len(x) \in Nat /\ DOMAIN a = 1 .. Len(a) /\ DOMAIN x = 1 .. Len(x)
  BY Lengths
<1>2. a \o x \in Seq(Int) /\ Len(a \o x) = Len(a) + Len(x) /\ DOMAIN (a \o x) = 1 .. Len(a) + Len(x)
  BY <1>1, Concats, Lengths
<1>3. \A k \in 1 .. Len(a) : (a \o x)[k] = a[k] BY Concats
<1>4. \A k \in 1 .. Len(x) : (a \o x)[Len(a) + k] = x[k] BY Concats
<1>5. \A k \in 1 .. Len(a) + Len(x) :
        k \in 1 .. Len(a) \/ (k > Len(a) /\ k - Len(a) \in 1 .. Len(x) /\ k = Len(a) + (k - Len(a)))
  BY <1>1
<1>6. \A k \in 1 .. Len(x) : Len(a) + k \in 1 .. Len(a) + Len(x) BY <1>1
<1>7. \A k \in 1 .. Len(a) : k \in 1 .. Len(a) + Len(x) BY <1>1
<1>8. \A u, n : n \in Plain(u) <=> \E k \in DOMAIN u : u[k] = n /\ u[k] > 0 BY DEF Plain
<1>9. ASSUME NEW n PROVE n \in Plain(a \o x) <=> n \in Plain(a) \cup Plain(x)
  <2>1. ASSUME n \in Plain(a \o x) PROVE n \in Plain(a) \cup Plain(x)
    <3>1. PICK k \in 1 .. Len(a) + Len(x) : (a \o x)[k] = n /\ (a \o x)[k] > 0 BY <1>2, <1>8, <2>1
    <3>2. CASE k \in 1 .. Len(a) BY <1>1, <1>3, <1>8, <3>1, <3>2
    <3>3. CASE k - Len(a) \in 1 .. Len(x) /\ k = Len(a) + (k - Len(a))
      <4>1. PICK j \in 1 .. Len(x) : k = Len(a) + j BY <3>3
      <4>2. x[j] = n /\ x[j] > 0 BY <1>4, <3>1, <4>1
      <4> QED BY <1>1, <1>8, <4>2
    <3> QED BY <1>5, <3>2, <3>3
  <2>2. ASSUME n \in Plain(a) PROVE n \in Plain(a \o x)
    <3>1. PICK k \in 1 .. Len(a) : a[k] = n /\ a[k] > 0 BY <1>1, <1>8, <2>2
    <3>2. k \in DOMAIN (a \o x) /\ (a \o x)[k] = n BY <1>2, <1>3, <1>7, <3>1
    <3> QED BY <1>8, <3>1, <3>2
  <2>3. ASSUME n \in Plain(x) PROVE n \in Plain(a \o x)
    <3>1. PICK k \in 1 .. Len(x) : x[k] = n /\ x[k] > 0 BY <1>1, <1>8, <2>3
    <3>2. Len(a) + k \in DOMAIN (a \o x) /\ (a \o x)[Len(a) + k] = n BY <1>2, <1>4, <1>6, <3>1
    <3> QED BY <1>8, <3>1, <3>2
  <2> QED BY <2>1, <2>2, <2>3
<1>10. ASSUME Ascending(a), Ascending(x), \A m \in Plain(a) : \A n \in Plain(x) : m < n
       PROVE  Ascending(a \o x)
  <2>1. SUFFICES ASSUME NEW i \in 1 .. Len(a) + Len(x), NEW j \in 1 .. Len(a) + Len(x), i < j,
                        (a \o x)[i] > 0, (a \o x)[j] > 0
                 PROVE  (a \o x)[i] < (a \o x)[j]
    BY <1>2 DEF Ascending
  <2>2. CASE j \in 1 .. Len(a)
    <3>1. i \in 1 .. Len(a) BY <1>1, <2>1, <2>2
    <3> QED BY <1>1, <1>3, <1>10, <2>1, <2>2, <3>1 DEF Ascending
  <2>3. CASE i \in 1 .. Len(a) /\ j \notin 1 .. Len(a)
    <3>1. PICK l \in 1 .. Len(x) : j = Len(a) + l BY <1>5, <2>3
    <3>2. a[i] \in Plain(a) /\ x[l] \in Plain(x) BY <1>1, <1>3, <1>4, <1>8, <2>1, <2>3, <3>1
    <3> QED BY <1>3, <1>4, <1>10, <2>3, <3>1, <3>2
  <2>4. CASE i \notin 1 .. Len(a) /\ j \notin 1 .. Len(a)
    <3>1. PICK k \in 1 .. Len(x) : i = Len(a) + k BY <1>5, <2>4
    <3>2. PICK l \in 1 .. Len(x) : j = Len(a) + l BY <1>5, <2>4
    <3>3. k < l BY <1>1, <2>1, <3>1, <3>2
    <3>4. x[k] > 0 /\ x[l] > 0 BY <1>4, <2>1, <3>1, <3>2
    <3>5. x[k] < x[l] BY <1>1, <1>10, <3>3, <3>4 DEF Ascending
    <3> QED BY <1>4, <3>1, <3>2, <3>5
  <2> QED BY <2>2, <2>3, <2>4
<1> QED BY <1>9, <1>10

(* A record is queued as it is made.                                       *)
LEMMA GrowsKeeps ==
  ASSUME Sized, tls' = tls, StreamInv, tls, NEW x \in Seq(Int),
         made' = made \o x, outbox' = outbox \o x,
         UNCHANGED <<given, taken, io, send, carried, wire>>
  PROVE  /\ made' \in Seq(Int) /\ outbox' \in Seq(Int) /\ Base' = Base
         /\ PartsInv' /\ SendInv'
         /\ \A k \in 1 .. Len(made) : made'[k] = made[k]
<1>1. made \in Seq(Int) /\ outbox \in Seq(Int) /\ taken \in Seq(Int) /\ wire \in Seq(Int)
  BY DEF StreamInv, StreamTypes
<1>2. /\ Len(made) \in Nat /\ Len(outbox) \in Nat /\ Len(taken) \in Nat /\ Len(x) \in Nat
      /\ Base \in Nat /\ send.bytes \in Seq(Int)
  <2>1. Base \in Int /\ Base >= 0 BY StreamFacts DEF StreamInv, PartsInv
  <2> QED BY <2>1, StreamFacts, Lengths DEF StreamInv
<1>3. /\ made' \in Seq(Int) /\ outbox' \in Seq(Int)
      /\ Len(made') = Len(made) + Len(x) /\ Len(outbox') = Len(outbox) + Len(x)
      /\ \A k \in 1 .. Len(made) : made'[k] = made[k]
      /\ \A k \in 1 .. Len(x) : made'[Len(made) + k] = x[k]
  BY <1>1, Concats
<1>4. Base' = Base BY DEF Base, Owed
<1>5. Whole = made /\ Whole' = made' BY DEF Whole
<1>6. /\ PartOf(wire, made, 0) /\ PartOf(taken, made, Base) /\ PartOf(send.bytes, made, Base)
      /\ PartOf(outbox, made, Base + Len(taken)) /\ Len(made) = Base + Len(taken) + Len(outbox)
  BY <1>5 DEF StreamInv, PartsInv
<1>7. /\ PartOf(wire, made', 0) /\ PartOf(taken, made', Base) /\ PartOf(send.bytes, made', Base)
      /\ PartOf(outbox, made', Base + Len(taken))
  <2>1. Base + Len(taken) \in Nat BY <1>2
  <2> QED BY <1>1, <1>2, <1>6, <2>1, PartGrows
<1>8. PartOf(x, made', Len(made)) BY <1>2, <1>3 DEF PartOf
<1>9. PartOf(outbox', made', Base + Len(taken))
  <2>1. (Base + Len(taken)) + Len(outbox) = Len(made) /\ Base + Len(taken) \in Nat BY <1>2, <1>6
  <2> QED BY <1>1, <1>3, <1>7, <1>8, <2>1, PartJoins
<1>10. Len(made') = Base + Len(taken) + Len(outbox') BY <1>2, <1>3, <1>6
<1>11. PartsInv'
  <2>1. Base' >= 0 BY <1>2, <1>4
  <2> QED BY <1>4, <1>5, <1>7, <1>9, <1>10, <2>1 DEF PartsInv
<1>12. SendInv' BY DEF StreamInv, SendInv
<1> QED BY <1>3, <1>4, <1>11, <1>12

(* A record without octets of the driver leaves theirs alone.              *)
LEMMA UnitKeeps ==
  ASSUME Sized, tls' = tls, StreamInv, tls, NEW u \in Int, u <= 0,
         made' = made \o <<u>>, outbox' = outbox \o <<u>>,
         UNCHANGED <<given, reported, taken, io, send, carried, wire>>
  PROVE  OctetsInv'
<1>1. <<u>> \in Seq(Int) /\ Plain(<<u>>) = {} /\ Ascending(<<u>>) BY DEF Plain, Ascending
<1>2. made \in Seq(Int) BY DEF StreamInv, StreamTypes
<1>3. Plain(made') = Plain(made)
  <2>1. Plain(made') = Plain(made) \cup Plain(<<u>>) BY <1>1, <1>2, PlainGrows
  <2> QED BY <1>1, <2>1
<1>4. Ascending(made') BY <1>1, <1>2, PlainGrows DEF StreamInv, OctetsInv
<1>5. Base' = Base /\ \A k \in 1 .. Len(made) : made'[k] = made[k] BY <1>1, GrowsKeeps
<1>6. 1 .. Base \subseteq 1 .. Len(made)
  <2>1. Base + Len(taken) + Len(outbox) = Len(made) BY DEF StreamInv, PartsInv
  <2> QED BY <2>1, StreamFacts DEF StreamInv
<1> QED BY <1>3, <1>4, <1>5, <1>6 DEF StreamInv, OctetsInv


(* A call begins, with nothing taken under TLS.                            *)
LEMMA WriteKeeps ==
  ASSUME Sized, tls' = tls, StreamInv, NEW total \in 1 .. MaxWrite, Write(total)
  PROVE  StreamInv'
<1>1. total \in Nat /\ total > 0 BY DEF Sized
<1>2. /\ call = Idle /\ ~Closing /\ given + total <= MaxPlain
      /\ UNCHANGED <<given, reported, made, outbox, send, carried, wire, shut>>
  BY DEF Write, tlsVars, tcpVars
<1>3. io = "none" /\ taken = <<>> /\ ~shut BY <1>2 DEF StreamInv, CallInv, SendInv, Idle
<1>4. Closing' = Closing BY <1>2 DEF Closing
<1>5. CASE tls
  <2>1. /\ call' = [at |-> IF reported > 0 THEN "resume" ELSE "first", total |-> total]
        /\ UNCHANGED <<taken, io>>
    BY <1>5 DEF Write
  <2>2. /\ call'.at = "resume" \/ (call'.at = "first" /\ reported = 0)
        /\ call' \in Calls
    BY <1>1, <2>1 DEF Calls, StreamInv, StreamTypes
  <2>3. StreamTypes' BY <1>2, <2>1, <2>2 DEF StreamInv, StreamTypes
  <2>4. SendInv' BY <1>2, <2>1 DEF StreamInv, SendInv
  <2>5. CallInv' BY <1>2, <1>3, <1>5, <2>1, <2>2 DEF CallInv
  <2> QED BY <1>2, <2>1, <2>3, <2>4, <2>5, QuietKeeps
<1>6. CASE ~tls
  <2>1. /\ call' = [at |-> "plain", total |-> total]
        /\ taken' = Octets(given + 1, total) /\ io' = "enter"
    BY <1>6 DEF Write
  <2>2. /\ given \in Nat /\ MaxPlain \in Nat /\ given = Base /\ outbox = <<>>
        /\ Whole = Octets(1, MaxPlain)
    BY <1>6 DEF Sized, StreamInv, StreamTypes, PartsInv, Whole
  <2>3. /\ taken' \in Seq(Int) /\ Len(taken') = total
        /\ \A k \in 1 .. total : taken'[k] = (given + 1) + k - 1
    <3>1. PICK from \in Nat : from = given + 1 BY <2>2
    <3>2. taken' = Octets(from, total) BY <2>1, <3>1
    <3> QED BY <1>1, <3>1, <3>2, Numbers
  <2>4. Len(Whole) = MaxPlain /\ \A k \in 1 .. MaxPlain : Whole[k] = 1 + k - 1
    BY <2>2, Numbers
  <2>5. PartOf(taken', Whole, given)
    <3>1. \A k \in 1 .. total :
            given + k \in 1 .. MaxPlain /\ (given + 1) + k - 1 = 1 + (given + k) - 1
      BY <1>1, <1>2, <2>2
    <3> QED BY <1>2, <2>3, <2>4, <3>1 DEF PartOf
  <2>6. Base' = Base BY <1>2 DEF Base, Owed
  <2>7. Whole' = Whole BY <1>6, <2>2 DEF Whole
  <2>8. call'.at = "plain" /\ call' \in Calls BY <1>1, <2>1 DEF Calls
  <2>9. StreamTypes' BY <1>2, <2>1, <2>3, <2>8 DEF StreamInv, StreamTypes
  <2>10. PartsInv' BY <1>2, <1>6, <2>2, <2>5, <2>6, <2>7 DEF StreamInv, PartsInv, PartOf
  <2>11. taken' # <<>> BY <1>1, <2>3
  <2>12. SendInv' BY <1>2, <1>6, <2>1, <2>11 DEF StreamInv, SendInv
  <2>13. CallInv' BY <1>2, <1>3, <1>6, <2>1, <2>8 DEF CallInv
  <2>14. OctetsInv' BY <1>6 DEF OctetsInv
  <2> QED BY <2>9, <2>10, <2>12, <2>13, <2>14 DEF StreamInv
<1> QED BY <1>5, <1>6

(* A future is dropped: what it took is again in front of the queue.       *)
LEMMA DropKeeps ==
  ASSUME Sized, tls' = tls, StreamInv, Drop
  PROVE  StreamInv'
<1>1. /\ io \in {"old", "new"} /\ taken' = <<>> /\ io' = "none" /\ call' = Idle
      /\ UNCHANGED <<given, reported, made, send, carried, wire, shut>>
      /\ outbox' = IF tls THEN taken \o outbox ELSE outbox
  BY DEF Drop, tcpVars
<1>2. ~shut BY <1>1 DEF StreamInv, CallInv, Idle
<1>3. taken \in Seq(Int) /\ outbox \in Seq(Int) /\ Whole \in Seq(Int)
  BY StreamFacts DEF StreamInv, StreamTypes
<1>4. Len(taken) \in Nat /\ Len(outbox) \in Nat /\ Base \in Nat /\ Len(Whole) \in Nat
  <2>1. Base >= 0 /\ Base \in Int BY StreamFacts DEF StreamInv, PartsInv
  <2> QED BY <2>1, StreamFacts DEF StreamInv
<1>5. taken \o outbox \in Seq(Int) /\ Len(taken \o outbox) = Len(taken) + Len(outbox)
  BY <1>3, Concats
<1>6. StreamTypes' BY <1>1, <1>3, <1>5 DEF StreamInv, StreamTypes, Calls, Idle
<1>7. Base' = Base BY <1>1 DEF Base, Owed
<1>8. Whole' = Whole BY <1>1 DEF Whole
<1>9. PartOf(taken, Whole, Base) BY DEF StreamInv, PartsInv
<1>10. PartOf(<<>>, Whole, Base)
  <2>1. Base \in 0 .. Len(Whole) BY <1>4, <1>9 DEF PartOf
  <2> QED BY <1>3, <2>1, PartNone
<1>11. ASSUME tls
       PROVE  /\ PartOf(outbox', made, Base + 0)
              /\ Len(made) = Base + 0 + Len(outbox')
  <2>1. Whole = made /\ outbox' = taken \o outbox BY <1>1, <1>11 DEF Whole
  <2>2. PartOf(outbox, made, Base + Len(taken)) /\ Len(made) = Base + Len(taken) + Len(outbox)
    BY <1>11 DEF StreamInv, PartsInv
  <2>3. PartOf(taken \o outbox, made, Base) BY <1>3, <1>4, <1>9, <2>1, <2>2, PartJoins
  <2>4. Base + 0 = Base BY <1>4
  <2>5. PICK l : l = Len(taken \o outbox) OBVIOUS
  <2>6. Len(made) = Base + 0 + l BY <1>4, <1>5, <2>2, <2>5
  <2> QED BY <2>1, <2>3, <2>4, <2>5, <2>6
<1>12. PartsInv'
  <2>1. Len(<<>>) = 0 OBVIOUS
  <2> QED BY <1>1, <1>7, <1>8, <1>10, <1>11, <2>1 DEF StreamInv, PartsInv
<1>13. SendInv' BY <1>1 DEF StreamInv, SendInv
<1>14. CallInv'
  <2>1. Idle.at = "idle" BY DEF Idle
  <2> QED BY <1>1, <1>2, <2>1 DEF CallInv
<1>15. OctetsInv' BY <1>1, <1>7, OctetsKept
<1> QED BY <1>6, <1>12, <1>13, <1>14, <1>15 DEF StreamInv

(* A flush takes the whole queue, and with it all of a send in flight.     *)
LEMMA FlushTakesKeeps ==
  ASSUME Sized, tls' = tls, StreamInv, FlushTakes
  PROVE  StreamInv'
<1>1. /\ call.at \in {"resume", "first", "last", "close"} /\ io = "none" /\ outbox # <<>>
      /\ taken' = outbox /\ outbox' = <<>> /\ io' = "enter"
      /\ UNCHANGED <<given, call, reported, made, send, carried, wire, shut>>
  BY DEF FlushTakes, tcpVars
<1>2. tls /\ ~shut /\ taken = <<>> BY <1>1 DEF StreamInv, CallInv, SendInv, Idle, Sized
<1>3. /\ Len(outbox) \in Nat /\ Len(send.bytes) \in Nat /\ Base \in Int /\ Len(made) \in Nat
      /\ outbox \in Seq(Int) /\ made \in Seq(Int)
  BY StreamFacts DEF StreamInv, StreamTypes
<1>4. Base >= 0 /\ Whole = made BY <1>2 DEF StreamInv, PartsInv, Whole
<1>5. /\ PartOf(outbox, made, Base + Len(taken)) /\ Len(made) = Base + Len(taken) + Len(outbox)
      /\ PartOf(send.bytes, made, Base)
  BY <1>2, <1>4 DEF StreamInv, PartsInv
<1>6. Len(taken) = 0 /\ Base + Len(taken) = Base BY <1>2, <1>3
<1>7. Len(made) = Base + Len(outbox) BY <1>3, <1>5, <1>6
<1>8. StreamTypes' BY <1>1, <1>3 DEF StreamInv, StreamTypes
<1>9. Base' = Base BY <1>1 DEF Base, Owed
<1>10. Whole' = Whole BY <1>1 DEF Whole
<1>11. PartsInv'
  <2>1. Base + Len(outbox) \in 0 .. Len(made) BY <1>3, <1>4, <1>7
  <2>2. PartOf(<<>>, made, Base + Len(outbox)) BY <1>3, <2>1, PartNone
  <2>3. PartOf(outbox, made, Base) BY <1>5, <1>6
  <2>4. Len(made) = Base + Len(outbox) + Len(<<>>) BY <1>3, <1>7
  <2> QED BY <1>1, <1>2, <1>4, <1>9, <1>10, <2>2, <2>3, <2>4 DEF StreamInv, PartsInv
<1>12. SendInv'
  <2>1. Len(send.bytes) <= Len(outbox) BY <1>3, <1>5, <1>7 DEF PartOf
  <2> QED BY <1>1, <2>1 DEF StreamInv, SendInv
<1>13. CallInv'
  <2>1. Closing' = Closing BY <1>1 DEF Closing
  <2> QED BY <1>1, <1>2, <2>1 DEF StreamInv, CallInv
<1>14. OctetsInv' BY <1>1, <1>9, OctetsKept
<1> QED BY <1>8, <1>11, <1>12, <1>13, <1>14 DEF StreamInv


(* Nothing waits: all that was made is out, and nobody is owed anything.   *)
LEMMA FlushedFacts ==
  ASSUME Sized, StreamInv, tls, io = "none", outbox = <<>>
  PROVE  Base = Len(made) /\ wire = made /\ send = NoSend
<1>1. taken = <<>> /\ carried = 0 BY DEF StreamInv, SendInv
<1>2. /\ Len(made) \in Nat /\ Len(wire) \in Nat /\ Owed \in Nat /\ Base \in Int
      /\ Len(send.bytes) \in Nat /\ made \in Seq(Int) /\ wire \in Seq(Int)
  BY StreamFacts DEF StreamInv, StreamTypes
<1>3. Whole = made /\ Len(taken) = 0 /\ Len(outbox) = 0 BY <1>1 DEF Whole
<1>4. Base = Len(made)
  <2>1. Len(made) = Base + Len(taken) + Len(outbox) BY DEF StreamInv, PartsInv
  <2> QED BY <1>2, <1>3, <2>1
<1>5. send.result = "none"
  <2>1. SUFFICES ASSUME send.result # "none" PROVE FALSE OBVIOUS
  <2>2. Len(send.bytes) > 0 BY <2>1 DEF StreamInv, SendInv
  <2>3. Base + Len(send.bytes) <= Len(made) BY <1>3 DEF StreamInv, PartsInv, PartOf
  <2> QED BY <1>2, <1>4, <2>2, <2>3
<1>6. Owed = 0 BY <1>1, <1>5 DEF Owed
<1>7. Len(wire) = Len(made) BY <1>2, <1>4, <1>6 DEF Base
<1>8. \A k \in 1 .. Len(wire) : wire[k] = made[0 + k] BY <1>3 DEF StreamInv, PartsInv, PartOf
<1>9. \A k \in 1 .. Len(wire) : wire[k] = made[k] BY <1>2, <1>8
<1>10. wire = made BY <1>2, <1>7, <1>9, SeqEqual
<1> QED BY <1>4, <1>5, <1>10 DEF StreamInv, SendInv

(* Octets encrypted are reported, once nothing waits.                      *)
LEMMA ReportKeeps ==
  ASSUME Sized, tls' = tls, StreamInv, tls, io = "none", outbox = <<>>, call.at # "idle",
         NEW count \in Nat, count <= reported,
         given' = given + count, reported' = reported - count, call' = Idle,
         UNCHANGED <<made, outbox, taken, io, send, carried, wire, shut>>
  PROVE  StreamInv'
<1>1. Base = Len(made) /\ given \in Nat /\ reported \in Nat /\ made \in Seq(Int)
  BY FlushedFacts DEF StreamInv, StreamTypes
<1>2. given' \in Nat /\ reported' \in Nat /\ given' + reported' = given + reported
  BY <1>1
<1>3. StreamTypes' BY <1>2 DEF StreamInv, StreamTypes, Calls, Idle
<1>4. Base' = Base BY DEF Base, Owed
<1>5. Whole' = Whole BY DEF Whole
<1>6. PartsInv' BY <1>4, <1>5 DEF StreamInv, PartsInv, PartOf
<1>7. SendInv' BY DEF StreamInv, SendInv
<1>8. CallInv'
  <2>1. ~shut /\ Idle.at = "idle" BY DEF StreamInv, CallInv, Idle
  <2> QED BY <2>1 DEF StreamInv, CallInv
<1>9. OctetsInv'
  <2>1. Plain(made) = 1 .. given + reported /\ Ascending(made) BY DEF StreamInv, OctetsInv
  <2>2. Plain(made)' = Plain(made) /\ Ascending(made)' = Ascending(made) BY DEF Plain, Ascending
  <2>3. ASSUME NEW n \in 1 .. given' PROVE \E k \in 1 .. Base' : made'[k] = n
    <3>1. n \in 1 .. given + reported BY <1>1, <1>2
    <3>2. n \in Plain(made) BY <2>1, <3>1
    <3>3. \E k \in DOMAIN made : made[k] = n BY <3>2 DEF Plain
    <3> QED BY <1>1, <1>4, <3>3, Lengths
  <2> QED BY <1>2, <2>1, <2>2, <2>3 DEF OctetsInv
<1> QED BY <1>3, <1>6, <1>7, <1>8, <1>9 DEF StreamInv

(* resume, and the end of writev.                                          *)
LEMMA ResumeKeeps ==
  ASSUME Sized, tls' = tls, StreamInv, Resume \/ Written
  PROVE  StreamInv'
<1>1. reported \in Nat /\ call.total \in Nat /\ given \in Nat
  BY DEF StreamInv, StreamTypes, Calls
<1>2. CASE Resume
  <2>1. /\ call.at = "resume" /\ io = "none" /\ outbox = <<>> /\ call' = Idle
        /\ UNCHANGED <<made, outbox, taken, io, send, carried, wire, shut>>
    BY <1>2 DEF Resume, Flushed, tcpVars
  <2>2. tls BY <2>1 DEF StreamInv, CallInv, Sized
  <2>3. PICK count : count = Least(reported, call.total) OBVIOUS
  <2>4. reported' = reported - count /\ given' = given + count BY <1>2, <2>3 DEF Resume
  <2>5. count \in Nat /\ count <= reported BY <1>1, <2>3 DEF Least
  <2> QED BY <2>1, <2>2, <2>4, <2>5, ReportKeeps
<1>3. CASE Written
  <2>1. /\ call.at = "last" /\ io = "none" /\ outbox = <<>> /\ call' = Idle
        /\ UNCHANGED <<made, outbox, taken, io, send, carried, wire, shut>>
        /\ given' = given + reported /\ reported' = 0
    BY <1>3 DEF Written, Flushed, tcpVars
  <2>2. tls BY <2>1 DEF StreamInv, CallInv, Sized
  <2>3. reported' = reported - reported /\ reported <= reported BY <1>1, <2>1
  <2> QED BY <1>1, <2>1, <2>2, <2>3, ReportKeeps
<1> QED BY <1>2, <1>3

(* A record of the next octets.                                            *)
LEMMA RecordFacts ==
  ASSUME NEW from \in Nat, NEW count \in Nat
  PROVE  LET x == <<Header>> \o Octets(from + 1, count)
         IN  /\ x \in Seq(Int) /\ Ascending(x)
             /\ \A n : n \in Plain(x) <=> n \in from + 1 .. from + count
<1>1. PICK x : x = <<Header>> \o Octets(from + 1, count) OBVIOUS
<1>2. PICK o : o = Octets(from + 1, count) OBVIOUS
<1>3. o \in Seq(Int) /\ Len(o) = count /\ \A k \in 1 .. count : o[k] = from + k
  <2>1. PICK f \in Nat : f = from + 1 OBVIOUS
  <2>2. o \in Seq(Int) /\ Len(o) = count /\ \A k \in 1 .. count : o[k] = f + k - 1
    BY <1>2, <2>1, Numbers
  <2> QED BY <2>1, <2>2
<1>4. <<Header>> \in Seq(Int) /\ Len(<<Header>>) = 1 /\ <<Header>>[1] = 0 BY DEF Header
<1>5. Plain(<<Header>>) = {} /\ Ascending(<<Header>>) BY <1>4 DEF Plain, Ascending
<1>6. DOMAIN o = 1 .. count BY <1>3, Lengths
<1>7. Ascending(o) BY <1>3, <1>6 DEF Ascending
<1>8. ASSUME NEW n PROVE n \in Plain(o) <=> n \in from + 1 .. from + count
  <2>1. n \in Plain(o) <=> \E k \in 1 .. count : o[k] = n /\ o[k] > 0 BY <1>6 DEF Plain
  <2>2. n \in Plain(o) <=> \E k \in 1 .. count : from + k = n
    <3>1. \A k \in 1 .. count : o[k] = from + k /\ o[k] > 0 BY <1>3
    <3> QED BY <2>1, <3>1
  <2>3. ASSUME n \in from + 1 .. from + count PROVE \E k \in 1 .. count : from + k = n
    <3>1. n - from \in 1 .. count /\ from + (n - from) = n BY <2>3
    <3> QED BY <3>1
  <2>4. ASSUME NEW k \in 1 .. count, from + k = n PROVE n \in from + 1 .. from + count
    BY <2>4
  <2> QED BY <2>2, <2>3, <2>4
<1>9. x \in Seq(Int) BY <1>1, <1>2, <1>3, <1>4, Concats
<1>10. Plain(x) = Plain(<<Header>>) \cup Plain(o) BY <1>1, <1>2, <1>3, <1>4, PlainGrows
<1>11. Ascending(x) BY <1>1, <1>2, <1>3, <1>4, <1>5, <1>7, PlainGrows
<1> QED BY <1>1, <1>5, <1>8, <1>9, <1>10, <1>11

(* The next octets become a record: once, since none is owed.              *)
LEMMA EncryptKeeps ==
  ASSUME Sized, tls' = tls, StreamInv, Encrypt
  PROVE  StreamInv'
<1>1. /\ call.at = "first" /\ io = "none" /\ outbox = <<>>
      /\ UNCHANGED <<given, taken, io, send, carried, wire, shut>>
      /\ call' = [call EXCEPT !.at = "last"]
  BY DEF Encrypt, Flushed, tcpVars
<1>2. tls /\ reported = 0 /\ ~shut BY <1>1 DEF StreamInv, CallInv, Sized, Idle
<1>3. PICK count : count = Least(call.total, WRITE_CHUNK) OBVIOUS
<1>4. count \in Nat /\ given \in Nat
  BY <1>3 DEF Least, Sized, StreamInv, StreamTypes, Calls
<1>5. PICK x : x = <<Header>> \o Octets(given + 1, count) OBVIOUS
<1>6. made' = made \o x /\ outbox' = outbox \o x /\ reported' = count
  BY <1>3, <1>5 DEF Encrypt
<1>7. x \in Seq(Int) /\ Ascending(x) /\ \A n : n \in Plain(x) <=> n \in given + 1 .. given + count
  BY <1>4, <1>5, RecordFacts
<1>8. /\ made' \in Seq(Int) /\ outbox' \in Seq(Int) /\ Base' = Base /\ PartsInv' /\ SendInv'
      /\ \A k \in 1 .. Len(made) : made'[k] = made[k]
  BY <1>1, <1>2, <1>6, <1>7, GrowsKeeps
<1>9. call'.at = "last" /\ call' \in Calls BY <1>1 DEF StreamInv, StreamTypes, Calls
<1>10. StreamTypes' BY <1>1, <1>4, <1>6, <1>8, <1>9 DEF StreamInv, StreamTypes
<1>11. CallInv' BY <1>1, <1>2, <1>9 DEF CallInv
<1>12. OctetsInv'
  <2>1. Plain(made) = 1 .. given /\ Ascending(made)
    <3>1. given + reported = given BY <1>2, <1>4
    <3> QED BY <1>2, <3>1 DEF StreamInv, OctetsInv
  <2>2. made \in Seq(Int) /\ Base = Len(made) BY <1>1, <1>2, FlushedFacts DEF StreamInv, StreamTypes
  <2>3. Plain(made') = Plain(made) \cup Plain(x) BY <1>6, <1>7, <2>2, PlainGrows
  <2>4. \A n : n \in 1 .. given + count <=> n \in 1 .. given \/ n \in given + 1 .. given + count
    BY <1>4
  <2>5. Plain(made') = 1 .. given + count BY <1>7, <2>1, <2>3, <2>4
  <2>6. \A m \in Plain(made) : \A n \in Plain(x) : m < n BY <1>4, <1>7, <2>1
  <2>7. Ascending(made') BY <1>6, <1>7, <2>1, <2>2, <2>6, PlainGrows
  <2>8. \A n \in 1 .. given : \E k \in 1 .. Base : made[k] = n BY <1>2 DEF StreamInv, OctetsInv
  <2>9. \A n \in 1 .. given : \E k \in 1 .. Base' : made'[k] = n BY <1>8, <2>2, <2>8
  <2> QED BY <1>1, <1>6, <2>5, <2>7, <2>9 DEF OctetsInv
<1> QED BY <1>8, <1>10, <1>11, <1>12 DEF StreamInv


(* The reading side queues a record, or the end of the stream is queued.   *)
LEMMA QueueKeeps ==
  ASSUME Sized, tls' = tls, StreamInv, Collect \/ CloseWrite
  PROVE  StreamInv'
<1>1. made \in Seq(Int) /\ Len(made) \in Nat /\ DOMAIN made = 1 .. Len(made)
  BY Lengths DEF StreamInv, StreamTypes
<1>2. CASE Collect
  <2>1. /\ tls /\ made' = made \o <<Ticket>> /\ outbox' = outbox \o <<Ticket>>
        /\ UNCHANGED <<given, call, reported, taken, io, send, carried, wire, shut>>
    BY <1>2 DEF Collect, tcpVars
  <2>2. Ticket \in Int /\ Ticket <= 0 /\ <<Ticket>> \in Seq(Int) BY DEF Ticket
  <2>3. /\ made' \in Seq(Int) /\ outbox' \in Seq(Int) /\ PartsInv' /\ SendInv'
        /\ \A k \in 1 .. Len(made) : made'[k] = made[k]
    BY <2>1, <2>2, GrowsKeeps
  <2>4. OctetsInv' BY <2>1, <2>2, UnitKeeps
  <2>5. StreamTypes' BY <2>1, <2>3 DEF StreamInv, StreamTypes
  <2>6. Closing => Closing'
    <3>1. ASSUME NEW k \in 1 .. Len(made), made[k] = Notify PROVE Closing'
      <4>1. Len(made') = Len(made) + Len(<<Ticket>>) BY <1>1, <2>1, <2>2, Concats
      <4>2. Len(<<Ticket>>) = 1 /\ DOMAIN made' = 1 .. Len(made') BY <2>2, <2>3, Lengths
      <4>3. k \in DOMAIN made' BY <1>1, <4>1, <4>2
      <4> QED BY <2>3, <3>1, <4>3 DEF Closing
    <3> QED BY <1>1, <3>1 DEF Closing
  <2>7. ASSUME shut PROVE \A k \in 1 .. Len(outbox') : outbox'[k] = Ticket
    <3>1. \A k \in 1 .. Len(outbox) : outbox[k] = Ticket BY <2>7 DEF StreamInv, CallInv
    <3>2. outbox \in Seq(Int) /\ Len(outbox) \in Nat BY Lengths DEF StreamInv, StreamTypes
    <3>3. Len(<<Ticket>>) = 1 /\ <<Ticket>>[1] = Ticket OBVIOUS
    <3>4. /\ Len(outbox') = Len(outbox) + 1
          /\ \A k \in 1 .. Len(outbox) : outbox'[k] = outbox[k]
          /\ outbox'[Len(outbox) + 1] = Ticket
      BY <2>1, <2>2, <3>2, <3>3, Concats
    <3> QED BY <3>1, <3>2, <3>4
  <2>8. CallInv'
    <3>1. Closing => Closing' BY <2>6
    <3>2. shut' => \A k \in 1 .. Len(outbox') : outbox'[k] = Ticket BY <2>1, <2>7
    <3> QED BY <2>1, <3>1, <3>2 DEF StreamInv, CallInv
  <2> QED BY <2>3, <2>4, <2>5, <2>8 DEF StreamInv
<1>3. CASE CloseWrite /\ Closing
  <2>1. /\ tls /\ call = Idle /\ ~shut /\ made' = made \o <<>> /\ outbox' = outbox \o <<>>
        /\ call' = [at |-> "close", total |-> 0]
        /\ UNCHANGED <<given, reported, taken, io, send, carried, wire, shut>>
    BY <1>3 DEF CloseWrite, tcpVars
  <2>2. made' = made /\ outbox' = outbox BY <2>1 DEF StreamInv, StreamTypes
  <2>3. call'.at = "close" /\ call' \in Calls BY <2>1 DEF Calls
  <2>4. StreamTypes' BY <2>1, <2>2, <2>3 DEF StreamInv, StreamTypes
  <2>5. SendInv' BY <2>1, <2>2 DEF StreamInv, SendInv
  <2>6. Closing' BY <1>3, <2>2 DEF Closing
  <2>7. CallInv' BY <2>1, <2>3, <2>6 DEF CallInv
  <2> QED BY <2>1, <2>2, <2>4, <2>5, <2>7, QuietKeeps
<1>4. CASE CloseWrite /\ ~Closing
  <2>1. /\ tls /\ call = Idle /\ ~shut /\ made' = made \o <<Notify>>
        /\ outbox' = outbox \o <<Notify>> /\ call' = [at |-> "close", total |-> 0]
        /\ UNCHANGED <<given, reported, taken, io, send, carried, wire, shut>>
    BY <1>4 DEF CloseWrite, tcpVars
  <2>2. Notify \in Int /\ Notify <= 0 /\ <<Notify>> \in Seq(Int) BY DEF Notify
  <2>3. made' \in Seq(Int) /\ outbox' \in Seq(Int) /\ PartsInv' /\ SendInv'
    BY <2>1, <2>2, GrowsKeeps
  <2>4. OctetsInv' BY <2>1, <2>2, UnitKeeps
  <2>5. call'.at = "close" /\ call' \in Calls BY <2>1 DEF Calls
  <2>6. StreamTypes' BY <2>1, <2>3, <2>5 DEF StreamInv, StreamTypes
  <2>7. Closing'
    <3>1. Len(made') = Len(made) + 1 /\ made'[Len(made) + 1] = Notify
      <4>1. Len(<<Notify>>) = 1 /\ <<Notify>>[1] = Notify OBVIOUS
      <4> QED BY <1>1, <2>1, <2>2, <4>1, Concats
    <3>2. Len(made) + 1 \in DOMAIN made' BY <1>1, <2>3, <3>1, Lengths
    <3> QED BY <3>1, <3>2 DEF Closing
  <2>8. CallInv' BY <2>1, <2>5, <2>7 DEF CallInv
  <2> QED BY <2>3, <2>4, <2>6, <2>8 DEF StreamInv
<1> QED BY <1>2, <1>3, <1>4

(* The write side is closed once close_notify and all before it are out.   *)
LEMMA ClosedKeeps ==
  ASSUME Sized, tls' = tls, StreamInv, Closed
  PROVE  StreamInv'
<1>1. /\ call.at = "close" /\ io = "none" /\ outbox = <<>> /\ shut' = TRUE /\ call' = Idle
      /\ UNCHANGED <<given, reported, made, outbox, taken, io, send, carried, wire>>
  BY DEF Closed, Flushed, tlsVars
<1>2. tls /\ Closing BY <1>1 DEF StreamInv, CallInv, Sized
<1>3. send = NoSend BY <1>1, <1>2, FlushedFacts
<1>4. StreamTypes' BY <1>1 DEF StreamInv, StreamTypes, Calls, Idle
<1>5. SendInv' BY <1>1 DEF StreamInv, SendInv
<1>6. CallInv'
  <2>1. Closing' /\ Idle.at = "idle" BY <1>1, <1>2 DEF Closing, Idle
  <2>2. Len(outbox') = 0 /\ \A k \in 1 .. 0 : outbox'[k] = Ticket BY <1>1
  <2> QED BY <1>1, <1>2, <1>3, <2>1, <2>2 DEF CallInv
<1> QED BY <1>1, <1>4, <1>5, <1>6, QuietKeeps

(* StreamInv is inductive.                                                 *)
LEMMA StreamStep ==
  ASSUME StreamInv, [Next]_vars
  PROVE  StreamInv'
<1>0. Sized /\ tls' = tls BY StreamAssumption DEF Sized, StreamInv, StreamTypes, Next, vars
<1>1. CASE UNCHANGED vars
  <2>1. UNCHANGED <<given, call, reported, made, outbox, taken, io, send, carried, wire, shut>>
    BY <1>1 DEF vars
  <2>2. StreamTypes' BY <1>0, <2>1 DEF StreamInv, StreamTypes
  <2>3. SendInv' BY <1>0, <2>1 DEF StreamInv, SendInv
  <2>4. CallInv' BY <1>0, <2>1 DEF StreamInv, CallInv, Closing
  <2> QED BY <1>0, <2>1, <2>2, <2>3, <2>4, QuietKeeps
<1>2. CASE Next
  BY <1>0, <1>2, EnterKeeps, SentKeeps, KernelBlocksKeeps, QueueKeeps, DropKeeps, FlushTakesKeeps,
     ResumeKeeps, EncryptKeeps, ClosedKeeps, WriteKeeps, KernelTakesKeeps
     DEF Next, Step
<1> QED BY <1>1, <1>2

(* What the invariant says of the wire.                                    *)
LEMMA StreamExact ==
  ASSUME Sized, StreamInv
  PROVE  WireExact
<1>1. /\ Len(wire) \in Nat /\ Len(Whole) \in Nat /\ Base \in Int /\ Owed \in Nat
      /\ wire \in Seq(Int) /\ Whole \in Seq(Int) /\ DOMAIN wire = 1 .. Len(wire)
  BY StreamFacts, Lengths DEF StreamInv, StreamTypes
<1>2. 0 + Len(wire) <= Len(Whole) /\ \A k \in 1 .. Len(wire) : wire[k] = Whole[0 + k]
  BY DEF StreamInv, PartsInv, PartOf
<1>3. Len(wire) <= Len(Whole) /\ \A k \in 1 .. Len(wire) : wire[k] = Whole[k] BY <1>1, <1>2
<1>4. wire = SubSeq(Whole, 1, Len(wire))
  <2>1. PICK part : part = SubSeq(Whole, 1, Len(wire)) OBVIOUS
  <2>2. part \in Seq(Int) /\ Len(part) = Len(wire) /\ \A k \in 1 .. Len(wire) : part[k] = Whole[k]
    <3>1. Len(wire) \in 0 .. Len(Whole) BY <1>1, <1>3
    <3> QED BY <1>1, <2>1, <3>1, Cuts
  <2>3. \A k \in 1 .. Len(wire) : wire[k] = part[k] BY <1>3, <2>2
  <2>4. wire = part BY <1>1, <2>2, <2>3, SeqEqual
  <2> QED BY <2>1, <2>4
<1>5. 1 .. Base \subseteq 1 .. Len(wire) BY <1>1 DEF Base
<1>6. ASSUME NEW n \in 1 .. given PROVE n \in Plain(wire)
  <2>1. \E k \in 1 .. Base : Whole[k] = n
    <3>1. CASE tls BY <3>1 DEF StreamInv, OctetsInv, Whole
    <3>2. CASE ~tls
      <4>1. Base = given /\ Whole = Octets(1, MaxPlain) BY <3>2 DEF StreamInv, PartsInv, Whole
      <4>2. MaxPlain \in Nat /\ given \in Nat BY DEF Sized, StreamInv, StreamTypes
      <4>3. Len(Whole) = MaxPlain /\ \A k \in 1 .. MaxPlain : Whole[k] = 1 + k - 1
        BY <4>1, <4>2, Numbers
      <4>4. n \in 1 .. MaxPlain /\ 1 + n - 1 = n BY <1>1, <1>3, <1>5, <4>1, <4>2, <4>3
      <4> QED BY <4>1, <4>3, <4>4
    <3> QED BY <3>1, <3>2
  <2>2. PICK k \in 1 .. Len(wire) : wire[k] = n BY <1>3, <1>5, <2>1
  <2>3. n > 0 BY DEF StreamInv, StreamTypes
  <2> QED BY <1>1, <2>2, <2>3 DEF Plain
<1>7. tls => Plain(made) = 1 .. given + reported /\ Ascending(made) BY DEF StreamInv, OctetsInv
<1>8. ASSUME shut
      PROVE  send = NoSend /\ \A k \in Len(wire) + 1 .. Len(made) : made[k] = Ticket
  <2>1. tls /\ send = NoSend /\ taken = <<>> /\ carried = 0
    BY <1>8 DEF StreamInv, CallInv, SendInv, Idle, Sized
  <2>2. \A k \in 1 .. Len(outbox) : outbox[k] = Ticket BY <1>8 DEF StreamInv, CallInv
  <2>3. Base = Len(wire)
    <3>1. Owed = 0 BY <2>1 DEF Owed, NoSend
    <3> QED BY <1>1, <3>1 DEF Base
  <2>4. Len(taken) = 0 /\ Len(outbox) \in Nat
    BY <2>1, Lengths DEF StreamInv, StreamTypes
  <2>5. /\ Len(made) = Len(wire) + Len(outbox)
        /\ \A k \in 1 .. Len(outbox) : outbox[k] = made[Len(wire) + k]
    <3>1. PartOf(outbox, made, Base + Len(taken)) /\ Len(made) = Base + Len(taken) + Len(outbox)
      BY <2>1 DEF StreamInv, PartsInv
    <3>2. Base + Len(taken) = Len(wire) BY <1>1, <2>3, <2>4
    <3> QED BY <1>1, <2>4, <3>1, <3>2 DEF PartOf
  <2>6. ASSUME NEW k \in Len(wire) + 1 .. Len(made) PROVE made[k] = Ticket
    <3>1. PICK j \in 1 .. Len(outbox) : k = Len(wire) + j
      <4>1. k - Len(wire) \in 1 .. Len(outbox) /\ k = Len(wire) + (k - Len(wire))
        BY <1>1, <2>4, <2>5
      <4> QED BY <4>1
    <3> QED BY <2>2, <2>5, <3>1
  <2> QED BY <2>1, <2>6
<1> QED BY <1>3, <1>4, <1>6, <1>7, <1>8 DEF WireExact

(* However often a write is dropped with its send in flight and begun      *)
(* again with more or fewer octets, the parts of the stream stay where     *)
(* they belong: what was taken, queued, sent or owed begins at its place   *)
(* of the whole (TcpStream::writev, Outbox, Session::writev).              *)
THEOREM StreamInvariant == Spec => []StreamInv
<1>1. Init => StreamInv BY StreamInit, StreamAssumption DEF Sized, Init
<1>2. StreamInv /\ [Next]_vars => StreamInv' BY StreamStep
<1> QED BY <1>1, <1>2, PTL DEF Spec

(* The peer reads every record once, whole and in order, and the octets of *)
(* a bare stream likewise; an octet is encrypted once and reported only    *)
(* once it is out; the end of a session is out with all that was queued    *)
(* before it when the write side is closed.                                *)
THEOREM WireIsExact == Spec => []WireExact
<1>1. StreamInv => WireExact
  BY StreamExact, StreamAssumption DEF Sized, StreamInv, StreamTypes
<1> QED BY <1>1, StreamInvariant, PTL
=============================================================================
