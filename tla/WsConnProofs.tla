---------------------------- MODULE WsConnProofs ----------------------------
(***************************************************************************)
(* Proofs of the safety properties of WsConnProps, for every set of        *)
(* connections, every command and every limit.                             *)
(*                                                                         *)
(* The invariant is local: ConnOk relates the values one connection has,   *)
(* its outbox, its log, its task and its wire, and only the worker's total *)
(* spans connections.  A step of a connection is shown to give it values   *)
(* that satisfy ConnOk again; StepAt turns that into a step of the whole.  *)
(* What a pour does is an induction over the entries it takes: FoldOk      *)
(* states the invariant with a prefix of them applied.                     *)
(***************************************************************************)
EXTENDS WsConnProps, FiniteSetTheorems, SequenceTheorems, NaturalsInduction,
        WellFoundedInduction, TLAPS

-----------------------------------------------------------------------------
(* The values a connection can have.                                       *)
Entries == [kind : Kinds, octets : Nat, n : Nat]
FrameKinds == {"frame", "broadcast", "close", "goaway", "tryagain", "pong"}
Frames == [kind : FrameKinds, n : Nat]
Sessions == {"Open", "CloseSent", "Closed", "Failed"}
Tasks == [session : Sessions, output : Seq(Frames), closing : BOOLEAN, ended : BOOLEAN,
          unreleased : Nat, member : BOOLEAN]
Queues == [entries : Seq(Entries), bytes : Nat, broadcast_bytes : Nat, overflowed : BOOLEAN,
           ending : BOOLEAN, closed : BOOLEAN, passed : BOOLEAN, waker : BOOLEAN]
Steps == {"pour", "seal", "flush", "report", "feed", "read", "parked", "finish", "done"}
Heard == {"data", "ping", "close", "bad"}
Reasons == {"open", "dropped", "timeout", "ended", "closed"}

Content == {"frame", "broadcast"}
Pushed == {"frame"}

-----------------------------------------------------------------------------
(* The places of the entries after the first `from`, and of what the log   *)
(* has of the given kinds.                                                 *)
Rest(es, from, kinds) == {es[k].n : k \in {j \in DOMAIN es : j > from /\ es[j].kind \in kinds}}
InLog(lg, kinds) == {i \in DOMAIN lg : lg[i] \in kinds}
TryAgain(s) == \E i \in DOMAIN s : s[i].kind = "tryagain"

(* A frame that was sent, and an entry that waits, is the one the log has  *)
(* at its place; both are in ascending order.                              *)
Logged(s, lg) ==
  \A i \in DOMAIN s : IsContent(s[i]) => s[i].n \in DOMAIN lg /\ lg[s[i].n] = s[i].kind
Waiting(es, lg) ==
  /\ \A k \in DOMAIN es : es[k].n \in DOMAIN lg /\ lg[es[k].n] = es[k].kind
  /\ \A j, k \in DOMAIN es : j < k => es[j].n < es[k].n
InOrder(s) ==
  \A i, j \in DOMAIN s : i < j /\ IsContent(s[i]) /\ IsContent(s[j]) => s[i].n < s[j].n
Before(s, es, from) ==
  \A n \in Places(s, Content), m \in Rest(es, from, Content) : n < m

Gapless(s, lg, kinds) ==
  \A n \in Places(s, kinds), m \in InLog(lg, kinds) : m < n => m \in Places(s, kinds)
Whole(s, es, from, lg, kinds) ==
  InLog(lg, kinds) \subseteq Places(s, kinds) \cup Rest(es, from, kinds)

(* Where `from` of the entries es are applied and s is what was sent: the  *)
(* peer takes part (live), and a session that sent its Close or an ended   *)
(* connection has nothing left to apply.                                   *)
OrderOk(s, es, from, lg) ==
  Logged(s, lg) /\ Waiting(es, lg) /\ InOrder(s) /\ Before(s, es, from)
KeepOk(s, es, from, lg, bh, live) ==
  /\ TryAgain(s) => bh
  /\ ~bh => Gapless(s, lg, Content) /\ (live => Whole(s, es, from, lg, Content))
  /\ ~TryAgain(s) => Gapless(s, lg, Pushed) /\ (live => Whole(s, es, from, lg, Pushed))
EndOk(s, es, from, ss, nd, refusing) ==
  /\ (ss = "CloseSent" \/ nd) /\ ~TryAgain(s) => from >= Len(es) /\ refusing
  /\ \A k \in DOMAIN es : ends(es[k]) => refusing /\ k = Len(es)
ClosesOk(s, ss) ==
  /\ \A i, j \in DOMAIN s : i < j /\ IsClose(s[i]) => ~IsClose(s[j]) /\ ~IsContent(s[j])
  /\ ss = "Open" => \A i \in DOMAIN s : ~IsClose(s[i])

Live(ss, y) == ss \in {"Open", "CloseSent"} /\ y # "dropped"
Refusing(q) == q.closed \/ q.ending

FoldOk(w, u, es, from, lg, bh, y, refusing) ==
  LET s == w \o u.output
  IN  /\ OrderOk(s, es, from, lg)
      /\ KeepOk(s, es, from, lg, bh, Live(u.session, y))
      /\ EndOk(s, es, from, u.session, u.ended, refusing)
      /\ ClosesOk(s, u.session)
      /\ u.closing => u.session # "Open"

(* What the outbox counts.                                                 *)
CountOk(q, unrel, p) ==
  /\ q.bytes <= HighWater * LimitFactor
  /\ p # "done" => q.bytes = Octets(q.entries, TRUE) + unrel
  /\ p = "done" => q.bytes = 0 /\ q.closed /\ q.entries = <<>>
  /\ q.broadcast_bytes = Octets(q.entries, FALSE)
  /\ q.broadcast_bytes <= InboxLimit
  /\ q.passed => q.bytes * 2 >= HighWater /\ p # "done"

ConnTypes(q, lg, bh, t, w, p, y, i) ==
  /\ q \in Queues /\ lg \in Seq(Kinds) /\ bh \in BOOLEAN /\ t \in Tasks /\ w \in Seq(Frames)
  /\ p \in Steps /\ y \in Reasons /\ i \in Seq(Heard)
StepOk(q, bh, t, p, y, i) ==
  /\ q.overflowed => bh
  /\ p = "finish" => y = "dropped" \/ t.ended \/ t.session # "Open"
  /\ p \notin {"finish", "done"} => y = "open"
  /\ p = "feed" => i # <<>>

ConnOk(q, lg, bh, t, w, p, y, i) ==
  /\ ConnTypes(q, lg, bh, t, w, p, y, i)
  /\ FoldOk(w, t, q.entries, 0, lg, bh, y, Refusing(q))
  /\ CountOk(q, t.unreleased, p)
  /\ StepOk(q, bh, t, p, y, i)

Local(c) == ConnOk(queue[c], log[c], behind[c], TaskOf(c), wire[c], pc[c], why[c], input[c])

WsTypes ==
  /\ queue \in [Conn -> Queues] /\ log \in [Conn -> Seq(Kinds)] /\ behind \in [Conn -> BOOLEAN]
  /\ session \in [Conn -> Sessions] /\ output \in [Conn -> Seq(Frames)]
  /\ closing \in [Conn -> BOOLEAN] /\ ended \in [Conn -> BOOLEAN] /\ unreleased \in [Conn -> Nat]
  /\ member \in [Conn -> BOOLEAN] /\ wire \in [Conn -> Seq(Frames)] /\ pc \in [Conn -> Steps]
  /\ why \in [Conn -> Reasons] /\ input \in [Conn -> Seq(Heard)]

TotalOk == total = Cardinality(Counted) /\ total <= TotalLimit

(* The inductive invariant.                                                *)
WsInv == WsTypes /\ TotalOk /\ \A c \in Conn : Local(c)


-----------------------------------------------------------------------------
(* Recursion and induction over the places of a sequence.                  *)

(* A set of naturals that is not empty has a least member.                 *)
LEMMA LeastNat ==
  ASSUME NEW T \in SUBSET Nat, T # {}
  PROVE  \E m \in T : \A k \in T : m <= k
<1>1. PICK R : R = OpToRel(<, Nat) OBVIOUS
<1>2. IsWellFoundedOn(R, Nat) BY <1>1, NatLessThanWellFounded
<1>3. PICK m \in T : \A y \in T : ~(<<y, m>> \in R) BY <1>2, WFMin
<1>4. \A y \in Nat : y < m => <<y, m>> \in R BY <1>1 DEF OpToRel
<1>5. \A y \in T : y \in Nat /\ m \in Nat /\ ~(y < m) BY <1>3, <1>4
<1>6. \A y \in T : m <= y BY <1>5
<1> QED BY <1>6

(* A set that holds 0 and, up to n, the successor of each of its members   *)
(* holds everything up to n.                                               *)
LEMMA UpTo ==
  ASSUME NEW n \in Nat, NEW S, 0 \in S, \A k \in 1 .. n : k - 1 \in S => k \in S
  PROVE  \A k \in 0 .. n : k \in S
<1>1. SUFFICES ASSUME (0 .. n) \ S # {} PROVE FALSE OBVIOUS
<1>2. PICK m \in (0 .. n) \ S : \A k \in (0 .. n) \ S : m <= k
  <2>1. (0 .. n) \ S \in SUBSET Nat OBVIOUS
  <2> QED BY <1>1, <2>1, LeastNat, Zenon
<1>3. m \in 1 .. n BY <1>2
<1>4. m - 1 \in 0 .. n /\ ~(m <= m - 1) BY <1>3
<1>5. m - 1 \in S BY <1>2, <1>4
<1> QED BY <1>2, <1>3, <1>5

(* The step functions over n places, and a trace of one.                   *)
Stepper(V, n) == [V \X (1 .. n) -> V]
HasTrace(V, b, n, st) ==
  \E f \in [0 .. n -> V] : f[0] = b /\ \A k \in 1 .. n : f[k] = st[<<f[k - 1], k>>]
(* A step function has a trace from any start.                             *)
LEMMA Trace ==
  ASSUME NEW V, NEW b \in V, NEW n \in Nat, NEW st \in Stepper(V, n)
  PROVE  HasTrace(V, b, n, st)
<1>0. st \in [V \X (1 .. n) -> V] BY DEF Stepper
<1> DEFINE S == {m \in 0 .. n : \E f \in [0 .. n -> V] :
                   f[0] = b /\ \A k \in 1 .. m : f[k] = st[<<f[k - 1], k>>]}
<1>1. 0 \in S
  <2>1. PICK f : f = [k \in 0 .. n |-> b] OBVIOUS
  <2>2. f \in [0 .. n -> V] /\ f[0] = b BY <2>1
  <2> QED BY <2>2
<1>2. ASSUME NEW m \in 1 .. n, m - 1 \in S PROVE m \in S
  <2>1. PICK f \in [0 .. n -> V] :
          f[0] = b /\ \A k \in 1 .. m - 1 : f[k] = st[<<f[k - 1], k>>]
    BY <1>2
  <2>2. m - 1 \in 0 .. n OBVIOUS
  <2>3. st[<<f[m - 1], m>>] \in V BY <1>0, <2>1, <2>2
  <2>4. PICK g : g = [f EXCEPT ![m] = st[<<f[m - 1], m>>]] OBVIOUS
  <2>5. g \in [0 .. n -> V] BY <2>1, <2>3, <2>4
  <2>6. g[m] = st[<<f[m - 1], m>>] /\ \A k \in 0 .. n : k # m => g[k] = f[k]
    BY <2>1, <2>4
  <2>7. g[0] = b BY <2>1, <2>6
  <2>8. \A k \in 1 .. m : g[k] = st[<<g[k - 1], k>>]
    <3>1. SUFFICES ASSUME NEW k \in 1 .. m PROVE g[k] = st[<<g[k - 1], k>>] OBVIOUS
    <3>2. k - 1 \in 0 .. n /\ k - 1 # m /\ k \in 0 .. n OBVIOUS
    <3>3. g[k - 1] = f[k - 1] BY <2>6, <3>2
    <3>4. CASE k = m BY <2>6, <3>3, <3>4
    <3>5. CASE k # m
      <4>1. k \in 1 .. m - 1 BY <3>5
      <4>2. g[k] = f[k] BY <2>6, <3>2, <3>5
      <4> QED BY <2>1, <3>3, <4>1, <4>2
    <3> QED BY <3>4, <3>5
  <2> QED BY <2>5, <2>7, <2>8
<1> HIDE DEF S
<1>3. n \in S
  <2>1. n \in 0 .. n OBVIOUS
  <2> QED BY <1>1, <1>2, <2>1, UpTo
<1> QED BY <1>3 DEF S, HasTrace

-----------------------------------------------------------------------------
(* The octets of entries.                                                  *)

Weight(e, sent) == IF IsSent(e) = sent THEN e.octets ELSE 0

(* The weight of an entry is a natural number.                             *)
LEMMA WeightNat ==
  ASSUME NEW e \in Entries, NEW sent \in BOOLEAN
  PROVE  Weight(e, sent) \in Nat
BY DEF Weight, Entries

(* Octets adds up the weights of the entries.                              *)
LEMMA OctetsTrace ==
  ASSUME NEW es \in Seq(Entries), NEW sent \in BOOLEAN
  PROVE  \E f \in [0 .. Len(es) -> Nat] :
           /\ f[0] = 0
           /\ \A k \in 1 .. Len(es) : f[k] = f[k - 1] + Weight(es[k], sent)
           /\ Octets(es, sent) = f[Len(es)]
<1>1. PICK n : n = Len(es) OBVIOUS
<1>2. n \in Nat BY <1>1
<1>3. PICK st : st = [p \in Nat \X (1 .. n) |-> p[1] + Weight(es[p[2]], sent)] OBVIOUS
<1>4. \A k \in 1 .. n : Weight(es[k], sent) \in Nat BY <1>1, WeightNat
<1>5. st \in [Nat \X (1 .. n) -> Nat] BY <1>3, <1>4
<1>6. PICK f \in [0 .. n -> Nat] : f[0] = 0 /\ \A k \in 1 .. n : f[k] = st[<<f[k - 1], k>>]
  <2>1. st \in Stepper(Nat, n) BY <1>5 DEF Stepper
  <2>2. HasTrace(Nat, 0, n, st) BY <1>2, <2>1, Trace
  <2> QED BY <2>2 DEF HasTrace
<1>7. \A k \in 1 .. n : f[k] = f[k - 1] + Weight(es[k], sent)
  <2>1. SUFFICES ASSUME NEW k \in 1 .. n PROVE f[k] = f[k - 1] + Weight(es[k], sent) OBVIOUS
  <2>2. k - 1 \in 0 .. n BY <1>2
  <2>3. <<f[k - 1], k>> \in Nat \X (1 .. n) BY <2>2
  <2> QED BY <1>3, <1>6, <2>3
<1> DEFINE Sums(h) == h = [k \in 0 .. n |->
                             IF k = 0 THEN 0
                             ELSE IF IsSent(es[k]) = sent THEN h[k - 1] + es[k].octets ELSE h[k - 1]]
<1>8. \A k \in 0 .. n : f[k] = IF k = 0 THEN 0
                               ELSE IF IsSent(es[k]) = sent THEN f[k - 1] + es[k].octets ELSE f[k - 1]
  <2>1. SUFFICES ASSUME NEW k \in 1 .. n
                 PROVE  f[k] = IF IsSent(es[k]) = sent THEN f[k - 1] + es[k].octets ELSE f[k - 1]
    BY <1>2, <1>6
  <2>2. f[k - 1] \in Nat BY <1>2
  <2> QED BY <1>7, <2>2 DEF Weight
<1>9. Sums(f) BY <1>6, <1>8
<1>10. PICK g : g = CHOOSE h : Sums(h) OBVIOUS
<1>11. Sums(g) BY <1>9, <1>10
<1>12. g[n] = Octets(es, sent) BY <1>1, <1>10 DEF Octets
<1>13. \A k \in 0 .. n : g[k] = f[k]
  <2> DEFINE S == {k \in 0 .. n : g[k] = f[k]}
  <2>1. 0 \in S BY <1>2, <1>6, <1>11
  <2>2. ASSUME NEW k \in 1 .. n, k - 1 \in S PROVE k \in S
    <3>1. g[k - 1] = f[k - 1] BY <2>2
    <3>2. k \in 0 .. n /\ k # 0 BY <1>2
    <3>3. g[k] = IF IsSent(es[k]) = sent THEN g[k - 1] + es[k].octets ELSE g[k - 1]
      BY <1>11, <3>2
    <3>4. f[k] = IF IsSent(es[k]) = sent THEN f[k - 1] + es[k].octets ELSE f[k - 1]
      BY <1>8, <3>2
    <3> QED BY <3>1, <3>2, <3>3, <3>4
  <2> HIDE DEF S
  <2>3. \A k \in 0 .. n : k \in S BY <1>2, <2>1, <2>2, UpTo
  <2> QED BY <2>3 DEF S
<1>14. f[n] = Octets(es, sent) BY <1>2, <1>12, <1>13
<1> QED BY <1>1, <1>6, <1>7, <1>14

(* Octets is a natural number.                                             *)
LEMMA OctetsNat ==
  ASSUME NEW es \in Seq(Entries), NEW sent \in BOOLEAN
  PROVE  Octets(es, sent) \in Nat
<1>1. PICK f \in [0 .. Len(es) -> Nat] : Octets(es, sent) = f[Len(es)] BY OctetsTrace
<1>2. Len(es) \in 0 .. Len(es) OBVIOUS
<1> QED BY <1>1, <1>2

(* No entries have no octets.                                              *)
LEMMA OctetsEmpty ==
  ASSUME NEW sent \in BOOLEAN
  PROVE  Octets(<<>>, sent) = 0
<1>1. PICK es : es = <<>> OBVIOUS
<1>2. es \in Seq(Entries) /\ Len(es) = 0 BY <1>1
<1>3. PICK f \in [0 .. Len(es) -> Nat] : f[0] = 0 /\ Octets(es, sent) = f[Len(es)]
  BY <1>2, OctetsTrace
<1> QED BY <1>1, <1>2, <1>3

(* One more entry adds its weight.                                         *)
LEMMA OctetsAppend ==
  ASSUME NEW es \in Seq(Entries), NEW e \in Entries, NEW sent \in BOOLEAN
  PROVE  Octets(Append(es, e), sent) = Octets(es, sent) + Weight(e, sent)
<1>1. PICK ea : ea = Append(es, e) OBVIOUS
<1>2. PICK n : n = Len(es) OBVIOUS
<1>3. ea \in Seq(Entries) /\ Len(ea) = n + 1 /\ n \in Nat BY <1>1, <1>2
<1>4. ea[n + 1] = e /\ \A k \in 1 .. n : ea[k] = es[k] BY <1>1, <1>2
<1>5. PICK f \in [0 .. n -> Nat] :
        /\ f[0] = 0
        /\ \A k \in 1 .. n : f[k] = f[k - 1] + Weight(es[k], sent)
        /\ Octets(es, sent) = f[n]
  BY <1>2, OctetsTrace
<1>6. PICK g \in [0 .. n + 1 -> Nat] :
        /\ g[0] = 0
        /\ \A k \in 1 .. n + 1 : g[k] = g[k - 1] + Weight(ea[k], sent)
        /\ Octets(ea, sent) = g[n + 1]
  <2>1. \E g \in [0 .. Len(ea) -> Nat] :
          /\ g[0] = 0
          /\ \A k \in 1 .. Len(ea) : g[k] = g[k - 1] + Weight(ea[k], sent)
          /\ Octets(ea, sent) = g[Len(ea)]
    BY <1>3, OctetsTrace
  <2>2. Len(ea) = n + 1 BY <1>3
  <2> QED BY <2>1, <2>2
<1> DEFINE S == {k \in 0 .. n : g[k] = f[k]}
<1>7. 0 \in S BY <1>3, <1>5, <1>6
<1>8. ASSUME NEW k \in 1 .. n, k - 1 \in S PROVE k \in S
  <2>1. g[k - 1] = f[k - 1] BY <1>8
  <2>2. k \in 1 .. n + 1 /\ k \in 0 .. n BY <1>3
  <2>3. g[k] = g[k - 1] + Weight(ea[k], sent) BY <1>6, <2>2
  <2>4. f[k] = f[k - 1] + Weight(es[k], sent) BY <1>5
  <2>5. ea[k] = es[k] BY <1>4
  <2> QED BY <2>1, <2>2, <2>3, <2>4, <2>5
<1> HIDE DEF S
<1>9. \A k \in 0 .. n : k \in S BY <1>3, <1>7, <1>8, UpTo
<1>10. n \in 0 .. n /\ n + 1 \in 1 .. n + 1 /\ (n + 1) - 1 = n BY <1>3
<1>11. g[n] = f[n] BY <1>9, <1>10 DEF S
<1>12. g[n + 1] = g[(n + 1) - 1] + Weight(ea[n + 1], sent) BY <1>6, <1>10
<1>13. g[n + 1] = f[n] + Weight(e, sent) BY <1>4, <1>10, <1>11, <1>12
<1> QED BY <1>1, <1>5, <1>6, <1>13

-----------------------------------------------------------------------------
(* Applying entries.                                                       *)

(* What WebSocket::apply does with one entry: nothing to the session, a    *)
(* frame sent, a Close sent, or the end noted.                             *)
Same(u, v) ==
  v.session = u.session /\ v.output = u.output /\ v.closing = u.closing /\ v.ended = u.ended
Skips(u, e, v) ==
  /\ u.ended \/ (u.session # "Open" /\ e.kind # "end") \/ e.kind \in {"join", "leave"}
  /\ Same(u, v)
SendsFrame(u, e, v) ==
  /\ u.session = "Open" /\ e.kind \in Content
  /\ v.session = u.session /\ v.closing = u.closing /\ v.ended = u.ended
  /\ v.output = Append(u.output, Frame(e.kind, e.n))
SendsClose(u, e, v) ==
  /\ u.session = "Open" /\ e.kind = "close"
  /\ v.session = "CloseSent" /\ v.closing = TRUE /\ v.ended = u.ended
  /\ v.output = Append(u.output, Frame("close", e.n))
NotesEnd(u, e, v) ==
  /\ e.kind = "end"
  /\ v.session = u.session /\ v.output = u.output /\ v.closing = u.closing /\ v.ended = TRUE

(* What a frame is.                                                        *)
LEMMA FrameType ==
  ASSUME NEW kind \in FrameKinds, NEW n \in Nat
  PROVE  Frame(kind, n) \in Frames /\ Frame(kind, n).kind = kind /\ Frame(kind, n).n = n
BY DEF Frame, Frames

(* One entry is skipped, sent, closes the session or ends the connection.  *)
LEMMA ApplyCases ==
  ASSUME NEW u \in Tasks, NEW e \in Entries
  PROVE  /\ apply(u, e) \in Tasks
         /\ apply(u, e).unreleased = u.unreleased + Weight(e, TRUE)
         /\ \/ Skips(u, e, apply(u, e)) \/ SendsFrame(u, e, apply(u, e))
            \/ SendsClose(u, e, apply(u, e)) \/ NotesEnd(u, e, apply(u, e))
<1>1. PICK r : r = IF IsSent(e) THEN [u EXCEPT !.unreleased = @ + e.octets] ELSE u OBVIOUS
<1>2. r \in Tasks /\ r.unreleased = u.unreleased + Weight(e, TRUE) /\ Same(u, r)
  <2>1. CASE IsSent(e)
    <3>1. r = [u EXCEPT !.unreleased = @ + e.octets] BY <1>1, <2>1
    <3>2. e.octets \in Nat BY DEF Entries
    <3>3. Weight(e, TRUE) = e.octets BY <2>1 DEF Weight
    <3>4. r \in Tasks BY <3>1, <3>2 DEF Tasks
    <3>5. r.unreleased = u.unreleased + Weight(e, TRUE) BY <3>1, <3>3 DEF Tasks
    <3>6. Same(u, r) BY <3>1 DEF Tasks, Same
    <3> QED BY <3>4, <3>5, <3>6
  <2>2. CASE ~IsSent(e)
    <3>1. r = u BY <1>1, <2>2
    <3>2. Weight(e, TRUE) = 0 BY <2>2 DEF Weight, IsSent
    <3>3. u.unreleased \in Nat BY DEF Tasks
    <3>4. Same(u, r) BY <3>1 DEF Same
    <3>5. PICK w : w = Weight(e, TRUE) OBVIOUS
    <3>6. w = 0 BY <3>2, <3>5
    <3>7. PICK x \in Nat : x = u.unreleased BY <3>3
    <3>8. x = x + w BY <3>6
    <3>9. u.unreleased = u.unreleased + w BY <3>7, <3>8
    <3> QED BY <3>1, <3>4, <3>5, <3>9
  <2> QED BY <2>1, <2>2
<1>3. e.kind \in Kinds /\ e.n \in Nat BY DEF Entries
<1>4. PICK v : v = apply(u, e) OBVIOUS
<1>5. CASE u.ended
  <2>1. v = r BY <1>1, <1>4, <1>5 DEF apply
  <2>2. Skips(u, e, v) BY <1>2, <1>5, <2>1 DEF Skips
  <2> QED BY <1>2, <1>4, <2>1, <2>2
<1>6. CASE ~u.ended /\ e.kind \in Content
  <2>1. v = SendEncoded(r, e) BY <1>1, <1>4, <1>6 DEF apply, Content
  <2>2. CASE u.session # "Open"
    <3>1. v = r BY <1>2, <2>1, <2>2 DEF SendEncoded, Same
    <3>2. Skips(u, e, v) BY <1>2, <1>6, <2>2, <3>1 DEF Skips, Content
    <3> QED BY <1>2, <1>4, <3>1, <3>2
  <2>3. CASE u.session = "Open"
    <3>1. v = [r EXCEPT !.output = Append(@, Frame(e.kind, e.n))]
      BY <1>2, <2>1, <2>3 DEF SendEncoded, Same
    <3>2. Frame(e.kind, e.n) \in Frames BY <1>3, <1>6, FrameType DEF Content, FrameKinds
    <3>3. v \in Tasks
      <4>1. PICK o : o = Append(r.output, Frame(e.kind, e.n)) OBVIOUS
      <4>2. r.output \in Seq(Frames) BY <1>2 DEF Tasks
      <4>3. o \in Seq(Frames) BY <3>2, <4>1, <4>2
      <4>4. v = [r EXCEPT !.output = o] BY <3>1, <4>1
      <4> QED BY <1>2, <4>3, <4>4 DEF Tasks
    <3>4. SendsFrame(u, e, v) BY <1>2, <1>6, <2>3, <3>1 DEF SendsFrame, Same, Tasks
    <3>5. v.unreleased = r.unreleased BY <1>2, <3>1 DEF Tasks
    <3> QED BY <1>2, <1>4, <3>3, <3>4, <3>5
  <2> QED BY <2>2, <2>3
<1>7. CASE ~u.ended /\ e.kind = "close"
  <2>1. v = CloseSession(r, Frame("close", e.n)) BY <1>1, <1>4, <1>7 DEF apply
  <2>2. CASE u.session # "Open"
    <3>1. v = r BY <1>2, <2>1, <2>2 DEF CloseSession, Same
    <3>2. Skips(u, e, v) BY <1>2, <1>7, <2>2, <3>1 DEF Skips
    <3> QED BY <1>2, <1>4, <3>1, <3>2
  <2>3. CASE u.session = "Open"
    <3>1. v = [r EXCEPT !.session = "CloseSent", !.closing = TRUE,
                        !.output = Append(@, Frame("close", e.n))]
      BY <1>2, <2>1, <2>3 DEF CloseSession, Same
    <3>2. Frame("close", e.n) \in Frames BY <1>3, FrameType DEF FrameKinds
    <3>3. v \in Tasks
      <4>1. PICK o : o = Append(r.output, Frame("close", e.n)) OBVIOUS
      <4>2. r.output \in Seq(Frames) BY <1>2 DEF Tasks
      <4>3. o \in Seq(Frames) BY <3>2, <4>1, <4>2
      <4>4. v = [r EXCEPT !.session = "CloseSent", !.closing = TRUE, !.output = o] BY <3>1, <4>1
      <4> QED BY <1>2, <4>3, <4>4 DEF Tasks, Sessions
    <3>4. SendsClose(u, e, v) BY <1>2, <1>7, <2>3, <3>1 DEF SendsClose, Same, Tasks
    <3>5. v.unreleased = r.unreleased BY <1>2, <3>1 DEF Tasks
    <3> QED BY <1>2, <1>4, <3>3, <3>4, <3>5
  <2> QED BY <2>2, <2>3
<1>8. CASE ~u.ended /\ e.kind = "end"
  <2>1. v = [r EXCEPT !.ended = TRUE] BY <1>1, <1>4, <1>8 DEF apply
  <2>2. v \in Tasks BY <1>2, <2>1 DEF Tasks
  <2>3. NotesEnd(u, e, v) BY <1>2, <1>8, <2>1 DEF NotesEnd, Same, Tasks
  <2>4. v.unreleased = r.unreleased BY <1>2, <2>1 DEF Tasks
  <2> QED BY <1>2, <1>4, <2>2, <2>3, <2>4
<1>9. CASE ~u.ended /\ e.kind \in {"join", "leave"}
  <2>1. v = [r EXCEPT !.member = TRUE] \/ v = [r EXCEPT !.member = FALSE]
    BY <1>1, <1>4, <1>9 DEF apply
  <2>2. v \in Tasks BY <1>2, <2>1 DEF Tasks
  <2>3. Same(r, v) BY <1>2, <2>1 DEF Same, Tasks
  <2>4. Skips(u, e, v) BY <1>2, <1>9, <2>3 DEF Skips, Same
  <2>5. v.unreleased = r.unreleased BY <1>2, <2>1 DEF Tasks
  <2> QED BY <1>2, <1>4, <2>2, <2>4, <2>5
<1> QED BY <1>3, <1>5, <1>6, <1>7, <1>8, <1>9 DEF Kinds, Content

(* What holds at the start and is kept by each entry holds after all.      *)
LEMMA ApplyInduction ==
  ASSUME NEW t \in Tasks, NEW es \in Seq(Entries), NEW G, <<0, t>> \in G,
         \A k \in 1 .. Len(es), u \in Tasks :
           <<k - 1, u>> \in G => <<k, apply(u, es[k])>> \in G
  PROVE  ApplyAll(t, es) \in Tasks /\ <<Len(es), ApplyAll(t, es)>> \in G
<1>1. PICK n : n = Len(es) OBVIOUS
<1>2. n \in Nat BY <1>1
<1>3. PICK st : st = [p \in Tasks \X (1 .. n) |-> apply(p[1], es[p[2]])] OBVIOUS
<1>4. \A k \in 1 .. n : es[k] \in Entries BY <1>1
<1>5. st \in Stepper(Tasks, n) BY <1>3, <1>4, ApplyCases DEF Stepper
<1>6. HasTrace(Tasks, t, n, st) BY <1>2, <1>5, Trace
<1>7. PICK f \in [0 .. n -> Tasks] : f[0] = t /\ \A k \in 1 .. n : f[k] = st[<<f[k - 1], k>>]
  BY <1>6 DEF HasTrace
<1> DEFINE Follows(h) == h = [k \in 0 .. n |-> IF k = 0 THEN t ELSE apply(h[k - 1], es[k])]
<1>8. \A k \in 1 .. n : f[k] = apply(f[k - 1], es[k])
  <2>1. SUFFICES ASSUME NEW k \in 1 .. n PROVE f[k] = apply(f[k - 1], es[k]) OBVIOUS
  <2>2. k - 1 \in 0 .. n BY <1>2
  <2>3. <<f[k - 1], k>> \in Tasks \X (1 .. n) BY <2>2
  <2> QED BY <1>3, <1>7, <2>3
<1>9. Follows(f) BY <1>7, <1>8
<1>10. PICK g : g = CHOOSE h : Follows(h) OBVIOUS
<1>11. Follows(g) BY <1>9, <1>10
<1>12. g[n] = ApplyAll(t, es) BY <1>1, <1>10 DEF ApplyAll
<1> DEFINE S == {k \in 0 .. n : g[k] \in Tasks /\ <<k, g[k]>> \in G}
<1>13. 0 \in S BY <1>2, <1>11
<1>14. ASSUME NEW k \in 1 .. n, k - 1 \in S PROVE k \in S
  <2>1. g[k - 1] \in Tasks /\ <<k - 1, g[k - 1]>> \in G BY <1>14
  <2>2. k \in 0 .. n /\ k # 0 BY <1>2
  <2>3. g[k] = apply(g[k - 1], es[k]) BY <1>11, <2>2
  <2>4. <<k, g[k]>> \in G BY <1>1, <2>1, <2>3
  <2>5. g[k] \in Tasks BY <1>4, <2>1, <2>3, ApplyCases
  <2> QED BY <2>2, <2>4, <2>5
<1> HIDE DEF S
<1>15. \A k \in 0 .. n : k \in S BY <1>2, <1>13, <1>14, UpTo
<1>16. n \in 0 .. n BY <1>2
<1> QED BY <1>1, <1>12, <1>15, <1>16 DEF S

(* The octets of the pushed entries are what applying them adds to what    *)
(* the connection has to release.                                          *)
LEMMA ApplyReleases ==
  ASSUME NEW t \in Tasks, NEW es \in Seq(Entries)
  PROVE  /\ ApplyAll(t, es) \in Tasks
         /\ ApplyAll(t, es).unreleased = t.unreleased + Octets(es, TRUE)
<1>1. PICK f \in [0 .. Len(es) -> Nat] :
        /\ f[0] = 0
        /\ \A k \in 1 .. Len(es) : f[k] = f[k - 1] + Weight(es[k], TRUE)
        /\ Octets(es, TRUE) = f[Len(es)]
  BY OctetsTrace
<1> DEFINE G == {p \in Nat \X Tasks : p[2].unreleased = t.unreleased + f[p[1]]}
<1>2. <<0, t>> \in G
  <2>1. t.unreleased \in Nat BY DEF Tasks
  <2>2. t.unreleased = t.unreleased + f[0] BY <1>1, <2>1
  <2> QED BY <2>2
<1>3. ASSUME NEW k \in 1 .. Len(es), NEW u \in Tasks, <<k - 1, u>> \in G
      PROVE  <<k, apply(u, es[k])>> \in G
  <2>1. u.unreleased = t.unreleased + f[k - 1] BY <1>3
  <2>2. es[k] \in Entries /\ k - 1 \in 0 .. Len(es) /\ k \in 0 .. Len(es) OBVIOUS
  <2>3. PICK v : v = apply(u, es[k]) OBVIOUS
  <2>4. v \in Tasks /\ v.unreleased = u.unreleased + Weight(es[k], TRUE)
    BY <2>2, <2>3, ApplyCases
  <2>5. f[k] = f[k - 1] + Weight(es[k], TRUE) BY <1>1
  <2>6. t.unreleased \in Nat /\ f[k - 1] \in Nat /\ Weight(es[k], TRUE) \in Nat
    BY <2>2, WeightNat DEF Tasks
  <2>7. v.unreleased = t.unreleased + f[k] BY <2>1, <2>4, <2>5, <2>6
  <2>8. k \in Nat OBVIOUS
  <2> QED BY <2>3, <2>4, <2>7, <2>8
<1> HIDE DEF G
<1>4. ApplyAll(t, es) \in Tasks /\ <<Len(es), ApplyAll(t, es)>> \in G
  BY <1>2, <1>3, ApplyInduction
<1>5. PICK v : v = ApplyAll(t, es) OBVIOUS
<1>6. v.unreleased = t.unreleased + f[Len(es)] BY <1>4, <1>5 DEF G
<1> QED BY <1>1, <1>4, <1>5, <1>6

-----------------------------------------------------------------------------
(* Dropping the broadcasts that wait.                                      *)
Retain(r, e) == IF IsSent(e) THEN Append(r, e) ELSE r

(* What holds of no entries and is kept by each one holds of the retained. *)
LEMMA RetainInduction ==
  ASSUME NEW es \in Seq(Entries), NEW G, <<0, <<>>>> \in G,
         \A k \in 1 .. Len(es), r \in Seq(Entries) :
           <<k - 1, r>> \in G => <<k, Retain(r, es[k])>> \in G
  PROVE  retained(es) \in Seq(Entries) /\ <<Len(es), retained(es)>> \in G
<1>1. PICK n : n = Len(es) OBVIOUS
<1>2. n \in Nat BY <1>1
<1>3. PICK V, b : V = Seq(Entries) /\ b = <<>> OBVIOUS
<1>4. PICK st : st = [p \in V \X (1 .. n) |-> Retain(p[1], es[p[2]])] OBVIOUS
<1>5. \A k \in 1 .. n : es[k] \in Entries BY <1>1
<1>6. b \in V /\ \A r \in V, e \in Entries : Retain(r, e) \in V BY <1>3 DEF Retain
<1>7. st \in Stepper(V, n) BY <1>4, <1>5, <1>6 DEF Stepper
<1>8. HasTrace(V, b, n, st) BY <1>2, <1>6, <1>7, Trace
<1>9. PICK f \in [0 .. n -> V] : f[0] = b /\ \A k \in 1 .. n : f[k] = st[<<f[k - 1], k>>]
  BY <1>8 DEF HasTrace
<1> DEFINE Follows(h) ==
      h = [k \in 0 .. n |-> IF k = 0 THEN <<>>
                            ELSE IF IsSent(es[k]) THEN Append(h[k - 1], es[k]) ELSE h[k - 1]]
<1>10. \A k \in 1 .. n : f[k] = IF IsSent(es[k]) THEN Append(f[k - 1], es[k]) ELSE f[k - 1]
  <2>1. SUFFICES ASSUME NEW k \in 1 .. n PROVE f[k] = Retain(f[k - 1], es[k]) BY DEF Retain
  <2>2. k - 1 \in 0 .. n BY <1>2
  <2>3. <<f[k - 1], k>> \in V \X (1 .. n) BY <2>2
  <2> QED BY <1>4, <1>9, <2>3
<1>11. Follows(f)
  <2>1. f[0] = <<>> BY <1>3, <1>9
  <2>2. \A k \in 0 .. n :
          f[k] = IF k = 0 THEN <<>>
                 ELSE IF IsSent(es[k]) THEN Append(f[k - 1], es[k]) ELSE f[k - 1]
    <3>1. SUFFICES ASSUME NEW k \in 0 .. n, k # 0
                   PROVE  f[k] = IF IsSent(es[k]) THEN Append(f[k - 1], es[k]) ELSE f[k - 1]
      BY <2>1
    <3>2. k \in 1 .. n BY <1>2, <3>1
    <3> QED BY <1>10, <3>2
  <2> QED BY <1>9, <2>2
<1>12. PICK g : g = CHOOSE h : Follows(h) OBVIOUS
<1>13. Follows(g) BY <1>11, <1>12
<1>14. g[n] = retained(es) BY <1>1, <1>12 DEF retained
<1> DEFINE S == {k \in 0 .. n : g[k] \in V /\ <<k, g[k]>> \in G}
<1>15. 0 \in S
  <2>1. 0 \in 0 .. n BY <1>2
  <2>2. g[0] = <<>> BY <1>13, <2>1
  <2>3. g[0] \in V BY <1>3, <1>6, <2>2
  <2>4. <<0, g[0]>> \in G BY <2>2
  <2> QED BY <2>1, <2>3, <2>4
<1>16. ASSUME NEW k \in 1 .. n, k - 1 \in S PROVE k \in S
  <2>1. g[k - 1] \in V /\ <<k - 1, g[k - 1]>> \in G BY <1>16
  <2>2. k \in 0 .. n /\ k # 0 BY <1>2
  <2>3. g[k] = Retain(g[k - 1], es[k]) BY <1>13, <2>2 DEF Retain
  <2>4. <<k, g[k]>> \in G BY <1>1, <1>3, <2>1, <2>3
  <2>5. g[k] \in V BY <1>5, <1>6, <2>1, <2>3
  <2> QED BY <2>2, <2>4, <2>5
<1> HIDE DEF S
<1>17. \A k \in 0 .. n : k \in S BY <1>2, <1>15, <1>16, UpTo
<1>18. n \in 0 .. n BY <1>2
<1> QED BY <1>1, <1>3, <1>14, <1>17, <1>18 DEF S

(* Dropping broadcasts leaves the octets that were pushed.                 *)
LEMMA RetainedOctets ==
  ASSUME NEW es \in Seq(Entries)
  PROVE  /\ retained(es) \in Seq(Entries)
         /\ Octets(retained(es), TRUE) = Octets(es, TRUE)
         /\ Octets(retained(es), FALSE) = 0
<1>1. PICK f \in [0 .. Len(es) -> Nat] :
        /\ f[0] = 0
        /\ \A k \in 1 .. Len(es) : f[k] = f[k - 1] + Weight(es[k], TRUE)
        /\ Octets(es, TRUE) = f[Len(es)]
  BY OctetsTrace
<1> DEFINE G == {p \in Nat \X Seq(Entries) : Octets(p[2], TRUE) = f[p[1]] /\ Octets(p[2], FALSE) = 0}
<1>2. <<0, <<>>>> \in G
  <2>1. PICK r : r = <<>> OBVIOUS
  <2>2. r \in Seq(Entries) /\ Octets(r, TRUE) = 0 /\ Octets(r, FALSE) = 0 BY <2>1, OctetsEmpty
  <2>3. <<0, r>> \in G BY <1>1, <2>2
  <2> QED BY <2>1, <2>3
<1>3. ASSUME NEW k \in 1 .. Len(es), NEW r \in Seq(Entries), <<k - 1, r>> \in G
      PROVE  <<k, Retain(r, es[k])>> \in G
  <2>1. Octets(r, TRUE) = f[k - 1] /\ Octets(r, FALSE) = 0 BY <1>3
  <2>2. es[k] \in Entries /\ k - 1 \in 0 .. Len(es) /\ k \in 0 .. Len(es) /\ k \in Nat OBVIOUS
  <2>3. f[k] = f[k - 1] + Weight(es[k], TRUE) /\ f[k - 1] \in Nat BY <1>1, <2>2
  <2>4. CASE IsSent(es[k])
    <3>1. PICK ra : ra = Append(r, es[k]) OBVIOUS
    <3>2. Retain(r, es[k]) = ra BY <2>4, <3>1 DEF Retain
    <3>3. ra \in Seq(Entries) BY <2>2, <3>1
    <3>4. Octets(ra, TRUE) = f[k] BY <2>1, <2>2, <2>3, <3>1, OctetsAppend
    <3>5. Octets(ra, FALSE) = Octets(r, FALSE) + Weight(es[k], FALSE) BY <2>2, <3>1, OctetsAppend
    <3>6. Weight(es[k], FALSE) = 0 BY <2>4 DEF Weight
    <3>7. Octets(ra, FALSE) = 0 BY <2>1, <3>5, <3>6
    <3> QED BY <2>2, <3>2, <3>3, <3>4, <3>7
  <2>5. CASE ~IsSent(es[k])
    <3>1. Retain(r, es[k]) = r BY <2>5 DEF Retain
    <3>2. Weight(es[k], TRUE) = 0 BY <2>5 DEF Weight, IsSent
    <3>3. f[k] = f[k - 1] + 0 BY <2>3, <3>2
    <3>4. f[k] = f[k - 1] BY <2>3, <3>3
    <3> QED BY <2>1, <2>2, <3>1, <3>4
  <2> QED BY <2>4, <2>5
<1> HIDE DEF G
<1>4. retained(es) \in Seq(Entries) /\ <<Len(es), retained(es)>> \in G
  BY <1>2, <1>3, RetainInduction
<1>5. PICK r : r = retained(es) OBVIOUS
<1>6. Octets(r, TRUE) = f[Len(es)] /\ Octets(r, FALSE) = 0 BY <1>4, <1>5 DEF G
<1> QED BY <1>1, <1>4, <1>5, <1>6

(* Dropping broadcasts leaves what was pushed, in order.                   *)
LEMMA RetainedMembers ==
  ASSUME NEW es \in Seq(Entries), \A j, k \in DOMAIN es : j < k => es[j].n < es[k].n
  PROVE  /\ \A i \in DOMAIN retained(es) : \E k \in DOMAIN es : retained(es)[i] = es[k]
         /\ \A i, j \in DOMAIN retained(es) : i < j => retained(es)[i].n < retained(es)[j].n
         /\ \A k \in DOMAIN es :
              IsSent(es[k]) => \E i \in DOMAIN retained(es) : retained(es)[i] = es[k]
<1> DEFINE In(k, r) == \A i \in DOMAIN r : \E j \in 1 .. k : r[i] = es[j]
           Up(r) == \A i, j \in DOMAIN r : i < j => r[i].n < r[j].n
           Has(k, r) == \A j \in 1 .. k : IsSent(es[j]) => \E i \in DOMAIN r : r[i] = es[j]
           G == {p \in Nat \X Seq(Entries) : In(p[1], p[2]) /\ Up(p[2]) /\ Has(p[1], p[2])}
<1>1. <<0, <<>>>> \in G
  <2>1. PICK r : r = <<>> OBVIOUS
  <2>2. r \in Seq(Entries) /\ DOMAIN r = {} BY <2>1
  <2>3. In(0, r) /\ Up(r) /\ Has(0, r) BY <2>2
  <2>4. <<0, r>> \in G BY <2>2, <2>3
  <2> QED BY <2>1, <2>4
<1>2. ASSUME NEW k \in 1 .. Len(es), NEW r \in Seq(Entries), <<k - 1, r>> \in G
      PROVE  <<k, Retain(r, es[k])>> \in G
  <2>1. In(k - 1, r) /\ Up(r) /\ Has(k - 1, r) BY <1>2
  <2>2. es[k] \in Entries /\ k \in Nat /\ k \in 1 .. k /\ k \in DOMAIN es OBVIOUS
  <2>3. \A j \in 1 .. k - 1 : j \in 1 .. k /\ j < k /\ j \in DOMAIN es OBVIOUS
  <2>4. \A j \in 1 .. k : j = k \/ j \in 1 .. k - 1 OBVIOUS
  <2>5. CASE IsSent(es[k])
    <3>1. PICK ra : ra = Append(r, es[k]) OBVIOUS
    <3>2. Retain(r, es[k]) = ra BY <2>5, <3>1 DEF Retain
    <3>3. PICK m : m = Len(r) OBVIOUS
    <3>4. m \in Nat /\ DOMAIN r = 1 .. m /\ DOMAIN ra = 1 .. m + 1 /\ ra \in Seq(Entries)
      BY <2>2, <3>1, <3>3
    <3>5. ra[m + 1] = es[k] /\ \A i \in 1 .. m : ra[i] = r[i] BY <2>2, <3>1, <3>3
    <3>6. \A i \in DOMAIN ra : i = m + 1 \/ i \in DOMAIN r BY <3>4
    <3>7. In(k, ra) BY <2>1, <2>2, <2>3, <3>4, <3>5, <3>6
    <3>8. \A i \in DOMAIN r : r[i].n < es[k].n BY <2>1, <2>2, <2>3
    <3>9. Up(ra)
      <4>1. SUFFICES ASSUME NEW i \in DOMAIN ra, NEW j \in DOMAIN ra, i < j
                     PROVE  ra[i].n < ra[j].n
        OBVIOUS
      <4>2. i \in DOMAIN r /\ ra[i] = r[i] BY <3>4, <3>5, <4>1
      <4>3. CASE j = m + 1 BY <3>5, <3>8, <4>2, <4>3
      <4>4. CASE j \in DOMAIN r BY <2>1, <3>4, <3>5, <4>1, <4>2, <4>4
      <4> QED BY <3>6, <4>3, <4>4
    <3>10. m + 1 \in DOMAIN ra /\ \A i \in DOMAIN r : i \in DOMAIN ra /\ ra[i] = r[i]
      BY <3>4, <3>5
    <3>11. Has(k, ra) BY <2>1, <2>4, <3>5, <3>10
    <3> QED BY <2>2, <3>2, <3>4, <3>7, <3>9, <3>11
  <2>6. CASE ~IsSent(es[k])
    <3>1. Retain(r, es[k]) = r BY <2>6 DEF Retain
    <3>2. In(k, r) BY <2>1, <2>3
    <3>3. Has(k, r) BY <2>1, <2>4, <2>6
    <3> QED BY <2>1, <2>2, <3>1, <3>2, <3>3
  <2> QED BY <2>5, <2>6
<1> HIDE DEF G
<1>3. retained(es) \in Seq(Entries) /\ <<Len(es), retained(es)>> \in G
  BY <1>1, <1>2, RetainInduction
<1>4. PICK r : r = retained(es) OBVIOUS
<1>5. In(Len(es), r) /\ Up(r) /\ Has(Len(es), r) BY <1>3, <1>4 DEF G
<1>6. DOMAIN es = 1 .. Len(es) OBVIOUS
<1> QED BY <1>4, <1>5, <1>6

-----------------------------------------------------------------------------
(* What one more frame, or one entry less, does to the parts of FoldOk.    *)

(* The frames of a sequence with one more.                                 *)
LEMMA AppendFacts ==
  ASSUME NEW s \in Seq(Frames), NEW f \in Frames
  PROVE  /\ Append(s, f) \in Seq(Frames)
         /\ Len(s) \in Nat /\ DOMAIN s = 1 .. Len(s) /\ DOMAIN Append(s, f) = 1 .. Len(s) + 1
         /\ Append(s, f)[Len(s) + 1] = f
         /\ \A i \in DOMAIN s : i \in DOMAIN Append(s, f) /\ i < Len(s) + 1 /\ Append(s, f)[i] = s[i]
         /\ \A i \in DOMAIN Append(s, f) : i = Len(s) + 1 \/ i \in DOMAIN s
OBVIOUS

(* Its places are those of the sequence and the frame's.                   *)
LEMMA PlacesAppend ==
  ASSUME NEW s \in Seq(Frames), NEW f \in Frames, NEW kinds
  PROVE  /\ f.kind \in kinds => Places(Append(s, f), kinds) = Places(s, kinds) \cup {f.n}
         /\ f.kind \notin kinds => Places(Append(s, f), kinds) = Places(s, kinds)
<1>1. PICK s1, n : s1 = Append(s, f) /\ n = Len(s) OBVIOUS
<1>2. /\ n \in Nat /\ DOMAIN s1 = 1 .. n + 1 /\ s1[n + 1] = f
      /\ \A i \in DOMAIN s : i \in DOMAIN s1 /\ s1[i] = s[i]
      /\ \A i \in DOMAIN s1 : i = n + 1 \/ i \in DOMAIN s
  BY <1>1, AppendFacts
<1>3. n + 1 \in DOMAIN s1 BY <1>2
<1>4. Places(s, kinds) \subseteq Places(s1, kinds)
  <2>1. SUFFICES ASSUME NEW i \in DOMAIN s, s[i].kind \in kinds PROVE s[i].n \in Places(s1, kinds)
    BY DEF Places
  <2> QED BY <1>2, <2>1 DEF Places
<1>5. f.kind \in kinds => f.n \in Places(s1, kinds) BY <1>2, <1>3 DEF Places
<1>6. ASSUME NEW i \in DOMAIN s1, s1[i].kind \in kinds
      PROVE  s1[i].n \in Places(s, kinds) \/ (s1[i].n = f.n /\ f.kind \in kinds)
  <2>1. CASE i = n + 1 BY <1>2, <1>6, <2>1
  <2>2. CASE i \in DOMAIN s BY <1>2, <1>6, <2>2 DEF Places
  <2> QED BY <1>2, <2>1, <2>2
<1>7. \A m \in Places(s1, kinds) : m \in Places(s, kinds) \/ (m = f.n /\ f.kind \in kinds)
  BY <1>6 DEF Places
<1> QED BY <1>1, <1>4, <1>5, <1>7

(* Whether it says to try again.                                           *)
LEMMA TryAgainAppend ==
  ASSUME NEW s \in Seq(Frames), NEW f \in Frames
  PROVE  TryAgain(Append(s, f)) <=> TryAgain(s) \/ f.kind = "tryagain"
<1>1. PICK s1, n : s1 = Append(s, f) /\ n = Len(s) OBVIOUS
<1>2. /\ n \in Nat /\ DOMAIN s1 = 1 .. n + 1 /\ s1[n + 1] = f
      /\ \A i \in DOMAIN s : i \in DOMAIN s1 /\ s1[i] = s[i]
      /\ \A i \in DOMAIN s1 : i = n + 1 \/ i \in DOMAIN s
  BY <1>1, AppendFacts
<1>3. n + 1 \in DOMAIN s1 BY <1>2
<1> QED BY <1>1, <1>2, <1>3 DEF TryAgain

(* The entries left before and after one is applied.                       *)
LEMMA RestStep ==
  ASSUME NEW es \in Seq(Entries), NEW k \in 1 .. Len(es), NEW kinds
  PROVE  /\ Rest(es, k, kinds) \subseteq Rest(es, k - 1, kinds)
         /\ es[k].kind \in kinds => Rest(es, k - 1, kinds) = Rest(es, k, kinds) \cup {es[k].n}
         /\ es[k].kind \notin kinds => Rest(es, k - 1, kinds) = Rest(es, k, kinds)
<1>1. k \in DOMAIN es /\ k > k - 1 OBVIOUS
<1>2. \A j \in DOMAIN es : j > k => j > k - 1 OBVIOUS
<1>3. \A j \in DOMAIN es : j > k - 1 => j > k \/ j = k OBVIOUS
<1>4. Rest(es, k, kinds) \subseteq Rest(es, k - 1, kinds) BY <1>2 DEF Rest
<1>5. es[k].kind \in kinds => es[k].n \in Rest(es, k - 1, kinds) BY <1>1 DEF Rest
<1>6. \A m \in Rest(es, k - 1, kinds) :
        m \in Rest(es, k, kinds) \/ (m = es[k].n /\ es[k].kind \in kinds)
  BY <1>3 DEF Rest
<1> QED BY <1>4, <1>5, <1>6

(* They come later.                                                        *)
LEMMA RestLater ==
  ASSUME NEW es \in Seq(Entries), NEW k \in 1 .. Len(es), NEW kinds, NEW lg, Waiting(es, lg)
  PROVE  \A m \in Rest(es, k, kinds) : es[k].n < m
<1>1. k \in DOMAIN es OBVIOUS
<1>2. \A j \in DOMAIN es : j > k => es[k].n < es[j].n BY <1>1 DEF Waiting
<1> QED BY <1>2 DEF Rest

(* Order, when an entry is passed over, when its frame is sent and when a  *)
(* frame that carries no content is.                                       *)
LEMMA OrderSkip ==
  ASSUME NEW s, NEW es \in Seq(Entries), NEW k \in 1 .. Len(es), NEW lg, OrderOk(s, es, k - 1, lg)
  PROVE  OrderOk(s, es, k, lg)
BY RestStep DEF OrderOk, Before

(* A frame sent after all of smaller number keeps the sent row in order.   *)
LEMMA OrderAppend ==
  ASSUME NEW s \in Seq(Frames), NEW f \in Frames, NEW lg, Logged(s, lg), InOrder(s),
         IsContent(f) => f.n \in DOMAIN lg /\ lg[f.n] = f.kind
                           /\ \A n \in Places(s, Content) : n < f.n
  PROVE  Logged(Append(s, f), lg) /\ InOrder(Append(s, f))
<1>1. PICK s1, n : s1 = Append(s, f) /\ n = Len(s) OBVIOUS
<1>2. /\ n \in Nat /\ DOMAIN s1 = 1 .. n + 1 /\ DOMAIN s = 1 .. n /\ s1[n + 1] = f
      /\ \A i \in DOMAIN s : i \in DOMAIN s1 /\ s1[i] = s[i]
      /\ \A i \in DOMAIN s1 : i = n + 1 \/ i \in DOMAIN s
  BY <1>1, AppendFacts
<1>3. Logged(s1, lg)
  <2>1. SUFFICES ASSUME NEW i \in DOMAIN s1, IsContent(s1[i])
                 PROVE  s1[i].n \in DOMAIN lg /\ lg[s1[i].n] = s1[i].kind
    BY DEF Logged
  <2>2. CASE i = n + 1 BY <1>2, <2>1, <2>2
  <2>3. CASE i \in DOMAIN s BY <1>2, <2>1, <2>3 DEF Logged
  <2> QED BY <1>2, <2>2, <2>3
<1>4. InOrder(s1)
  <2>1. SUFFICES ASSUME NEW i \in DOMAIN s1, NEW j \in DOMAIN s1, i < j,
                        IsContent(s1[i]), IsContent(s1[j])
                 PROVE  s1[i].n < s1[j].n
    BY DEF InOrder
  <2>2. i \in DOMAIN s /\ s1[i] = s[i] BY <1>2, <2>1
  <2>3. CASE j = n + 1
    <3>1. s[i].n \in Places(s, Content) BY <2>1, <2>2 DEF Places, IsContent, Content
    <3> QED BY <1>2, <2>1, <2>2, <2>3, <3>1
  <2>4. CASE j \in DOMAIN s BY <1>2, <2>1, <2>2, <2>4 DEF InOrder
  <2> QED BY <1>2, <2>3, <2>4
<1> QED BY <1>1, <1>3, <1>4

(* Sending the next entry's own frame keeps the order.                     *)
LEMMA OrderSend ==
  ASSUME NEW s \in Seq(Frames), NEW es \in Seq(Entries), NEW k \in 1 .. Len(es), NEW lg,
         OrderOk(s, es, k - 1, lg), es[k].kind \in Content,
         NEW f \in Frames, f.kind = es[k].kind, f.n = es[k].n
  PROVE  OrderOk(Append(s, f), es, k, lg)
<1>1. Logged(s, lg) /\ Waiting(es, lg) /\ InOrder(s) /\ Before(s, es, k - 1) BY DEF OrderOk
<1>2. k \in DOMAIN es OBVIOUS
<1>3. f.n \in DOMAIN lg /\ lg[f.n] = f.kind BY <1>1, <1>2 DEF Waiting
<1>4. f.n \in Rest(es, k - 1, Content) BY RestStep
<1>5. \A n \in Places(s, Content) : n < f.n BY <1>1, <1>4 DEF Before
<1>6. Logged(Append(s, f), lg) /\ InOrder(Append(s, f)) BY <1>1, <1>3, <1>5, OrderAppend
<1>7. Places(Append(s, f), Content) = Places(s, Content) \cup {f.n} BY PlacesAppend
<1>8. \A m \in Rest(es, k, Content) : f.n < m BY <1>1, RestLater
<1>9. \A n \in Places(s, Content), m \in Rest(es, k, Content) : n < m
  BY <1>1, RestStep DEF Before
<1>10. Before(Append(s, f), es, k) BY <1>7, <1>8, <1>9 DEF Before
<1> QED BY <1>1, <1>6, <1>10 DEF OrderOk

(* A frame that carries no content leaves the order alone.                 *)
LEMMA OrderPlain ==
  ASSUME NEW s \in Seq(Frames), NEW es, NEW from, NEW lg, OrderOk(s, es, from, lg),
         NEW f \in Frames, ~IsContent(f)
  PROVE  OrderOk(Append(s, f), es, from, lg)
<1>1. Logged(s, lg) /\ Waiting(es, lg) /\ InOrder(s) /\ Before(s, es, from) BY DEF OrderOk
<1>2. Logged(Append(s, f), lg) /\ InOrder(Append(s, f)) BY <1>1, OrderAppend
<1>3. Places(Append(s, f), Content) = Places(s, Content)
  BY PlacesAppend DEF IsContent, Content
<1> QED BY <1>1, <1>2, <1>3 DEF OrderOk, Before

(* Nothing is lost when an entry without content, or after a 1013, is      *)
(* passed over.                                                            *)
LEMMA KeepSkip ==
  ASSUME NEW s, NEW es \in Seq(Entries), NEW k \in 1 .. Len(es), NEW lg, NEW bh \in BOOLEAN,
         NEW live \in BOOLEAN, KeepOk(s, es, k - 1, lg, bh, live),
         live => es[k].kind \notin Content \/ TryAgain(s)
  PROVE  KeepOk(s, es, k, lg, bh, live)
<1>1. es[k].kind \notin Content => \A kinds \in {Content, Pushed} :
        Rest(es, k, kinds) = Rest(es, k - 1, kinds)
  BY RestStep DEF Content, Pushed
<1>2. es[k].kind \notin Content => \A kinds \in {Content, Pushed} :
        Whole(s, es, k - 1, lg, kinds) => Whole(s, es, k, lg, kinds)
  BY <1>1 DEF Whole
<1> QED BY <1>2 DEF KeepOk

(* Sending the frame of an entry leaves no gap and loses none.             *)
LEMMA KindSend ==
  ASSUME NEW s \in Seq(Frames), NEW es \in Seq(Entries), NEW k \in 1 .. Len(es),
         NEW lg \in Seq(Kinds), NEW kinds,
         Waiting(es, lg), Gapless(s, lg, kinds), Whole(s, es, k - 1, lg, kinds),
         NEW f \in Frames, f.kind = es[k].kind, f.n = es[k].n
  PROVE  Gapless(Append(s, f), lg, kinds) /\ Whole(Append(s, f), es, k, lg, kinds)
<1>1. CASE es[k].kind \notin kinds
  <2>1. Places(Append(s, f), kinds) = Places(s, kinds) BY <1>1, PlacesAppend
  <2>2. Rest(es, k, kinds) = Rest(es, k - 1, kinds) BY <1>1, RestStep
  <2> QED BY <2>1, <2>2 DEF Gapless, Whole
<1>2. CASE es[k].kind \in kinds
  <2>1. Places(Append(s, f), kinds) = Places(s, kinds) \cup {f.n} BY <1>2, PlacesAppend
  <2>2. Rest(es, k - 1, kinds) = Rest(es, k, kinds) \cup {f.n} BY <1>2, RestStep
  <2>3. Whole(Append(s, f), es, k, lg, kinds) BY <2>1, <2>2 DEF Whole
  <2>4. \A m \in Rest(es, k, kinds) : f.n < m BY RestLater
  <2>5. f.n \in Nat BY DEF Frames
  <2>6. InLog(lg, kinds) \subseteq Nat BY DEF InLog
  <2>7. ASSUME NEW m \in InLog(lg, kinds), m < f.n PROVE m \in Places(s, kinds)
    <3>1. m \in Places(s, kinds) \/ m \in Rest(es, k, kinds) \/ m = f.n BY <2>2 DEF Whole
    <3>2. m # f.n BY <2>5, <2>6, <2>7
    <3>3. m \notin Rest(es, k, kinds) BY <2>4, <2>5, <2>6, <2>7
    <3> QED BY <3>1, <3>2, <3>3
  <2>8. Gapless(Append(s, f), lg, kinds) BY <2>1, <2>7 DEF Gapless
  <2> QED BY <2>3, <2>8
<1> QED BY <1>1, <1>2

(* Sending the next entry's own frame loses nothing.                       *)
LEMMA KeepSend ==
  ASSUME NEW s \in Seq(Frames), NEW es \in Seq(Entries), NEW k \in 1 .. Len(es),
         NEW lg \in Seq(Kinds), NEW bh \in BOOLEAN,
         Waiting(es, lg), KeepOk(s, es, k - 1, lg, bh, TRUE), es[k].kind \in Content,
         NEW f \in Frames, f.kind = es[k].kind, f.n = es[k].n
  PROVE  KeepOk(Append(s, f), es, k, lg, bh, TRUE)
<1>1. TryAgain(Append(s, f)) <=> TryAgain(s) BY TryAgainAppend DEF Content
<1>2. ~bh => Gapless(s, lg, Content) /\ Whole(s, es, k - 1, lg, Content) BY DEF KeepOk
<1>3. ~TryAgain(s) => Gapless(s, lg, Pushed) /\ Whole(s, es, k - 1, lg, Pushed) BY DEF KeepOk
<1>4. ~bh => Gapless(Append(s, f), lg, Content) /\ Whole(Append(s, f), es, k, lg, Content)
  BY <1>2, KindSend
<1>5. ~TryAgain(s) => Gapless(Append(s, f), lg, Pushed) /\ Whole(Append(s, f), es, k, lg, Pushed)
  BY <1>3, KindSend
<1>6. TryAgain(s) => bh BY DEF KeepOk
<1> QED BY <1>1, <1>4, <1>5, <1>6 DEF KeepOk

(* A frame without content, or the end of a session, loses nothing.        *)
LEMMA KeepPlain ==
  ASSUME NEW s \in Seq(Frames), NEW es, NEW from, NEW lg, NEW bh \in BOOLEAN,
         NEW live \in BOOLEAN, NEW live1 \in BOOLEAN,
         KeepOk(s, es, from, lg, bh, live), live1 => live,
         NEW f \in Frames, ~IsContent(f), f.kind = "tryagain" => bh
  PROVE  KeepOk(Append(s, f), es, from, lg, bh, live1)
<1>1. TryAgain(Append(s, f)) <=> TryAgain(s) \/ f.kind = "tryagain" BY TryAgainAppend
<1>2. \A kinds \in {Content, Pushed} : Places(Append(s, f), kinds) = Places(s, kinds)
  BY PlacesAppend DEF IsContent, Content, Pushed
<1>3. \A kinds \in {Content, Pushed} :
        /\ Gapless(s, lg, kinds) => Gapless(Append(s, f), lg, kinds)
        /\ Whole(s, es, from, lg, kinds) => Whole(Append(s, f), es, from, lg, kinds)
  BY <1>2 DEF Gapless, Whole
<1>4. /\ Gapless(s, lg, Content) => Gapless(Append(s, f), lg, Content)
      /\ Whole(s, es, from, lg, Content) => Whole(Append(s, f), es, from, lg, Content)
      /\ Gapless(s, lg, Pushed) => Gapless(Append(s, f), lg, Pushed)
      /\ Whole(s, es, from, lg, Pushed) => Whole(Append(s, f), es, from, lg, Pushed)
  BY <1>3
<1> QED BY <1>1, <1>4 DEF KeepOk

(* One Close at most, and no content after it.                             *)
LEMMA ClosesAppend ==
  ASSUME NEW s \in Seq(Frames), NEW f \in Frames, NEW ss, NEW ss1, ClosesOk(s, ss),
         (IsClose(f) \/ IsContent(f)) => ss = "Open", ss1 = "Open" => ss = "Open" /\ ~IsClose(f)
  PROVE  ClosesOk(Append(s, f), ss1)
<1>1. PICK s1, n : s1 = Append(s, f) /\ n = Len(s) OBVIOUS
<1>2. /\ n \in Nat /\ DOMAIN s1 = 1 .. n + 1 /\ DOMAIN s = 1 .. n /\ s1[n + 1] = f
      /\ \A i \in DOMAIN s : i \in DOMAIN s1 /\ s1[i] = s[i]
      /\ \A i \in DOMAIN s1 : i = n + 1 \/ i \in DOMAIN s
  BY <1>1, AppendFacts
<1>3. ASSUME NEW i \in DOMAIN s1, NEW j \in DOMAIN s1, i < j, IsClose(s1[i])
      PROVE  ~IsClose(s1[j]) /\ ~IsContent(s1[j])
  <2>1. i \in DOMAIN s /\ s1[i] = s[i] BY <1>2, <1>3
  <2>2. CASE j = n + 1
    <3>1. ss # "Open" BY <1>3, <2>1 DEF ClosesOk
    <3> QED BY <1>2, <2>2, <3>1
  <2>3. CASE j \in DOMAIN s BY <1>2, <1>3, <2>1, <2>3 DEF ClosesOk
  <2> QED BY <1>2, <2>2, <2>3
<1>4. ASSUME ss1 = "Open", NEW i \in DOMAIN s1 PROVE ~IsClose(s1[i])
  <2>1. CASE i = n + 1 BY <1>2, <1>4, <2>1
  <2>2. CASE i \in DOMAIN s BY <1>2, <1>4, <2>2 DEF ClosesOk
  <2> QED BY <1>2, <2>1, <2>2
<1> QED BY <1>1, <1>3, <1>4 DEF ClosesOk

(* What was written and what is to be, with one more frame.                *)
LEMMA ConcatAppend ==
  ASSUME NEW w \in Seq(Frames), NEW o \in Seq(Frames), NEW f \in Frames
  PROVE  w \o o \in Seq(Frames) /\ w \o Append(o, f) = Append(w \o o, f)
OBVIOUS

(* One entry applied.                                                      *)
LEMMA FoldStep ==
  ASSUME NEW w \in Seq(Frames), NEW u \in Tasks, NEW es \in Seq(Entries), NEW k \in 1 .. Len(es),
         NEW lg \in Seq(Kinds), NEW bh \in BOOLEAN, NEW y, y # "dropped", NEW refusing \in BOOLEAN,
         FoldOk(w, u, es, k - 1, lg, bh, y, refusing)
  PROVE  FoldOk(w, apply(u, es[k]), es, k, lg, bh, y, refusing)
<1>1. PICK v : v = apply(u, es[k]) OBVIOUS
<1>2. PICK e : e = es[k] OBVIOUS
<1>3. e \in Entries /\ k \in DOMAIN es /\ e.kind \in Kinds /\ e.n \in Nat
  <2>1. e \in Entries /\ k \in DOMAIN es BY <1>2
  <2> QED BY <2>1 DEF Entries
<1>4. /\ v \in Tasks
      /\ Skips(u, e, v) \/ SendsFrame(u, e, v) \/ SendsClose(u, e, v) \/ NotesEnd(u, e, v)
  BY <1>1, <1>2, <1>3, ApplyCases
<1>5. PICK s : s = w \o u.output OBVIOUS
<1>6. u.output \in Seq(Frames) /\ s \in Seq(Frames) /\ u.session \in Sessions BY <1>5 DEF Tasks
<1>7. /\ OrderOk(s, es, k - 1, lg) /\ KeepOk(s, es, k - 1, lg, bh, Live(u.session, y))
      /\ EndOk(s, es, k - 1, u.session, u.ended, refusing) /\ ClosesOk(s, u.session)
      /\ u.closing => u.session # "Open"
  BY <1>5 DEF FoldOk
<1>8. PICK lv \in BOOLEAN : lv = Live(u.session, y) BY DEF Live
<1>16. KeepOk(s, es, k - 1, lg, bh, lv) BY <1>7, <1>8
<1>17. (lv => e.kind \notin Content \/ TryAgain(s)) => KeepOk(s, es, k, lg, bh, lv)
  <2>1. SUFFICES ASSUME lv => e.kind \notin Content \/ TryAgain(s) PROVE KeepOk(s, es, k, lg, bh, lv)
    OBVIOUS
  <2>2. lv => es[k].kind \notin Content \/ TryAgain(s) BY <1>2, <2>1
  <2>3. CASE lv = TRUE
    <3>1. es[k].kind \notin Content \/ TryAgain(s) BY <2>2, <2>3
    <3>2. KeepOk(s, es, k - 1, lg, bh, TRUE) BY <1>16, <2>3
    <3>3. KeepOk(s, es, k, lg, bh, TRUE) BY <3>1, <3>2, KeepSkip
    <3> QED BY <2>3, <3>3
  <2>4. CASE lv = FALSE
    <3>2. KeepOk(s, es, k - 1, lg, bh, FALSE) BY <1>16, <2>4
    <3>3. KeepOk(s, es, k, lg, bh, FALSE) BY <3>2, KeepSkip
    <3> QED BY <2>4, <3>3
  <2> QED BY <2>3, <2>4
<1>9. Waiting(es, lg) BY <1>7 DEF OrderOk
<1>10. k > k - 1 /\ k - 1 < Len(es) /\ ~(k - 1 >= Len(es)) OBVIOUS
<1>11. ends(e) => refusing /\ k = Len(es) BY <1>2, <1>3, <1>7 DEF EndOk
<1>12. CASE Skips(u, e, v)
  <2>1. v.session = u.session /\ v.output = u.output /\ v.closing = u.closing /\ v.ended = u.ended
    BY <1>12 DEF Skips, Same
  <2>2. OrderOk(s, es, k, lg) BY <1>7, OrderSkip
  <2>3. (u.ended \/ u.session = "CloseSent") => TryAgain(s) BY <1>7, <1>10 DEF EndOk
  <2>4. lv => e.kind \notin Content \/ TryAgain(s)
    <3>1. CASE u.ended \/ u.session = "CloseSent" BY <2>3, <3>1
    <3>2. CASE ~u.ended /\ u.session = "Open" BY <1>12, <3>2 DEF Skips, Content
    <3> QED BY <1>8, <3>1, <3>2 DEF Live
  <2>5. KeepOk(s, es, k, lg, bh, lv) BY <1>17, <2>4
  <2>6. EndOk(s, es, k, u.session, u.ended, refusing) BY <1>7, <2>3 DEF EndOk
  <2>7. w \o v.output = s BY <1>5, <2>1
  <2>8. FoldOk(w, v, es, k, lg, bh, y, refusing)
    BY <1>7, <1>8, <2>1, <2>2, <2>5, <2>6, <2>7 DEF FoldOk
  <2> QED BY <1>1, <2>8
<1>13. CASE SendsFrame(u, e, v)
  <2>1. PICK f : f = Frame(e.kind, e.n) OBVIOUS
  <2>2. /\ u.session = "Open" /\ e.kind \in Content /\ v.session = u.session
        /\ v.closing = u.closing /\ v.ended = u.ended /\ v.output = Append(u.output, f)
    BY <1>13, <2>1 DEF SendsFrame
  <2>3. f \in Frames /\ f.kind = e.kind /\ f.n = e.n
    BY <1>3, <2>1, <2>2, FrameType DEF Content, FrameKinds
  <2>4. w \o v.output = Append(s, f)
    <3>1. PICK o \in Seq(Frames) : o = u.output BY <1>6
    <3>2. w \o Append(o, f) = Append(w \o o, f) BY <2>3, ConcatAppend
    <3> QED BY <1>5, <2>2, <3>1, <3>2
  <2>5. OrderOk(Append(s, f), es, k, lg) BY <1>2, <1>6, <1>7, <2>2, <2>3, OrderSend
  <2>6. lv = TRUE /\ Live(v.session, y) = TRUE BY <1>8, <2>2 DEF Live
  <2>7. KeepOk(Append(s, f), es, k, lg, bh, TRUE)
    BY <1>2, <1>6, <1>7, <1>8, <1>9, <2>2, <2>3, <2>6, KeepSend
  <2>8. TryAgain(Append(s, f)) <=> TryAgain(s) BY <1>6, <2>2, <2>3, TryAgainAppend DEF Content
  <2>9. EndOk(Append(s, f), es, k, u.session, u.ended, refusing)
    BY <1>7, <1>10, <2>8 DEF EndOk
  <2>10. ~IsClose(f) BY <2>2, <2>3 DEF IsClose, Content
  <2>11. ClosesOk(Append(s, f), u.session) BY <1>6, <1>7, <2>2, <2>3, <2>10, ClosesAppend
  <2>12. FoldOk(w, v, es, k, lg, bh, y, refusing)
    BY <1>7, <2>2, <2>4, <2>5, <2>6, <2>7, <2>9, <2>11 DEF FoldOk
  <2> QED BY <1>1, <2>12
<1>14. CASE SendsClose(u, e, v)
  <2>1. PICK f : f = Frame("close", e.n) OBVIOUS
  <2>2. /\ u.session = "Open" /\ e.kind = "close" /\ v.session = "CloseSent"
        /\ v.ended = u.ended /\ v.output = Append(u.output, f)
    BY <1>14, <2>1 DEF SendsClose
  <2>3. f \in Frames /\ f.kind = "close" BY <1>3, <2>1, FrameType DEF FrameKinds
  <2>4. w \o v.output = Append(s, f)
    <3>1. PICK o \in Seq(Frames) : o = u.output BY <1>6
    <3>2. w \o Append(o, f) = Append(w \o o, f) BY <2>3, ConcatAppend
    <3> QED BY <1>5, <2>2, <3>1, <3>2
  <2>5. ~IsContent(f) /\ IsClose(f) /\ e.kind \notin Content
    BY <2>2, <2>3 DEF IsContent, IsClose, Content
  <2>6. OrderOk(s, es, k, lg) BY <1>7, OrderSkip
  <2>7. OrderOk(Append(s, f), es, k, lg) BY <1>6, <2>3, <2>5, <2>6, OrderPlain
  <2>8. Live(v.session, y) = lv BY <1>8, <2>2 DEF Live
  <2>9. KeepOk(s, es, k, lg, bh, lv) BY <1>17, <2>5
  <2>10. f.kind # "tryagain" BY <2>3
  <2>11. KeepOk(Append(s, f), es, k, lg, bh, lv)
    BY <1>6, <2>3, <2>5, <2>9, <2>10, KeepPlain
  <2>12. refusing /\ k = Len(es) BY <1>11, <2>2 DEF ends
  <2>13. EndOk(Append(s, f), es, k, v.session, v.ended, refusing)
    BY <1>7, <2>12 DEF EndOk
  <2>14. ClosesOk(Append(s, f), v.session) BY <1>6, <1>7, <2>2, <2>3, ClosesAppend
  <2>15. FoldOk(w, v, es, k, lg, bh, y, refusing)
    BY <2>2, <2>4, <2>7, <2>8, <2>11, <2>13, <2>14 DEF FoldOk
  <2> QED BY <1>1, <2>15
<1>15. CASE NotesEnd(u, e, v)
  <2>1. v.session = u.session /\ v.output = u.output /\ v.closing = u.closing /\ v.ended = TRUE
    BY <1>15 DEF NotesEnd
  <2>2. OrderOk(s, es, k, lg) BY <1>7, OrderSkip
  <2>3. e.kind \notin Content BY <1>15 DEF NotesEnd, Content
  <2>4. KeepOk(s, es, k, lg, bh, lv) BY <1>17, <2>3
  <2>5. refusing /\ k = Len(es) BY <1>11, <1>15 DEF ends, NotesEnd
  <2>6. EndOk(s, es, k, v.session, v.ended, refusing) BY <1>7, <2>5 DEF EndOk
  <2>7. w \o v.output = s BY <1>5, <2>1
  <2>8. FoldOk(w, v, es, k, lg, bh, y, refusing)
    BY <1>7, <1>8, <2>1, <2>2, <2>4, <2>6, <2>7 DEF FoldOk
  <2> QED BY <1>1, <2>8
<1> QED BY <1>4, <1>12, <1>13, <1>14, <1>15

(* Nothing is left of no entries, or after the last one.                   *)
LEMMA RestEmpty ==
  ASSUME NEW es \in Seq(Entries), NEW kinds
  PROVE  Rest(es, Len(es), kinds) = {} /\ Rest(<<>>, 0, kinds) = {}
<1>1. \A j \in DOMAIN es : ~(j > Len(es)) OBVIOUS
<1>2. PICK none : none = <<>> OBVIOUS
<1>3. DOMAIN none = {} BY <1>2
<1>4. Rest(none, 0, kinds) = {} BY <1>3 DEF Rest
<1>5. Rest(es, Len(es), kinds) = {} BY <1>1 DEF Rest
<1> QED BY <1>2, <1>4, <1>5

(* Entries all applied and an outbox emptied are the same.                 *)
LEMMA FoldEmptied ==
  ASSUME NEW w, NEW u, NEW es \in Seq(Entries), NEW lg, NEW bh, NEW y, NEW refusing, NEW refusing1,
         FoldOk(w, u, es, Len(es), lg, bh, y, refusing), refusing => refusing1
  PROVE  FoldOk(w, u, <<>>, 0, lg, bh, y, refusing1)
<1>1. PICK none : none = <<>> OBVIOUS
<1>2. DOMAIN none = {} /\ Len(none) = 0 BY <1>1
<1>3. \A kinds : Rest(es, Len(es), kinds) = {} /\ Rest(none, 0, kinds) = {} BY <1>1, RestEmpty
<1>4. PICK s : s = w \o u.output OBVIOUS
<1>5. /\ OrderOk(s, es, Len(es), lg) /\ KeepOk(s, es, Len(es), lg, bh, Live(u.session, y))
      /\ EndOk(s, es, Len(es), u.session, u.ended, refusing) /\ ClosesOk(s, u.session)
      /\ u.closing => u.session # "Open"
  BY <1>4 DEF FoldOk
<1>6. OrderOk(s, none, 0, lg)
  BY <1>2, <1>3, <1>5 DEF OrderOk, Waiting, Before
<1>7. \A kinds : Whole(s, es, Len(es), lg, kinds) => Whole(s, none, 0, lg, kinds)
  BY <1>3 DEF Whole
<1>8. KeepOk(s, none, 0, lg, bh, Live(u.session, y)) BY <1>5, <1>7 DEF KeepOk
<1>9. EndOk(s, none, 0, u.session, u.ended, refusing1) BY <1>2, <1>5 DEF EndOk
<1>10. FoldOk(w, u, none, 0, lg, bh, y, refusing1)
  BY <1>4, <1>5, <1>6, <1>8, <1>9 DEF FoldOk
<1> QED BY <1>1, <1>10

(* Taking the entries of an outbox and applying them.                      *)
LEMMA Taken ==
  ASSUME NEW w \in Seq(Frames), NEW t \in Tasks, NEW es \in Seq(Entries), NEW lg \in Seq(Kinds),
         NEW bh \in BOOLEAN, NEW y, y # "dropped",
         NEW refusing \in BOOLEAN, NEW refusing1 \in BOOLEAN, refusing => refusing1,
         FoldOk(w, t, es, 0, lg, bh, y, refusing)
  PROVE  FoldOk(w, ApplyAll(t, es), <<>>, 0, lg, bh, y, refusing1)
<1> DEFINE G == {p \in Nat \X Tasks : FoldOk(w, p[2], es, p[1], lg, bh, y, refusing)}
<1>1. <<0, t>> \in G OBVIOUS
<1>2. ASSUME NEW k \in 1 .. Len(es), NEW u \in Tasks, <<k - 1, u>> \in G
      PROVE  <<k, apply(u, es[k])>> \in G
  <2>1. FoldOk(w, u, es, k - 1, lg, bh, y, refusing) BY <1>2
  <2>2. FoldOk(w, apply(u, es[k]), es, k, lg, bh, y, refusing) BY <2>1, FoldStep
  <2>3. es[k] \in Entries /\ k \in Nat OBVIOUS
  <2>4. apply(u, es[k]) \in Tasks BY <2>3, ApplyCases
  <2> QED BY <2>2, <2>3, <2>4
<1> HIDE DEF G
<1>3. <<Len(es), ApplyAll(t, es)>> \in G BY <1>1, <1>2, ApplyInduction
<1>4. FoldOk(w, ApplyAll(t, es), es, Len(es), lg, bh, y, refusing) BY <1>3 DEF G
<1> QED BY <1>4, FoldEmptied

(* Session::close.                                                         *)
LEMMA CloseTypes ==
  ASSUME NEW t \in Tasks, NEW f \in Frames
  PROVE  /\ CloseSession(t, f) \in Tasks
         /\ CloseSession(t, f).unreleased = t.unreleased /\ CloseSession(t, f).ended = t.ended
         /\ t.session # "Open" => CloseSession(t, f) = t
         /\ t.session = "Open" =>
              /\ CloseSession(t, f).session = "CloseSent"
              /\ CloseSession(t, f).output = Append(t.output, f)
<1>1. PICK v : v = CloseSession(t, f) OBVIOUS
<1>2. CASE t.session # "Open" BY <1>2 DEF CloseSession
<1>3. CASE t.session = "Open"
  <2>1. PICK o : o = Append(t.output, f) OBVIOUS
  <2>2. o \in Seq(Frames) BY <2>1 DEF Tasks
  <2>3. v = [t EXCEPT !.session = "CloseSent", !.closing = TRUE, !.output = o]
    BY <1>1, <1>3, <2>1 DEF CloseSession
  <2>4. v \in Tasks BY <2>2, <2>3 DEF Tasks, Sessions
  <2>5. v.session = "CloseSent" /\ v.output = o /\ v.ended = t.ended /\ v.unreleased = t.unreleased
    BY <2>3 DEF Tasks
  <2> QED BY <1>1, <1>3, <2>1, <2>4, <2>5
<1> QED BY <1>2, <1>3

(* A Close is added only where it cuts off no entry.                       *)
LEMMA CloseKeeps ==
  ASSUME NEW w \in Seq(Frames), NEW t \in Tasks, NEW es, NEW lg, NEW bh \in BOOLEAN, NEW y,
         NEW refusing \in BOOLEAN, FoldOk(w, t, es, 0, lg, bh, y, refusing),
         NEW f \in Frames, IsClose(f), f.kind = "tryagain" => bh,
         f.kind # "tryagain" => Len(es) = 0 /\ refusing
  PROVE  FoldOk(w, CloseSession(t, f), es, 0, lg, bh, y, refusing)
<1>1. CASE t.session # "Open" BY <1>1, CloseTypes
<1>2. CASE t.session = "Open"
  <2>1. PICK v : v = CloseSession(t, f) OBVIOUS
  <2>2. v.session = "CloseSent" /\ v.output = Append(t.output, f) /\ v.ended = t.ended
    BY <1>2, <2>1, CloseTypes
  <2>3. PICK s : s = w \o t.output OBVIOUS
  <2>4. s \in Seq(Frames) /\ w \o v.output = Append(s, f)
    <3>1. PICK o \in Seq(Frames) : o = t.output BY DEF Tasks
    <3>2. w \o o \in Seq(Frames) /\ w \o Append(o, f) = Append(w \o o, f) BY ConcatAppend
    <3> QED BY <2>2, <2>3, <3>1, <3>2, Zenon
  <2>5. /\ OrderOk(s, es, 0, lg) /\ KeepOk(s, es, 0, lg, bh, Live(t.session, y))
        /\ EndOk(s, es, 0, t.session, t.ended, refusing) /\ ClosesOk(s, t.session)
    BY <2>3 DEF FoldOk
  <2>6. PICK lv \in BOOLEAN : lv = Live(t.session, y) /\ lv = Live(v.session, y)
    BY <1>2, <2>2 DEF Live
  <2>7. ~IsContent(f) BY DEF IsContent, IsClose
  <2>8. OrderOk(Append(s, f), es, 0, lg) BY <2>4, <2>5, <2>7, OrderPlain
  <2>9. KeepOk(s, es, 0, lg, bh, lv) BY <2>5, <2>6
  <2>10. KeepOk(Append(s, f), es, 0, lg, bh, lv) BY <2>4, <2>7, <2>9, KeepPlain
  <2>11. TryAgain(Append(s, f)) <=> TryAgain(s) \/ f.kind = "tryagain" BY <2>4, TryAgainAppend
  <2>12. EndOk(Append(s, f), es, 0, v.session, v.ended, refusing) BY <2>5, <2>11 DEF EndOk
  <2>13. ClosesOk(Append(s, f), v.session) BY <1>2, <2>2, <2>4, <2>5, ClosesAppend
  <2>14. FoldOk(w, v, es, 0, lg, bh, y, refusing)
    BY <2>2, <2>4, <2>6, <2>8, <2>10, <2>12, <2>13 DEF FoldOk
  <2> QED BY <2>1, <2>14
<1> QED BY <1>1, <1>2

(* FoldOk reads the session, the output and two flags of a task.           *)
LEMMA FoldSame ==
  ASSUME NEW w, NEW t, NEW u, NEW es, NEW from, NEW lg, NEW bh, NEW y, NEW refusing,
         FoldOk(w, t, es, from, lg, bh, y, refusing),
         u.session = t.session, u.output = t.output, u.ended = t.ended,
         u.closing => u.session # "Open"
  PROVE  FoldOk(w, u, es, from, lg, bh, y, refusing)
BY DEF FoldOk

-----------------------------------------------------------------------------
(* An entry queued.                                                        *)

(* The log with one more kind.                                             *)
LEMMA LogAppend ==
  ASSUME NEW lg \in Seq(Kinds), NEW kind \in Kinds, NEW kinds
  PROVE  /\ Len(lg) + 1 \in Nat /\ DOMAIN lg = 1 .. Len(lg)
         /\ Append(lg, kind) \in Seq(Kinds)
         /\ DOMAIN Append(lg, kind) = 1 .. Len(lg) + 1
         /\ \A i \in DOMAIN lg : i \in DOMAIN Append(lg, kind) /\ Append(lg, kind)[i] = lg[i]
                                  /\ i \in Nat /\ i < Len(lg) + 1
         /\ Append(lg, kind)[Len(lg) + 1] = kind
         /\ kind \in kinds => InLog(Append(lg, kind), kinds) = InLog(lg, kinds) \cup {Len(lg) + 1}
         /\ kind \notin kinds => InLog(Append(lg, kind), kinds) = InLog(lg, kinds)
<1>1. PICK l1, n : l1 = Append(lg, kind) /\ n = Len(lg) OBVIOUS
<1>2. n \in Nat /\ l1 \in Seq(Kinds) /\ DOMAIN lg = 1 .. n /\ DOMAIN l1 = 1 .. n + 1 BY <1>1
<1>3. l1[n + 1] = kind /\ \A i \in 1 .. n : l1[i] = lg[i] BY <1>1
<1>4. n + 1 \in DOMAIN l1 /\ \A i \in DOMAIN l1 : i \in DOMAIN lg \/ i = n + 1 BY <1>2
<1>5. \A i \in DOMAIN lg : i \in DOMAIN l1 /\ l1[i] = lg[i] /\ i \in Nat /\ i < n + 1 BY <1>2, <1>3
<1>6. kind \in kinds => InLog(l1, kinds) = InLog(lg, kinds) \cup {n + 1}
  BY <1>3, <1>4, <1>5 DEF InLog
<1>7. kind \notin kinds => InLog(l1, kinds) = InLog(lg, kinds) BY <1>3, <1>4, <1>5 DEF InLog
<1> QED BY <1>1, <1>2, <1>3, <1>5, <1>6, <1>7

(* What was sent stays as the log has it, in front of anything new.        *)
LEMMA LoggedGrows ==
  ASSUME NEW s \in Seq(Frames), NEW lg \in Seq(Kinds), NEW kind \in Kinds, Logged(s, lg)
  PROVE  /\ Logged(s, Append(lg, kind))
         /\ \A kinds \in {Content, Pushed} :
              /\ \A n \in Places(s, kinds) : n \in Nat /\ n < Len(lg) + 1
              /\ Gapless(s, lg, kinds) => Gapless(s, Append(lg, kind), kinds)
<1>1. PICK l1 : l1 = Append(lg, kind) OBVIOUS
<1>2. \A i \in DOMAIN lg : i \in DOMAIN l1 /\ l1[i] = lg[i] /\ i \in Nat /\ i < Len(lg) + 1
  BY <1>1, LogAppend
<1>3. Logged(s, l1) BY <1>2 DEF Logged
<1>4. ASSUME NEW kinds \in {Content, Pushed}
      PROVE  /\ \A n \in Places(s, kinds) : n \in Nat /\ n < Len(lg) + 1
             /\ Gapless(s, lg, kinds) => Gapless(s, l1, kinds)
  <2>1. \A n \in Places(s, kinds) : n \in DOMAIN lg
    BY <1>4 DEF Places, Logged, IsContent, Content, Pushed
  <2>2. \A n \in Places(s, kinds) : n \in Nat /\ n < Len(lg) + 1 BY <1>2, <2>1
  <2>3. ASSUME Gapless(s, lg, kinds), NEW n \in Places(s, kinds), NEW m \in InLog(l1, kinds), m < n
        PROVE  m \in Places(s, kinds)
    <3>1. Len(lg) + 1 \in Nat /\ (m \in InLog(lg, kinds) \/ m = Len(lg) + 1) BY <1>1, LogAppend
    <3>2. m # Len(lg) + 1 BY <2>2, <2>3, <3>1
    <3> QED BY <2>3, <3>1, <3>2 DEF Gapless
  <2> QED BY <2>2, <2>3 DEF Gapless
<1> QED BY <1>1, <1>3, <1>4

(* The entries with one more.                                              *)
LEMMA RestAppend ==
  ASSUME NEW es \in Seq(Entries), NEW e \in Entries, NEW kinds
  PROVE  /\ e.kind \in kinds => Rest(Append(es, e), 0, kinds) = Rest(es, 0, kinds) \cup {e.n}
         /\ e.kind \notin kinds => Rest(Append(es, e), 0, kinds) = Rest(es, 0, kinds)
<1>1. PICK ea, n : ea = Append(es, e) /\ n = Len(es) OBVIOUS
<1>2. n \in Nat /\ DOMAIN es = 1 .. n /\ DOMAIN ea = 1 .. n + 1 BY <1>1
<1>3. ea[n + 1] = e /\ \A i \in 1 .. n : ea[i] = es[i] BY <1>1
<1>4. /\ n + 1 \in DOMAIN ea /\ n + 1 > 0
      /\ \A i \in DOMAIN ea : i \in DOMAIN es \/ i = n + 1
      /\ \A i \in DOMAIN es : i \in DOMAIN ea /\ ea[i] = es[i] /\ i > 0
  BY <1>2, <1>3
<1>5. \A m \in Rest(es, 0, kinds) : m \in Rest(ea, 0, kinds) BY <1>4 DEF Rest
<1>6. e.kind \in kinds => e.n \in Rest(ea, 0, kinds) BY <1>3, <1>4 DEF Rest
<1>7. ASSUME NEW m \in Rest(ea, 0, kinds)
      PROVE  m \in Rest(es, 0, kinds) \/ (m = e.n /\ e.kind \in kinds)
  <2>1. PICK i \in DOMAIN ea : ea[i].kind \in kinds /\ m = ea[i].n BY <1>7 DEF Rest
  <2>2. CASE i = n + 1 BY <1>3, <2>1, <2>2
  <2>3. CASE i \in DOMAIN es BY <1>4, <2>1, <2>3 DEF Rest
  <2> QED BY <1>4, <2>2, <2>3
<1> QED BY <1>1, <1>5, <1>6, <1>7

(* A frame that is accepted is numbered above all that wait.               *)
LEMMA WaitingAppend ==
  ASSUME NEW es \in Seq(Entries), NEW e \in Entries, NEW lg \in Seq(Kinds), Waiting(es, lg),
         e.n = Len(lg) + 1
  PROVE  Waiting(Append(es, e), Append(lg, e.kind))
<1>1. PICK ea, n : ea = Append(es, e) /\ n = Len(es) OBVIOUS
<1>2. n \in Nat /\ DOMAIN es = 1 .. n /\ DOMAIN ea = 1 .. n + 1 BY <1>1
<1>3. ea[n + 1] = e /\ \A i \in 1 .. n : ea[i] = es[i] BY <1>1
<1>4. PICK l1 : l1 = Append(lg, e.kind) OBVIOUS
<1>5. e.kind \in Kinds BY DEF Entries
<1>6. /\ Len(lg) + 1 \in Nat /\ DOMAIN l1 = 1 .. Len(lg) + 1 /\ l1[Len(lg) + 1] = e.kind
      /\ \A i \in DOMAIN lg : i \in DOMAIN l1 /\ l1[i] = lg[i] /\ i < Len(lg) + 1
  BY <1>4, <1>5, LogAppend
<1>7. ASSUME NEW k \in DOMAIN ea PROVE ea[k].n \in DOMAIN l1 /\ l1[ea[k].n] = ea[k].kind
  <2>1. CASE k = n + 1 BY <1>3, <1>6, <2>1
  <2>2. CASE k \in DOMAIN es BY <1>2, <1>3, <1>6, <2>2 DEF Waiting
  <2> QED BY <1>2, <2>1, <2>2
<1>8. ASSUME NEW j \in DOMAIN ea, NEW k \in DOMAIN ea, j < k PROVE ea[j].n < ea[k].n
  <2>1. j \in DOMAIN es /\ ea[j] = es[j] BY <1>2, <1>3, <1>8
  <2>2. CASE k = n + 1
    <3>1. es[j].n \in DOMAIN lg BY <2>1 DEF Waiting
    <3> QED BY <1>3, <1>6, <2>1, <2>2, <3>1
  <2>3. CASE k \in DOMAIN es BY <1>2, <1>3, <1>8, <2>1, <2>3 DEF Waiting
  <2> QED BY <1>2, <2>2, <2>3
<1> QED BY <1>1, <1>4, <1>7, <1>8 DEF Waiting

(* A queued entry: Outbox::push, and Outbox::broadcast below its limit.    *)
LEMMA Queued ==
  ASSUME NEW w \in Seq(Frames), NEW t \in Tasks, NEW es \in Seq(Entries), NEW lg \in Seq(Kinds),
         NEW bh \in BOOLEAN, NEW y, FoldOk(w, t, es, 0, lg, bh, y, FALSE),
         NEW e \in Entries, e.n = Len(lg) + 1, NEW refusing, ends(e) => refusing
  PROVE  FoldOk(w, t, Append(es, e), 0, Append(lg, e.kind), bh, y, refusing)
<1>1. PICK s : s = w \o t.output OBVIOUS
<1>2. s \in Seq(Frames) BY <1>1 DEF Tasks
<1>3. /\ Logged(s, lg) /\ Waiting(es, lg) /\ InOrder(s) /\ Before(s, es, 0)
      /\ KeepOk(s, es, 0, lg, bh, Live(t.session, y))
      /\ EndOk(s, es, 0, t.session, t.ended, FALSE) /\ ClosesOk(s, t.session)
      /\ t.closing => t.session # "Open"
  BY <1>1 DEF FoldOk, OrderOk
<1>4. PICK ea, l1 : ea = Append(es, e) /\ l1 = Append(lg, e.kind) OBVIOUS
<1>5. e.kind \in Kinds /\ e.n \in Nat BY DEF Entries
<1>6. Logged(s, l1) BY <1>2, <1>3, <1>4, <1>5, LoggedGrows
<1>7. Waiting(ea, l1) BY <1>3, <1>4, WaitingAppend
<1>8. \A n \in Places(s, Content) : n < e.n BY <1>2, <1>3, <1>5, LoggedGrows
<1>9. Before(s, ea, 0)
  <2>1. \A m \in Rest(ea, 0, Content) : m \in Rest(es, 0, Content) \/ m = e.n BY <1>4, RestAppend
  <2> QED BY <1>3, <1>8, <2>1 DEF Before
<1>10. ASSUME NEW kinds \in {Content, Pushed}
       PROVE  /\ Gapless(s, lg, kinds) => Gapless(s, l1, kinds)
              /\ Whole(s, es, 0, lg, kinds) => Whole(s, ea, 0, l1, kinds)
  <2>1. Gapless(s, lg, kinds) => Gapless(s, l1, kinds) BY <1>2, <1>3, <1>4, <1>5, LoggedGrows
  <2>2. CASE e.kind \in kinds
    <3>1. Rest(ea, 0, kinds) = Rest(es, 0, kinds) \cup {e.n} BY <1>4, <2>2, RestAppend
    <3>2. InLog(l1, kinds) = InLog(lg, kinds) \cup {e.n} BY <1>4, <1>5, <2>2, LogAppend
    <3> QED BY <2>1, <3>1, <3>2 DEF Whole
  <2>3. CASE e.kind \notin kinds
    <3>1. Rest(ea, 0, kinds) = Rest(es, 0, kinds) BY <1>4, <2>3, RestAppend
    <3>2. InLog(l1, kinds) = InLog(lg, kinds) BY <1>4, <1>5, <2>3, LogAppend
    <3> QED BY <2>1, <3>1, <3>2 DEF Whole
  <2> QED BY <2>2, <2>3
<1>11. KeepOk(s, ea, 0, l1, bh, Live(t.session, y))
  <2>1. /\ Gapless(s, lg, Content) => Gapless(s, l1, Content)
        /\ Whole(s, es, 0, lg, Content) => Whole(s, ea, 0, l1, Content)
    BY <1>10
  <2>2. /\ Gapless(s, lg, Pushed) => Gapless(s, l1, Pushed)
        /\ Whole(s, es, 0, lg, Pushed) => Whole(s, ea, 0, l1, Pushed)
    BY <1>10
  <2> QED BY <1>3, <2>1, <2>2 DEF KeepOk
<1>12. EndOk(s, ea, 0, t.session, t.ended, refusing)
  <2>1. PICK n : n = Len(es) OBVIOUS
  <2>2. n \in Nat /\ DOMAIN es = 1 .. n /\ DOMAIN ea = 1 .. n + 1 /\ Len(ea) = n + 1 BY <1>4, <2>1
  <2>3. ea[n + 1] = e /\ \A i \in 1 .. n : ea[i] = es[i] BY <1>4, <2>1
  <2>4. \A k \in DOMAIN es : ~ends(es[k]) BY <1>3 DEF EndOk
  <2>5. ASSUME NEW k \in DOMAIN ea, ends(ea[k]) PROVE refusing /\ k = Len(ea)
    <3>1. k = n + 1 BY <2>2, <2>3, <2>4, <2>5
    <3> QED BY <2>2, <2>3, <2>5, <3>1
  <2> QED BY <1>3, <2>5 DEF EndOk
<1> QED BY <1>1, <1>3, <1>4, <1>6, <1>7, <1>9, <1>11, <1>12 DEF FoldOk, OrderOk

(* A broadcast past the limit drops the broadcasts that wait.              *)
LEMMA Dropped ==
  ASSUME NEW w \in Seq(Frames), NEW t \in Tasks, NEW es \in Seq(Entries), NEW lg \in Seq(Kinds),
         NEW bh \in BOOLEAN, NEW y, FoldOk(w, t, es, 0, lg, bh, y, FALSE)
  PROVE  FoldOk(w, t, retained(es), 0, Append(lg, "broadcast"), TRUE, y, FALSE)
<1>1. PICK s : s = w \o t.output OBVIOUS
<1>2. s \in Seq(Frames) BY <1>1 DEF Tasks
<1>3. /\ Logged(s, lg) /\ Waiting(es, lg) /\ InOrder(s) /\ Before(s, es, 0)
      /\ KeepOk(s, es, 0, lg, bh, Live(t.session, y))
      /\ EndOk(s, es, 0, t.session, t.ended, FALSE) /\ ClosesOk(s, t.session)
      /\ t.closing => t.session # "Open"
  BY <1>1 DEF FoldOk, OrderOk
<1>4. PICK r, l1 : r = retained(es) /\ l1 = Append(lg, "broadcast") OBVIOUS
<1>5. "broadcast" \in Kinds BY DEF Kinds
<1>6. r \in Seq(Entries) BY <1>4, RetainedOctets
<1>7. /\ \A i \in DOMAIN r : \E k \in DOMAIN es : r[i] = es[k]
      /\ \A i, j \in DOMAIN r : i < j => r[i].n < r[j].n
      /\ \A k \in DOMAIN es : IsSent(es[k]) => \E i \in DOMAIN r : r[i] = es[k]
  BY <1>3, <1>4, RetainedMembers DEF Waiting
<1>8. Logged(s, l1) BY <1>2, <1>3, <1>4, <1>5, LoggedGrows
<1>9. Waiting(r, l1)
  <2>1. \A i \in DOMAIN lg : i \in DOMAIN l1 /\ l1[i] = lg[i] BY <1>4, <1>5, LogAppend
  <2> QED BY <1>3, <1>7, <2>1 DEF Waiting
<1>10. (\A i \in DOMAIN r : i > 0) /\ (\A i \in DOMAIN es : i > 0) BY <1>6
<1>11. \A m \in Rest(r, 0, Content) : m \in Rest(es, 0, Content) BY <1>7, <1>10 DEF Rest
<1>12. \A m \in Rest(es, 0, Pushed) : m \in Rest(r, 0, Pushed)
  <2>1. ASSUME NEW k \in DOMAIN es, es[k].kind \in Pushed PROVE es[k].n \in Rest(r, 0, Pushed)
    <3>1. IsSent(es[k]) BY <2>1 DEF IsSent, Pushed
    <3>2. PICK i \in DOMAIN r : r[i] = es[k] BY <1>7, <3>1
    <3> QED BY <1>10, <2>1, <3>2 DEF Rest
  <2> QED BY <2>1 DEF Rest
<1>13. Before(s, r, 0) BY <1>3, <1>11 DEF Before
<1>14. InLog(l1, Pushed) = InLog(lg, Pushed) BY <1>4, <1>5, LogAppend DEF Pushed
<1>15. Gapless(s, lg, Pushed) => Gapless(s, l1, Pushed) BY <1>2, <1>3, <1>4, <1>5, LoggedGrows
<1>16. Whole(s, es, 0, lg, Pushed) => Whole(s, r, 0, l1, Pushed) BY <1>12, <1>14 DEF Whole
<1>17. KeepOk(s, r, 0, l1, TRUE, Live(t.session, y)) BY <1>3, <1>15, <1>16 DEF KeepOk
<1>18. \A k \in DOMAIN es : ~ends(es[k]) BY <1>3 DEF EndOk
<1>19. \A i \in DOMAIN r : ~ends(r[i]) BY <1>7, <1>18
<1>20. EndOk(s, r, 0, t.session, t.ended, FALSE) BY <1>3, <1>19 DEF EndOk
<1> QED BY <1>1, <1>3, <1>4, <1>8, <1>9, <1>13, <1>17, <1>20 DEF FoldOk, OrderOk

-----------------------------------------------------------------------------
(* The worker's total.                                                     *)
CountsOf(b, c) == {c} \X (1 .. b[c])
Counts(b) == UNION {CountsOf(b, c) : c \in Conn}

(* One connection's octets.                                                *)
LEMMA CountsOfOne ==
  ASSUME NEW b \in [Conn -> Nat], NEW c \in Conn
  PROVE  IsFiniteSet(CountsOf(b, c)) /\ Cardinality(CountsOf(b, c)) = b[c]
<1>1. PICK A, B : A = {c} /\ B = 1 .. b[c] OBVIOUS
<1>2. b[c] \in Nat OBVIOUS
<1>3. IsFiniteSet(A) /\ Cardinality(A) = 1 BY <1>1, FS_Singleton
<1>4. IsFiniteSet(B) /\ Cardinality(B) = b[c] BY <1>1, <1>2, FS_Interval
<1>5. IsFiniteSet(A \X B) /\ Cardinality(A \X B) = Cardinality(A) * Cardinality(B)
  BY <1>3, <1>4, FS_Product
<1>6. Cardinality(A) * Cardinality(B) = b[c] BY <1>2, <1>3, <1>4
<1> QED BY <1>1, <1>5, <1>6 DEF CountsOf

(* There are finitely many.                                                *)
LEMMA CountsFinite ==
  ASSUME NEW b \in [Conn -> Nat]
  PROVE  IsFiniteSet(Counts(b))
<1> DEFINE T == {CountsOf(b, c) : c \in Conn}
           f == [c \in Conn |-> CountsOf(b, c)]
<1>1. IsFiniteSet(Conn) BY ConnAssumption
<1>2. f \in Surjection(Conn, T) BY DEF Surjection
<1>3. IsFiniteSet(T)
  <2> HIDE DEF f, T
  <2> QED BY <1>1, <1>2, FS_Surjection
<1>4. \A t \in T : IsFiniteSet(t) BY CountsOfOne
<1>5. IsFiniteSet(UNION T)
  <2> HIDE DEF T
  <2> QED BY <1>3, <1>4, FS_UNION
<1> QED BY <1>5 DEF Counts

(* Another count on one connection.                                        *)
LEMMA CountsReplace ==
  ASSUME NEW b \in [Conn -> Nat], NEW b1 \in [Conn -> Nat], NEW c \in Conn,
         \A d \in Conn : d # c => b1[d] = b[d]
  PROVE  Cardinality(Counts(b1)) + b[c] = Cardinality(Counts(b)) + b1[c]
<1> DEFINE A == CountsOf(b, c)
           B == CountsOf(b1, c)
           C == UNION {CountsOf(b, d) : d \in Conn \ {c}}
<1>1. Counts(b) = C \cup A
  <2>1. \A q : q \in Counts(b) <=> \E d \in Conn : q \in CountsOf(b, d) BY DEF Counts
  <2>2. \A q : q \in C <=> \E d \in Conn \ {c} : q \in CountsOf(b, d) OBVIOUS
  <2> QED BY <2>1, <2>2
<1>2. Counts(b1) = C \cup B
  <2>1. \A q : q \in Counts(b1) <=> \E d \in Conn : q \in CountsOf(b1, d) BY DEF Counts
  <2>2. \A q : q \in C <=> \E d \in Conn \ {c} : q \in CountsOf(b, d) OBVIOUS
  <2>3. \A d \in Conn \ {c} : CountsOf(b1, d) = CountsOf(b, d) BY DEF CountsOf
  <2> QED BY <2>1, <2>2, <2>3
<1>3. C \cap A = {} /\ C \cap B = {} BY DEF CountsOf
<1>4. /\ IsFiniteSet(A) /\ Cardinality(A) = b[c] /\ IsFiniteSet(B) /\ Cardinality(B) = b1[c]
      /\ IsFiniteSet(Counts(b)) /\ b[c] \in Nat /\ b1[c] \in Nat
  BY CountsOfOne, CountsFinite
<1>5. IsFiniteSet(C) BY <1>1, <1>4, FS_Subset
<1> HIDE DEF A, B, C
<1>6. Cardinality(C) \in Nat /\ Cardinality({}) = 0 BY <1>5, FS_CardinalityType, FS_EmptySet
<1>7. Cardinality(Counts(b)) = Cardinality(C) + Cardinality(A) - Cardinality(C \cap A)
  BY <1>1, <1>4, <1>5, FS_Union
<1>8. Cardinality(Counts(b1)) = Cardinality(C) + Cardinality(B) - Cardinality(C \cap B)
  BY <1>2, <1>4, <1>5, FS_Union
<1>9. Cardinality(C \cap A) = 0 /\ Cardinality(C \cap B) = 0 BY <1>3, <1>6
<1>10. Cardinality(Counts(b)) = Cardinality(C) + b[c] - 0 BY <1>4, <1>7, <1>9
<1>11. Cardinality(Counts(b1)) = Cardinality(C) + b1[c] - 0 BY <1>4, <1>8, <1>9
<1> QED BY <1>4, <1>6, <1>10, <1>11

-----------------------------------------------------------------------------
(* A step of one connection.                                               *)

(* The variables the invariant reads.                                      *)
connVars == <<queue, log, behind, session, output, closing, ended, unreleased, member, wire, pc, why,
              input>>

(* Connection c has these values next, and the others what they have.      *)
Moves(c, q, lg, bh, t, w, p, y, i) ==
  /\ queue' = [queue EXCEPT ![c] = q] /\ log' = [log EXCEPT ![c] = lg]
  /\ behind' = [behind EXCEPT ![c] = bh]
  /\ session' = [session EXCEPT ![c] = t.session] /\ output' = [output EXCEPT ![c] = t.output]
  /\ closing' = [closing EXCEPT ![c] = t.closing] /\ ended' = [ended EXCEPT ![c] = t.ended]
  /\ unreleased' = [unreleased EXCEPT ![c] = t.unreleased]
  /\ member' = [member EXCEPT ![c] = t.member] /\ wire' = [wire EXCEPT ![c] = w]
  /\ pc' = [pc EXCEPT ![c] = p] /\ why' = [why EXCEPT ![c] = y]
  /\ input' = [input EXCEPT ![c] = i]

(* What the total must do for it.                                          *)
Totals(c, bytes) ==
  /\ total \in Nat /\ total' \in Nat
  /\ total' + queue[c].bytes = total + bytes /\ total' <= TotalLimit

(* A task is the record of its parts.                                      *)
LEMMA TaskRecord ==
  ASSUME NEW t \in Tasks
  PROVE  t = [session |-> t.session, output |-> t.output, closing |-> t.closing,
              ended |-> t.ended, unreleased |-> t.unreleased, member |-> t.member]
BY DEF Tasks

(* What WsInv says of one connection.                                      *)
LEMMA ConnFacts ==
  ASSUME WsInv, NEW c \in Conn
  PROVE  /\ queue[c] \in Queues /\ log[c] \in Seq(Kinds) /\ behind[c] \in BOOLEAN
         /\ TaskOf(c) \in Tasks /\ wire[c] \in Seq(Frames) /\ pc[c] \in Steps
         /\ why[c] \in Reasons /\ input[c] \in Seq(Heard)
         /\ FoldOk(wire[c], TaskOf(c), queue[c].entries, 0, log[c], behind[c], why[c],
                   Refusing(queue[c]))
         /\ CountOk(queue[c], unreleased[c], pc[c])
         /\ StepOk(queue[c], behind[c], TaskOf(c), pc[c], why[c], input[c])
<1>1. Local(c) BY DEF WsInv
<1>2. TaskOf(c).unreleased = unreleased[c] BY DEF TaskOf
<1> QED BY <1>1, <1>2 DEF Local, ConnOk, ConnTypes

(* The octets WsInv has counted.                                           *)
LEMMA BytesFacts ==
  ASSUME WsInv
  PROVE  /\ [c \in Conn |-> queue[c].bytes] \in [Conn -> Nat]
         /\ Counted = Counts([c \in Conn |-> queue[c].bytes])
         /\ total \in Nat /\ \A c \in Conn : queue[c].bytes \in Nat /\ queue[c].bytes <= total
<1>1. PICK b : b = [c \in Conn |-> queue[c].bytes] OBVIOUS
<1>2. \A c \in Conn : queue[c].bytes \in Nat
  <2>1. \A c \in Conn : queue[c] \in Queues BY ConnFacts
  <2> QED BY <2>1 DEF Queues
<1>3. b \in [Conn -> Nat] BY <1>1, <1>2
<1>4. \A c \in Conn : CountsOf(b, c) = {c} \X (1 .. queue[c].bytes) BY <1>1 DEF CountsOf
<1>5. Counted = Counts(b) BY <1>4 DEF Counted, Counts
<1>6. IsFiniteSet(Counts(b)) BY <1>3, CountsFinite
<1>7. total \in Nat BY <1>5, <1>6, FS_CardinalityType DEF WsInv, TotalOk
<1>8. ASSUME NEW c \in Conn PROVE queue[c].bytes <= total
  <2>1. CountsOf(b, c) \subseteq Counts(b) BY DEF Counts
  <2>2. Cardinality(CountsOf(b, c)) <= Cardinality(Counts(b)) BY <1>6, <2>1, FS_Subset
  <2>3. Cardinality(CountsOf(b, c)) = b[c] BY <1>3, CountsOfOne
  <2>4. b[c] = queue[c].bytes BY <1>1
  <2> QED BY <1>5, <2>2, <2>3, <2>4 DEF WsInv, TotalOk
<1> QED BY <1>1, <1>2, <1>3, <1>5, <1>7, <1>8

(* A step that gives one connection good values keeps the invariant.       *)
LEMMA StepAt ==
  ASSUME WsInv, NEW c \in Conn, NEW q, NEW lg, NEW bh, NEW t, NEW w, NEW p, NEW y, NEW i,
         Moves(c, q, lg, bh, t, w, p, y, i), ConnOk(q, lg, bh, t, w, p, y, i),
         Totals(c, q.bytes)
  PROVE  WsInv'
<1>1. WsTypes BY DEF WsInv
<1>3. q \in Queues /\ t \in Tasks BY DEF ConnOk, ConnTypes
<1>2. WsTypes'
  <2>1. /\ lg \in Seq(Kinds) /\ bh \in BOOLEAN /\ w \in Seq(Frames) /\ p \in Steps
        /\ y \in Reasons /\ i \in Seq(Heard)
    BY DEF ConnOk, ConnTypes
  <2>2. /\ t.session \in Sessions /\ t.output \in Seq(Frames) /\ t.closing \in BOOLEAN
        /\ t.ended \in BOOLEAN /\ t.unreleased \in Nat /\ t.member \in BOOLEAN
    BY <1>3 DEF Tasks
  <2>3. /\ queue' \in [Conn -> Queues] /\ log' \in [Conn -> Seq(Kinds)]
        /\ behind' \in [Conn -> BOOLEAN] /\ wire' \in [Conn -> Seq(Frames)]
        /\ pc' \in [Conn -> Steps] /\ why' \in [Conn -> Reasons] /\ input' \in [Conn -> Seq(Heard)]
    BY <1>1, <1>3, <2>1 DEF WsTypes, Moves
  <2>4. /\ session' \in [Conn -> Sessions] /\ output' \in [Conn -> Seq(Frames)]
        /\ closing' \in [Conn -> BOOLEAN] /\ ended' \in [Conn -> BOOLEAN]
        /\ unreleased' \in [Conn -> Nat] /\ member' \in [Conn -> BOOLEAN]
    BY <1>1, <2>2 DEF WsTypes, Moves
  <2> QED BY <2>3, <2>4 DEF WsTypes
<1>4. /\ queue'[c] = q /\ log'[c] = lg /\ behind'[c] = bh /\ session'[c] = t.session
      /\ output'[c] = t.output /\ closing'[c] = t.closing /\ ended'[c] = t.ended
      /\ unreleased'[c] = t.unreleased /\ member'[c] = t.member /\ wire'[c] = w /\ pc'[c] = p
      /\ why'[c] = y /\ input'[c] = i
  BY <1>1 DEF WsTypes, Moves
<1>5. TaskOf(c)' = t BY <1>3, <1>4, TaskRecord DEF TaskOf
<1>6. Local(c)' BY <1>4, <1>5 DEF Local
<1>7. ASSUME NEW d \in Conn, d # c PROVE Local(d)' /\ queue'[d] = queue[d]
  <2>1. /\ queue'[d] = queue[d] /\ log'[d] = log[d] /\ behind'[d] = behind[d]
        /\ session'[d] = session[d] /\ output'[d] = output[d] /\ closing'[d] = closing[d]
        /\ ended'[d] = ended[d] /\ unreleased'[d] = unreleased[d] /\ member'[d] = member[d]
        /\ wire'[d] = wire[d] /\ pc'[d] = pc[d] /\ why'[d] = why[d] /\ input'[d] = input[d]
    BY <1>1, <1>7 DEF WsTypes, Moves
  <2>2. TaskOf(d)' = TaskOf(d) BY <2>1 DEF TaskOf
  <2>3. Local(d) BY DEF WsInv
  <2> QED BY <2>1, <2>2, <2>3 DEF Local
<1>8. TotalOk'
  <2>1. PICK b, b1 : b = [d \in Conn |-> queue[d].bytes] /\ b1 = [d \in Conn |-> queue'[d].bytes]
    OBVIOUS
  <2>2. b \in [Conn -> Nat] /\ Counted = Counts(b) BY <2>1, BytesFacts
  <2>3. q.bytes \in Nat BY <1>3 DEF Queues
  <2>4. \A d \in Conn : b1[d] = IF d = c THEN q.bytes ELSE b[d] BY <1>4, <1>7, <2>1
  <2>5. b1 \in [Conn -> Nat] BY <2>1, <2>2, <2>3, <2>4
  <2>6. Cardinality(Counts(b1)) + b[c] = Cardinality(Counts(b)) + b1[c]
    BY <2>2, <2>4, <2>5, CountsReplace
  <2>7. \A d \in Conn : CountsOf(b1, d) = {d} \X (1 .. queue'[d].bytes) BY <2>1 DEF CountsOf
  <2>8. Counted' = Counts(b1) BY <2>7 DEF Counted, Counts
  <2>9. b[c] = queue[c].bytes /\ b1[c] = q.bytes BY <2>1, <2>4
  <2>10. IsFiniteSet(Counts(b1)) BY <2>5, CountsFinite
  <2>11. Cardinality(Counts(b1)) \in Nat BY <2>10, FS_CardinalityType
  <2>12. total = Cardinality(Counts(b)) BY <2>2 DEF WsInv, TotalOk
  <2>13. b[c] \in Nat BY <2>2
  <2>14. total' = Cardinality(Counts(b1)) BY <2>3, <2>6, <2>9, <2>11, <2>12, <2>13 DEF Totals
  <2> QED BY <2>8, <2>14 DEF TotalOk, Totals
<1> QED BY <1>2, <1>6, <1>7, <1>8 DEF WsInv

(* A step that leaves the connections alone keeps it.                      *)
LEMMA StepAside ==
  ASSUME WsInv, UNCHANGED <<connVars, total>>
  PROVE  WsInv'
BY DEF WsInv, WsTypes, TotalOk, Counted, Local, TaskOf, connVars

(* The connection as it is moves nowhere.                                  *)
LEMMA Stays ==
  ASSUME WsInv, NEW c \in Conn
  PROVE  /\ queue = [queue EXCEPT ![c] = queue[c]] /\ log = [log EXCEPT ![c] = log[c]]
         /\ behind = [behind EXCEPT ![c] = behind[c]]
         /\ session = [session EXCEPT ![c] = TaskOf(c).session]
         /\ output = [output EXCEPT ![c] = TaskOf(c).output]
         /\ closing = [closing EXCEPT ![c] = TaskOf(c).closing]
         /\ ended = [ended EXCEPT ![c] = TaskOf(c).ended]
         /\ unreleased = [unreleased EXCEPT ![c] = TaskOf(c).unreleased]
         /\ member = [member EXCEPT ![c] = TaskOf(c).member] /\ wire = [wire EXCEPT ![c] = wire[c]]
         /\ pc = [pc EXCEPT ![c] = pc[c]] /\ why = [why EXCEPT ![c] = why[c]]
         /\ input = [input EXCEPT ![c] = input[c]]
BY DEF WsInv, WsTypes, TaskOf

(* The total as it is.                                                     *)
LEMMA TotalStays ==
  ASSUME WsInv, NEW c \in Conn, NEW bytes, bytes = queue[c].bytes, total' = total
  PROVE  Totals(c, bytes)
<1>1. total \in Nat /\ queue[c].bytes \in Nat BY BytesFacts
<1>2. total <= TotalLimit BY DEF WsInv, TotalOk
<1> QED BY <1>1, <1>2 DEF Totals

-----------------------------------------------------------------------------
(* Other threads.                                                          *)

(* What the limits are.                                                    *)
LEMMA LimitFacts ==
  HighWater \in Nat /\ TotalLimit \in Nat /\ InboxLimit \in Nat /\ HighWater * LimitFactor \in Nat
<1>1. HighWater \in Nat /\ LimitFactor \in Nat /\ TotalLimit \in Nat /\ InboxLimit \in Nat
  BY OutboxAssumption
<1> QED BY <1>1

(* Outbox::push counts the entry.                                          *)
LEMMA PushCounts ==
  ASSUME NEW q \in Queues, NEW e \in Entries, IsSent(e), NEW unrel \in Nat, NEW p,
         CountOk(q, unrel, p), ~q.closed,
         q.bytes + e.octets <= HighWater * LimitFactor
  PROVE  /\ push(q, e) \in Queues /\ push(q, e).bytes = q.bytes + e.octets
         /\ push(q, e).entries = Append(q.entries, e)
         /\ push(q, e).overflowed = q.overflowed /\ push(q, e).closed = q.closed
         /\ push(q, e).ending = (q.ending \/ ends(e))
         /\ CountOk(push(q, e), unrel, p)
<1>1. PICK o \in Nat : o = e.octets BY DEF Entries
<1>2. /\ q.entries \in Seq(Entries) /\ q.bytes \in Nat /\ q.broadcast_bytes \in Nat
      /\ q.ending \in BOOLEAN /\ q.passed \in BOOLEAN
  BY DEF Queues
<1>3. PICK ea : ea = Append(q.entries, e) OBVIOUS
<1>4. ea \in Seq(Entries) BY <1>2, <1>3
<1>5. PICK pa \in BOOLEAN : pa = (q.passed \/ q.bytes + o > HighWater) OBVIOUS
<1>6. PICK en \in BOOLEAN : en = (q.ending \/ ends(e)) OBVIOUS
<1>7. PICK r : r = push(q, e) OBVIOUS
<1>8. r = [q EXCEPT !.bytes = q.bytes + o, !.passed = pa, !.ending = en, !.entries = ea,
                    !.waker = FALSE]
  BY <1>1, <1>3, <1>5, <1>6, <1>7 DEF push
<1>9. q.bytes + o \in Nat BY <1>1, <1>2
<1>10. r \in Queues BY <1>4, <1>8, <1>9 DEF Queues
<1>11. /\ r.bytes = q.bytes + o /\ r.passed = pa /\ r.ending = en /\ r.entries = ea
       /\ r.overflowed = q.overflowed /\ r.closed = q.closed
       /\ r.broadcast_bytes = q.broadcast_bytes
  BY <1>8 DEF Queues
<1>12. Octets(ea, TRUE) = Octets(q.entries, TRUE) + o
  <2>1. Weight(e, TRUE) = o BY <1>1 DEF Weight
  <2> QED BY <1>2, <1>3, <2>1, OctetsAppend
<1>13. Octets(ea, FALSE) = Octets(q.entries, FALSE)
  <2>1. Weight(e, FALSE) = 0 BY DEF Weight
  <2>2. PICK x \in Nat : x = Octets(q.entries, FALSE) BY <1>2, OctetsNat
  <2>3. Octets(ea, FALSE) = x + 0 BY <1>2, <1>3, <2>1, <2>2, OctetsAppend
  <2>4. x + 0 = x OBVIOUS
  <2> QED BY <2>2, <2>3, <2>4
<1>14. PICK x \in Nat : x = Octets(q.entries, TRUE) BY <1>2, OctetsNat
<1>15. p # "done" BY DEF CountOk
<1>16. q.bytes = x + unrel BY <1>14, <1>15 DEF CountOk
<1>17. r.bytes = Octets(r.entries, TRUE) + unrel
  <2>1. Octets(r.entries, TRUE) = x + o BY <1>11, <1>12, <1>14
  <2>2. q.bytes + o = (x + o) + unrel BY <1>16
  <2> QED BY <1>11, <2>1, <2>2
<1>18. pa => (q.bytes + o) * 2 >= HighWater
  <2>1. q.passed => q.bytes * 2 >= HighWater BY DEF CountOk
  <2> QED BY <1>2, <1>5, <2>1, LimitFacts
<1>19. r.broadcast_bytes = Octets(r.entries, FALSE) /\ r.broadcast_bytes <= InboxLimit
  BY <1>11, <1>13 DEF CountOk
<1>20. CountOk(r, unrel, p)
  BY <1>1, <1>11, <1>15, <1>17, <1>18, <1>19 DEF CountOk
<1> QED BY <1>1, <1>3, <1>6, <1>7, <1>10, <1>11, <1>20

(* Outbox::push keeps the invariant.                                       *)
LEMMA PushStep ==
  ASSUME WsInv, NEW c \in Conn, NEW m \in Commands, Push(c, m)
  PROVE  WsInv'
<1>1. PICK e : e = [kind |-> m.kind, octets |-> m.octets, n |-> Len(log[c]) + 1] OBVIOUS
<1>2. PICK q : q = queue[c] OBVIOUS
<1>3. PICK lg : lg = log[c] OBVIOUS
<1>4. /\ q \in Queues /\ lg \in Seq(Kinds) /\ behind[c] \in BOOLEAN /\ TaskOf(c) \in Tasks
      /\ wire[c] \in Seq(Frames) /\ pc[c] \in Steps /\ why[c] \in Reasons /\ input[c] \in Seq(Heard)
      /\ FoldOk(wire[c], TaskOf(c), q.entries, 0, lg, behind[c], why[c], Refusing(q))
      /\ CountOk(q, unreleased[c], pc[c])
      /\ StepOk(q, behind[c], TaskOf(c), pc[c], why[c], input[c])
  BY <1>2, <1>3, ConnFacts
<1>5. m.kind \in Kinds \ {"broadcast"} /\ m.octets \in Nat BY ConnAssumption
<1>6. e \in Entries /\ e.kind = m.kind /\ e.octets = m.octets /\ e.n = Len(lg) + 1 /\ IsSent(e)
  BY <1>1, <1>3, <1>4, <1>5 DEF Entries, IsSent
<1>7. CanPush(q, total, e) BY <1>1, <1>2 DEF Push
<1>8. /\ ~q.closed /\ ~q.ending /\ q.bytes + e.octets <= HighWater * LimitFactor
      /\ total + e.octets <= TotalLimit
  BY <1>7 DEF CanPush
<1>9. unreleased[c] \in Nat BY DEF WsInv, WsTypes
<1>10. PICK r : r = push(q, e) OBVIOUS
<1>11. /\ r \in Queues /\ r.bytes = q.bytes + e.octets /\ r.entries = Append(q.entries, e)
       /\ r.overflowed = q.overflowed /\ r.closed = q.closed /\ r.ending = (q.ending \/ ends(e))
       /\ CountOk(r, unreleased[c], pc[c])
  BY <1>4, <1>6, <1>8, <1>9, <1>10, PushCounts
<1>12. Refusing(q) = FALSE BY <1>4, <1>8 DEF Refusing, Queues
<1>13. ends(e) => Refusing(r) BY <1>11 DEF Refusing
<1>14. PICK l1 : l1 = Append(lg, e.kind) OBVIOUS
<1>15. l1 \in Seq(Kinds) BY <1>4, <1>5, <1>6, <1>14
<1>16. FoldOk(wire[c], TaskOf(c), r.entries, 0, l1, behind[c], why[c], Refusing(r))
  <2>1. q.entries \in Seq(Entries) BY <1>4 DEF Queues
  <2>2. FoldOk(wire[c], TaskOf(c), q.entries, 0, lg, behind[c], why[c], FALSE) BY <1>4, <1>12
  <2>3. PICK ref : ref = Refusing(r) OBVIOUS
  <2>4. FoldOk(wire[c], TaskOf(c), Append(q.entries, e), 0, Append(lg, e.kind), behind[c], why[c], ref)
    BY <1>4, <1>6, <1>13, <2>1, <2>2, <2>3, Queued
  <2> QED BY <1>11, <1>14, <2>3, <2>4, Zenon
<1>17. StepOk(r, behind[c], TaskOf(c), pc[c], why[c], input[c]) BY <1>4, <1>11 DEF StepOk
<1>18. TaskOf(c).unreleased = unreleased[c] BY DEF TaskOf
<1>19. ConnOk(r, l1, behind[c], TaskOf(c), wire[c], pc[c], why[c], input[c])
  BY <1>4, <1>11, <1>15, <1>16, <1>17, <1>18 DEF ConnOk, ConnTypes
<1>20. Moves(c, r, l1, behind[c], TaskOf(c), wire[c], pc[c], why[c], input[c])
  <2>1. queue' = [queue EXCEPT ![c] = r] /\ log' = [log EXCEPT ![c] = l1]
    BY <1>1, <1>2, <1>3, <1>10, <1>14 DEF Push
  <2>2. UNCHANGED <<behind, session, output, closing, ended, unreleased, member, wire, pc, why, input>>
    BY DEF Push, roomVars, sessionVars, taskVars
  <2> QED BY <2>1, <2>2, Stays DEF Moves
<1>21. Totals(c, r.bytes)
  <2>1. total \in Nat /\ q.bytes \in Nat BY <1>2, BytesFacts
  <2>2. total' = total + e.octets BY <1>1 DEF Push
  <2> QED BY <1>2, <1>5, <1>6, <1>8, <1>11, <2>1, <2>2 DEF Totals
<1> QED BY <1>19, <1>20, <1>21, StepAt

(* Outbox::broadcast counts the entry, or drops the ones that wait.        *)
LEMMA BroadcastCounts ==
  ASSUME NEW q \in Queues, NEW e \in Entries, ~IsSent(e), NEW unrel \in Nat, NEW p,
         CountOk(q, unrel, p), ~q.closed
  PROVE  /\ broadcast(q, e) \in Queues /\ broadcast(q, e).bytes = q.bytes
         /\ broadcast(q, e).closed = q.closed /\ broadcast(q, e).ending = q.ending
         /\ Overflows(q, e) => broadcast(q, e).entries = retained(q.entries)
         /\ ~Overflows(q, e) => /\ broadcast(q, e).entries = Append(q.entries, e)
                                /\ broadcast(q, e).overflowed = q.overflowed
         /\ CountOk(broadcast(q, e), unrel, p)
<1>1. PICK o \in Nat : o = e.octets BY DEF Entries
<1>2. q.entries \in Seq(Entries) /\ q.bytes \in Nat /\ q.broadcast_bytes \in Nat BY DEF Queues
<1>3. PICK r : r = broadcast(q, e) OBVIOUS
<1>4. p # "done" BY DEF CountOk
<1>5. PICK x \in Nat : x = Octets(q.entries, TRUE) BY <1>2, OctetsNat
<1>6. PICK z \in Nat : z = Octets(q.entries, FALSE) BY <1>2, OctetsNat
<1>7. q.bytes = x + unrel /\ q.broadcast_bytes = z /\ z <= InboxLimit
  BY <1>4, <1>5, <1>6 DEF CountOk
<1>8. CASE Overflows(q, e)
  <2>1. PICK es : es = retained(q.entries) OBVIOUS
  <2>2. r = [q EXCEPT !.overflowed = TRUE, !.entries = es, !.broadcast_bytes = 0, !.waker = FALSE]
    BY <1>3, <1>8, <2>1 DEF broadcast
  <2>3. es \in Seq(Entries) /\ Octets(es, TRUE) = x /\ Octets(es, FALSE) = 0
    BY <1>2, <1>5, <2>1, RetainedOctets
  <2>4. r \in Queues BY <2>2, <2>3 DEF Queues
  <2>5. /\ r.bytes = q.bytes /\ r.passed = q.passed /\ r.ending = q.ending /\ r.entries = es
        /\ r.closed = q.closed /\ r.broadcast_bytes = 0
    BY <2>2 DEF Queues
  <2>6. r.bytes = Octets(r.entries, TRUE) + unrel BY <1>7, <2>3, <2>5
  <2>7. r.broadcast_bytes = Octets(r.entries, FALSE) BY <2>3, <2>5
  <2>8. r.broadcast_bytes <= InboxLimit BY <2>5, LimitFacts
  <2>9. CountOk(r, unrel, p) BY <1>4, <2>5, <2>6, <2>7, <2>8 DEF CountOk
  <2> QED BY <1>3, <1>8, <2>1, <2>4, <2>5, <2>9
<1>9. CASE ~Overflows(q, e)
  <2>1. PICK ea : ea = Append(q.entries, e) OBVIOUS
  <2>2. PICK b : b = z + o OBVIOUS
  <2>3. b \in Nat /\ b <= InboxLimit BY <1>1, <1>7, <1>9, <2>2, LimitFacts DEF Overflows
  <2>4. r = [q EXCEPT !.broadcast_bytes = b, !.entries = ea, !.waker = FALSE]
    BY <1>1, <1>3, <1>7, <1>9, <2>1, <2>2 DEF broadcast
  <2>5. ea \in Seq(Entries) BY <1>2, <2>1
  <2>6. r \in Queues BY <2>3, <2>4, <2>5 DEF Queues
  <2>7. /\ r.bytes = q.bytes /\ r.passed = q.passed /\ r.ending = q.ending /\ r.entries = ea
        /\ r.closed = q.closed /\ r.overflowed = q.overflowed /\ r.broadcast_bytes = b
    BY <2>4 DEF Queues
  <2>8. Weight(e, TRUE) = 0 /\ Weight(e, FALSE) = o BY <1>1 DEF Weight, IsSent
  <2>9. Octets(ea, TRUE) = x + 0 BY <1>2, <1>5, <2>1, <2>8, OctetsAppend
  <2>10. Octets(ea, FALSE) = b BY <1>2, <1>6, <2>1, <2>2, <2>8, OctetsAppend
  <2>11. x + 0 = x OBVIOUS
  <2>12. r.bytes = Octets(r.entries, TRUE) + unrel BY <1>7, <2>7, <2>9, <2>11
  <2>13. r.broadcast_bytes = Octets(r.entries, FALSE) /\ r.broadcast_bytes <= InboxLimit
    BY <2>3, <2>7, <2>10
  <2>14. CountOk(r, unrel, p) BY <1>4, <2>7, <2>12, <2>13 DEF CountOk
  <2> QED BY <1>3, <1>9, <2>1, <2>6, <2>7, <2>14
<1> QED BY <1>8, <1>9

(* Outbox::broadcast by another thread.                                    *)
LEMMA BroadcastStep ==
  ASSUME WsInv, NEW c \in Conn, Broadcast(c)
  PROVE  WsInv'
<1>1. UNCHANGED <<session, output, closing, ended, unreleased, member, wire, pc, why, input, total>>
  BY DEF Broadcast, sessionVars, taskVars
<1>2. CASE ~CanBroadcast(queue[c])
  <2>1. UNCHANGED <<queue, log, behind>> BY <1>2 DEF Broadcast
  <2> QED BY <1>1, <2>1, StepAside DEF connVars
<1>3. CASE CanBroadcast(queue[c])
  <2>1. PICK e : e = [kind |-> "broadcast", octets |-> CastOctets, n |-> Len(log[c]) + 1] OBVIOUS
  <2>2. PICK q : q = queue[c] OBVIOUS
  <2>3. PICK lg : lg = log[c] OBVIOUS
  <2>4. /\ q \in Queues /\ lg \in Seq(Kinds) /\ behind[c] \in BOOLEAN /\ TaskOf(c) \in Tasks
        /\ wire[c] \in Seq(Frames) /\ pc[c] \in Steps /\ why[c] \in Reasons /\ input[c] \in Seq(Heard)
        /\ FoldOk(wire[c], TaskOf(c), q.entries, 0, lg, behind[c], why[c], Refusing(q))
        /\ CountOk(q, unreleased[c], pc[c])
        /\ StepOk(q, behind[c], TaskOf(c), pc[c], why[c], input[c])
    BY <2>2, <2>3, ConnFacts
  <2>5. CastOctets \in Nat /\ "broadcast" \in Kinds BY ConnAssumption DEF Kinds
  <2>6. /\ e \in Entries /\ e.kind = "broadcast" /\ e.n = Len(lg) + 1 /\ ~IsSent(e) /\ ~ends(e)
    BY <2>1, <2>3, <2>4, <2>5 DEF Entries, IsSent, ends
  <2>7. ~q.closed /\ ~q.ending BY <1>3, <2>2 DEF CanBroadcast
  <2>8. unreleased[c] \in Nat BY DEF WsInv, WsTypes
  <2>9. PICK r : r = broadcast(q, e) OBVIOUS
  <2>10. /\ r \in Queues /\ r.bytes = q.bytes /\ r.closed = q.closed /\ r.ending = q.ending
         /\ Overflows(q, e) => r.entries = retained(q.entries)
         /\ ~Overflows(q, e) => r.entries = Append(q.entries, e) /\ r.overflowed = q.overflowed
         /\ CountOk(r, unreleased[c], pc[c])
    BY <2>4, <2>6, <2>7, <2>8, <2>9, BroadcastCounts
  <2>11. Refusing(q) = FALSE /\ Refusing(r) = FALSE BY <2>4, <2>7, <2>10 DEF Refusing, Queues
  <2>12. PICK l1 : l1 = Append(lg, e.kind) OBVIOUS
  <2>13. PICK bh \in BOOLEAN : bh = (behind[c] \/ Overflows(q, e)) OBVIOUS
  <2>14. l1 \in Seq(Kinds) BY <2>4, <2>5, <2>6, <2>12
  <2>15. FoldOk(wire[c], TaskOf(c), r.entries, 0, l1, bh, why[c], Refusing(r))
    <3>1. q.entries \in Seq(Entries) BY <2>4 DEF Queues
    <3>2. FoldOk(wire[c], TaskOf(c), q.entries, 0, lg, behind[c], why[c], FALSE) BY <2>4, <2>11
    <3>3. CASE Overflows(q, e)
      <4>1. FoldOk(wire[c], TaskOf(c), retained(q.entries), 0, Append(lg, "broadcast"), TRUE,
                   why[c], FALSE)
        BY <2>4, <3>1, <3>2, Dropped
      <4>2. bh = TRUE BY <2>13, <3>3
      <4> QED BY <2>6, <2>10, <2>11, <2>12, <3>3, <4>1, <4>2
    <3>4. CASE ~Overflows(q, e)
      <4>1. FoldOk(wire[c], TaskOf(c), Append(q.entries, e), 0, l1, behind[c], why[c], FALSE)
        BY <2>4, <2>6, <2>12, <3>1, <3>2, Queued
      <4>2. bh = behind[c] BY <2>4, <2>13, <3>4
      <4> QED BY <2>10, <2>11, <3>4, <4>1, <4>2
    <3> QED BY <3>3, <3>4
  <2>16. StepOk(r, bh, TaskOf(c), pc[c], why[c], input[c]) BY <2>4, <2>10, <2>13 DEF StepOk
  <2>17. TaskOf(c).unreleased = unreleased[c] BY DEF TaskOf
  <2>18. ConnOk(r, l1, bh, TaskOf(c), wire[c], pc[c], why[c], input[c])
    BY <2>4, <2>10, <2>14, <2>15, <2>16, <2>17 DEF ConnOk, ConnTypes
  <2>19. Moves(c, r, l1, bh, TaskOf(c), wire[c], pc[c], why[c], input[c])
    <3>1. queue' = [queue EXCEPT ![c] = r] /\ log' = [log EXCEPT ![c] = l1]
      BY <1>3, <2>1, <2>2, <2>3, <2>9, <2>12 DEF Broadcast
    <3>2. behind' = [behind EXCEPT ![c] = bh] BY <1>3, <2>1, <2>2, <2>13 DEF Broadcast
    <3> QED BY <1>1, <3>1, <3>2, Stays DEF Moves
  <2>20. Totals(c, r.bytes) BY <1>1, <2>2, <2>10, TotalStays
  <2> QED BY <2>18, <2>19, <2>20, StepAt
<1> QED BY <1>2, <1>3

(* ReadPause::set.                                                         *)
LEMMA PauseStep ==
  ASSUME WsInv, NEW c \in Conn, Pause(c)
  PROVE  WsInv'
<1>1. UNCHANGED <<queue, log, behind, session, output, closing, ended, unreleased, member, wire, why,
                  input, total>>
  BY DEF Pause, outboxVars, roomVars, sessionVars, taskVars
<1>2. PICK p : p = IF pc[c] = "parked" THEN "pour" ELSE pc[c] OBVIOUS
<1>3. pc' = [pc EXCEPT ![c] = p] BY <1>2 DEF Pause
<1>4. pc[c] # "done" BY DEF Pause
<1>5. Local(c) BY DEF WsInv
<1>6. p \in Steps /\ p # "done" /\ (p = pc[c] \/ (p = "pour" /\ pc[c] = "parked"))
  BY <1>2, <1>4, ConnFacts DEF Steps
<1>7. CountOk(queue[c], unreleased[c], p) BY <1>4, <1>6, ConnFacts DEF CountOk
<1>8. StepOk(queue[c], behind[c], TaskOf(c), p, why[c], input[c]) BY <1>6, ConnFacts DEF StepOk
<1>9. TaskOf(c).unreleased = unreleased[c] BY DEF TaskOf
<1>10. ConnOk(queue[c], log[c], behind[c], TaskOf(c), wire[c], p, why[c], input[c])
  BY <1>6, <1>7, <1>8, <1>9, ConnFacts DEF ConnOk, ConnTypes
<1>11. Moves(c, queue[c], log[c], behind[c], TaskOf(c), wire[c], p, why[c], input[c])
  BY <1>1, <1>3, Stays DEF Moves
<1>12. Totals(c, queue[c].bytes) BY <1>1, TotalStays
<1> QED BY <1>10, <1>11, <1>12, StepAt

-----------------------------------------------------------------------------
(* The connection's task.                                                  *)

(* A connection that was not lost may be: less is asked of it then.        *)
LEMMA FoldWhy ==
  ASSUME NEW w, NEW t, NEW es, NEW from, NEW lg, NEW bh \in BOOLEAN, NEW y, NEW y1, NEW refusing,
         FoldOk(w, t, es, from, lg, bh, y, refusing), y # "dropped"
  PROVE  FoldOk(w, t, es, from, lg, bh, y1, refusing)
<1>1. Live(t.session, y1) => Live(t.session, y) BY DEF Live
<1>2. PICK s : s = w \o t.output OBVIOUS
<1>3. KeepOk(s, es, from, lg, bh, Live(t.session, y)) BY <1>2 DEF FoldOk
<1>4. KeepOk(s, es, from, lg, bh, Live(t.session, y1)) BY <1>1, <1>3 DEF KeepOk
<1> QED BY <1>2, <1>4 DEF FoldOk

(* The queue with its waker set or called.                                 *)
Alike(q, r) ==
  /\ r.entries = q.entries /\ r.bytes = q.bytes /\ r.broadcast_bytes = q.broadcast_bytes
  /\ r.overflowed = q.overflowed /\ r.ending = q.ending /\ r.closed = q.closed
  /\ r.passed = q.passed

(* A step of the loop that changes where the task is, what it heard, why   *)
(* it ends, or the waker.                                                  *)
LEMMA GoesOn ==
  ASSUME WsInv, NEW c \in Conn, NEW p \in Steps \ {"done"}, NEW y \in Reasons, NEW i \in Seq(Heard),
         NEW q \in Queues, Alike(queue[c], q), pc[c] \notin {"finish", "done"},
         UNCHANGED <<log, behind, session, output, closing, ended, unreleased, member, wire, total>>,
         queue' = [queue EXCEPT ![c] = q], pc' = [pc EXCEPT ![c] = p],
         why' = [why EXCEPT ![c] = y], input' = [input EXCEPT ![c] = i],
         p = "finish" => y = "dropped" \/ ended[c] \/ session[c] # "Open",
         p # "finish" => y = "open",
         p = "feed" => i # <<>>
  PROVE  WsInv'
<1>1. why[c] = "open" BY ConnFacts DEF StepOk
<1>2. FoldOk(wire[c], TaskOf(c), queue[c].entries, 0, log[c], behind[c], y, Refusing(queue[c]))
  BY <1>1, ConnFacts, FoldWhy
<1>3. q.entries = queue[c].entries /\ Refusing(q) = Refusing(queue[c]) BY DEF Alike, Refusing
<1>4. FoldOk(wire[c], TaskOf(c), q.entries, 0, log[c], behind[c], y, Refusing(q))
  BY <1>2, <1>3
<1>5. CountOk(q, unreleased[c], p) BY ConnFacts DEF CountOk, Alike
<1>6. TaskOf(c).unreleased = unreleased[c] /\ TaskOf(c).ended = ended[c]
        /\ TaskOf(c).session = session[c]
  BY DEF TaskOf
<1>7. StepOk(q, behind[c], TaskOf(c), p, y, i) BY <1>6, ConnFacts DEF StepOk, Alike
<1>8. ConnOk(q, log[c], behind[c], TaskOf(c), wire[c], p, y, i)
  BY <1>4, <1>5, <1>6, <1>7, ConnFacts DEF ConnOk, ConnTypes
<1>9. Moves(c, q, log[c], behind[c], TaskOf(c), wire[c], p, y, i)
  BY Stays DEF Moves
<1>10. Totals(c, q.bytes) BY TotalStays DEF Alike
<1> QED BY <1>8, <1>9, <1>10, StepAt

(* A lost connection, a refused write and a deadline end the loop.         *)
LEMMA EndsStep ==
  ASSUME WsInv, NEW c \in Conn,
         WriteFails(c) \/ ReadEnds(c) \/ CloseTimeout(c) \/ DropTask(c)
  PROVE  WsInv'
<1>1. /\ UNCHANGED <<queue, log, behind, session, output, closing, ended, unreleased, member, wire,
                     total, input>>
      /\ pc' = [pc EXCEPT ![c] = "finish"]
  BY DEF WriteFails, ReadEnds, CloseTimeout, DropTask, Goto, outboxVars, roomVars, sessionVars, taskVars
<1>2. pc[c] \notin {"finish", "done"}
  BY DEF WriteFails, ReadEnds, CloseTimeout, DropTask, Reading, AtAwait
<1>3. queue[c] \in Queues /\ input[c] \in Seq(Heard) /\ Alike(queue[c], queue[c])
  BY ConnFacts DEF Alike
<1>4. queue' = [queue EXCEPT ![c] = queue[c]] /\ input' = [input EXCEPT ![c] = input[c]]
  BY <1>1, Stays
<1>5. "finish" \in Steps \ {"done"} /\ "dropped" \in Reasons /\ "timeout" \in Reasons
  BY DEF Steps, Reasons
<1>6. CASE WriteFails(c) \/ ReadEnds(c) \/ DropTask(c)
  <2>1. why' = [why EXCEPT ![c] = "dropped"] BY <1>6 DEF WriteFails, ReadEnds, DropTask
  <2> QED BY <1>1, <1>2, <1>3, <1>4, <1>5, <2>1, GoesOn
<1>7. CASE CloseTimeout(c)
  <2>1. why' = [why EXCEPT ![c] = "timeout"] /\ closing[c] BY <1>7 DEF CloseTimeout
  <2>2. TaskOf(c).closing => TaskOf(c).session # "Open" BY ConnFacts DEF FoldOk
  <2>3. session[c] # "Open" BY <2>1, <2>2 DEF TaskOf
  <2> QED BY <1>1, <1>2, <1>3, <1>4, <1>5, <2>1, <2>3, GoesOn
<1> QED BY <1>6, <1>7

(* The loop goes round.                                                    *)
LEMMA RoundStep ==
  ASSUME WsInv, NEW c \in Conn, Report(c) \/ Wake(c) \/ Cancel(c) \/ ReadData(c)
  PROVE  WsInv'
<1>1. /\ UNCHANGED <<queue, log, behind, session, output, closing, ended, unreleased, member, wire,
                     total, why>>
      /\ pc' = [pc EXCEPT ![c] = "pour"]
  BY DEF Report, Wake, Cancel, ReadData, Goto, outboxVars, roomVars, sessionVars, taskVars
<1>2. pc[c] \notin {"finish", "done"} BY DEF Report, Wake, Cancel, ReadData, Reading, AtAwait
<1>3. queue[c] \in Queues /\ input[c] \in Seq(Heard) /\ Alike(queue[c], queue[c]) /\ why[c] = "open"
  BY <1>2, ConnFacts DEF Alike, StepOk
<1>4. queue' = [queue EXCEPT ![c] = queue[c]] /\ why' = [why EXCEPT ![c] = "open"]
  BY <1>1, <1>3, Stays
<1>5. "pour" \in Steps \ {"done"} /\ "open" \in Reasons BY DEF Steps, Reasons
<1>6. PICK i \in Seq(Heard) : input' = [input EXCEPT ![c] = i]
  <2>1. CASE Report(c) \/ Wake(c) \/ Cancel(c)
    <3>1. input' = input BY <2>1 DEF Report, Wake, Cancel, taskVars
    <3> QED BY <1>3, <3>1, Stays
  <2>2. CASE ReadData(c)
    <3>1. PICK f \in PeerFrames : input' = [input EXCEPT ![c] = Append(@, f)] BY <2>2 DEF ReadData
    <3>2. f \in Heard BY ConnAssumption DEF Heard
    <3>3. PICK i : i = Append(input[c], f) OBVIOUS
    <3>4. i \in Seq(Heard) BY <1>3, <3>2, <3>3
    <3>5. input' = [input EXCEPT ![c] = i] BY <3>1, <3>3
    <3> QED BY <3>4, <3>5
  <2> QED BY <2>1, <2>2
<1> QED BY <1>1, <1>2, <1>3, <1>4, <1>5, <1>6, GoesOn

(* Outbox::poll_ready.                                                     *)
LEMMA ParkStep ==
  ASSUME WsInv, NEW c \in Conn, Park(c)
  PROVE  WsInv'
<1>1. UNCHANGED <<log, behind, session, output, closing, ended, unreleased, member, wire, total, why,
                  input>>
  BY DEF Park, roomVars, sessionVars, taskVars
<1>2. pc[c] \notin {"finish", "done"} BY DEF Park
<1>3. queue[c] \in Queues /\ input[c] \in Seq(Heard) /\ why[c] = "open"
  BY <1>2, ConnFacts DEF StepOk
<1>4. why' = [why EXCEPT ![c] = "open"] /\ input' = [input EXCEPT ![c] = input[c]]
  BY <1>1, <1>3, Stays
<1>5. PICK p \in {"pour", "parked"} : pc' = [pc EXCEPT ![c] = p] BY DEF Park, Goto
<1>6. p \in Steps \ {"done"} /\ "open" \in Reasons BY DEF Steps, Reasons
<1>7. PICK q \in Queues : Alike(queue[c], q) /\ queue' = [queue EXCEPT ![c] = q]
  <2>1. CASE queue' = queue
    <3>1. Alike(queue[c], queue[c]) BY DEF Alike
    <3> QED BY <1>3, <2>1, <3>1, Stays
  <2>2. CASE queue' = [queue EXCEPT ![c] = register(@)]
    <3>1. PICK q : q = register(queue[c]) OBVIOUS
    <3>2. q \in Queues BY <1>3, <3>1 DEF Queues, register
    <3>3. Alike(queue[c], q) BY <1>3, <3>1 DEF Queues, register, Alike
    <3> QED BY <2>2, <3>1, <3>2, <3>3
  <2> QED BY <2>1, <2>2 DEF Park
<1> QED BY <1>1, <1>2, <1>3, <1>4, <1>5, <1>6, <1>7, GoesOn

(* An outbox that was taken from.                                          *)
Emptied(q, r) ==
  /\ r.entries = <<>> /\ r.bytes = q.bytes /\ r.broadcast_bytes = 0 /\ r.passed = q.passed
  /\ r.overflowed => q.overflowed
  /\ Refusing(q) => Refusing(r)

(* Outbox::take and Outbox::seal.                                          *)
LEMMA TakeFacts ==
  ASSUME NEW q \in Queues
  PROVE  /\ take(q) \in Queues /\ Emptied(q, take(q))
         /\ seal(q) \in Queues /\ Emptied(q, seal(q)) /\ Refusing(seal(q))
<1>1. PICK r, x, none : r = take(q) /\ x = seal(q) /\ none = <<>> OBVIOUS
<1>2. none \in Seq(Entries) BY <1>1
<1>3. /\ r = [q EXCEPT !.entries = none, !.broadcast_bytes = 0, !.overflowed = FALSE]
      /\ x = [q EXCEPT !.entries = none, !.broadcast_bytes = 0, !.closed = TRUE]
  BY <1>1 DEF take, seal
<1>4. r \in Queues /\ x \in Queues BY <1>2, <1>3 DEF Queues
<1>5. Emptied(q, r) BY <1>1, <1>3 DEF Queues, Emptied, Refusing
<1>6. Emptied(q, x) /\ Refusing(x) BY <1>1, <1>3 DEF Queues, Emptied, Refusing
<1> QED BY <1>1, <1>4, <1>5, <1>6

(* The sum of what is released and nothing.                                *)
LEMMA SumSwapped == \A x, z \in Nat : x + z = 0 + (z + x)
OBVIOUS

(* Its octets wait to be released.                                         *)
LEMMA TakeCounts ==
  ASSUME NEW q \in Queues, NEW r \in Queues, Emptied(q, r), NEW unrel \in Nat, NEW unrel1, NEW p, NEW p1,
         CountOk(q, unrel, p), p # "done", p1 # "done", unrel1 = unrel + Octets(q.entries, TRUE)
  PROVE  CountOk(r, unrel1, p1)
<1>1. q.entries \in Seq(Entries) BY DEF Queues
<1>2. PICK x \in Nat : x = Octets(q.entries, TRUE) BY <1>1, OctetsNat
<1>3. q.bytes = x + unrel BY <1>2 DEF CountOk
<1>4. Octets(r.entries, TRUE) = 0 /\ Octets(r.entries, FALSE) = 0 BY OctetsEmpty DEF Emptied
<1>5. unrel1 = unrel + x BY <1>2
<1>6. q.bytes = 0 + unrel1 BY <1>3, <1>5, SumSwapped, Zenon
<1>7. r.bytes = Octets(r.entries, TRUE) + unrel1 BY <1>4, <1>6 DEF Emptied
<1>8. r.broadcast_bytes = Octets(r.entries, FALSE) BY <1>4 DEF Emptied
<1>9. r.broadcast_bytes <= InboxLimit BY LimitFacts DEF Emptied
<1>10. r.bytes <= HighWater * LimitFactor /\ (r.passed => r.bytes * 2 >= HighWater)
  BY DEF Emptied, CountOk
<1> QED BY <1>7, <1>8, <1>9, <1>10 DEF CountOk

(* A step that takes what waits.                                           *)
LEMMA TakesStep ==
  ASSUME WsInv, NEW c \in Conn, NEW q \in Queues, NEW v \in Tasks, NEW p \in {"pour", "seal", "flush"},
         pc[c] \notin {"finish", "done"}, Emptied(queue[c], q),
         v.unreleased = unreleased[c] + Octets(queue[c].entries, TRUE),
         FoldOk(wire[c], v, <<>>, 0, log[c], behind[c], why[c], Refusing(q)),
         queue' = [queue EXCEPT ![c] = q], Becomes(c, v), pc' = [pc EXCEPT ![c] = p],
         UNCHANGED <<total, log, behind, input, wire, why>>
  PROVE  WsInv'
<1>1. why[c] = "open" BY ConnFacts DEF StepOk
<1>2. unreleased[c] \in Nat /\ CountOk(queue[c], unreleased[c], pc[c]) /\ queue[c] \in Queues
  BY ConnFacts DEF WsInv, WsTypes
<1>3. CountOk(q, v.unreleased, p) BY <1>2, TakeCounts
<1>4. FoldOk(wire[c], v, q.entries, 0, log[c], behind[c], why[c], Refusing(q)) BY DEF Emptied
<1>5. StepOk(q, behind[c], v, p, why[c], input[c]) BY <1>1, ConnFacts DEF StepOk, Emptied
<1>6. p \in Steps BY DEF Steps
<1>7. ConnOk(q, log[c], behind[c], v, wire[c], p, why[c], input[c])
  BY <1>3, <1>4, <1>5, <1>6, ConnFacts DEF ConnOk, ConnTypes
<1>8. Moves(c, q, log[c], behind[c], v, wire[c], p, why[c], input[c])
  BY Stays DEF Moves, Becomes
<1>9. Totals(c, q.bytes) BY TotalStays DEF Emptied
<1> QED BY <1>7, <1>8, <1>9, StepAt

(* Applying what waits to the task, or to the task once it fell behind.    *)
LEMMA AppliesAll ==
  ASSUME WsInv, NEW c \in Conn, pc[c] \notin {"finish", "done"}, NEW t \in Tasks,
         t.unreleased = unreleased[c],
         FoldOk(wire[c], t, queue[c].entries, 0, log[c], behind[c], why[c], Refusing(queue[c])),
         NEW q \in Queues, Emptied(queue[c], q)
  PROVE  /\ ApplyAll(t, queue[c].entries) \in Tasks
         /\ ApplyAll(t, queue[c].entries).unreleased
              = unreleased[c] + Octets(queue[c].entries, TRUE)
         /\ FoldOk(wire[c], ApplyAll(t, queue[c].entries), <<>>, 0, log[c], behind[c], why[c],
                   Refusing(q))
<1>1. queue[c].entries \in Seq(Entries) BY ConnFacts DEF Queues
<1>2. why[c] # "dropped" BY ConnFacts DEF StepOk
<1>3. PICK ref, ref1 : ref = Refusing(queue[c]) /\ ref1 = Refusing(q) OBVIOUS
<1>4. ref \in BOOLEAN /\ ref1 \in BOOLEAN /\ (ref => ref1)
  BY <1>3, ConnFacts DEF Refusing, Emptied, Queues
<1>5. FoldOk(wire[c], t, queue[c].entries, 0, log[c], behind[c], why[c], ref) BY <1>3
<1>6. FoldOk(wire[c], ApplyAll(t, queue[c].entries), <<>>, 0, log[c], behind[c], why[c], ref1)
  BY <1>1, <1>2, <1>4, <1>5, ConnFacts, Taken
<1>7. /\ ApplyAll(t, queue[c].entries) \in Tasks
      /\ ApplyAll(t, queue[c].entries).unreleased = t.unreleased + Octets(queue[c].entries, TRUE)
  BY <1>1, ApplyReleases
<1> QED BY <1>3, <1>6, <1>7

(* WebSocket::pour.                                                        *)
LEMMA PourStep ==
  ASSUME WsInv, NEW c \in Conn, Pour(c)
  PROVE  WsInv'
<1>1. PICK t : t = IF queue[c].overflowed THEN FellBehind(TaskOf(c)) ELSE TaskOf(c) OBVIOUS
<1>2. PICK v : v = ApplyAll(t, queue[c].entries) OBVIOUS
<1>3. PICK q : q = take(queue[c]) OBVIOUS
<1>4. pc[c] = "pour" /\ queue' = [queue EXCEPT ![c] = q] /\ Becomes(c, v)
  BY <1>1, <1>2, <1>3 DEF Pour
<1>5. UNCHANGED <<total, log, behind, input, wire, why>> BY DEF Pour
<1>6. PICK p \in {"pour", "seal", "flush"} : pc' = [pc EXCEPT ![c] = p] BY DEF Pour, Goto
<1>7. queue[c] \in Queues /\ TaskOf(c) \in Tasks BY ConnFacts
<1>8. q \in Queues /\ Emptied(queue[c], q) BY <1>3, <1>7, TakeFacts
<1>9. TaskOf(c).unreleased = unreleased[c] BY DEF TaskOf
<1>10. /\ t \in Tasks /\ t.unreleased = unreleased[c]
       /\ FoldOk(wire[c], t, queue[c].entries, 0, log[c], behind[c], why[c], Refusing(queue[c]))
  <2>1. CASE ~queue[c].overflowed BY <1>1, <1>7, <1>9, <2>1, ConnFacts
  <2>2. CASE queue[c].overflowed
    <3>1. PICK u : u = [TaskOf(c) EXCEPT !.member = FALSE] OBVIOUS
    <3>2. u \in Tasks /\ u.unreleased = unreleased[c] BY <1>7, <1>9, <3>1 DEF Tasks
    <3>3. /\ u.session = TaskOf(c).session /\ u.output = TaskOf(c).output
          /\ u.ended = TaskOf(c).ended /\ u.closing = TaskOf(c).closing
      BY <1>7, <3>1 DEF Tasks
    <3>4. FoldOk(wire[c], TaskOf(c), queue[c].entries, 0, log[c], behind[c], why[c],
                 Refusing(queue[c]))
      BY ConnFacts
    <3>5. u.closing => u.session # "Open" BY <3>3, <3>4 DEF FoldOk
    <3>6. FoldOk(wire[c], u, queue[c].entries, 0, log[c], behind[c], why[c], Refusing(queue[c]))
      BY <3>3, <3>4, <3>5, FoldSame
    <3>7. PICK f : f = Frame("tryagain", 0) OBVIOUS
    <3>8. f \in Frames /\ f.kind = "tryagain" BY <3>7, FrameType DEF FrameKinds
    <3>9. IsClose(f) BY <3>8 DEF IsClose
    <3>10. t = CloseSession(u, f) BY <1>1, <2>2, <3>1, <3>7 DEF FellBehind
    <3>11. behind[c] BY <2>2, ConnFacts DEF StepOk
    <3>12. PICK ref \in BOOLEAN : ref = Refusing(queue[c]) BY <1>7 DEF Refusing, Queues
    <3>13. FoldOk(wire[c], t, queue[c].entries, 0, log[c], behind[c], why[c], ref)
      <4>1. wire[c] \in Seq(Frames) /\ behind[c] \in BOOLEAN BY ConnFacts
      <4>2. FoldOk(wire[c], u, queue[c].entries, 0, log[c], behind[c], why[c], ref)
        BY <3>6, <3>12, Zenon
      <4>3. FoldOk(wire[c], CloseSession(u, f), queue[c].entries, 0, log[c], behind[c], why[c], ref)
        BY <3>2, <3>8, <3>9, <3>11, <4>1, <4>2, CloseKeeps
      <4> QED BY <3>10, <4>3, Zenon
    <3>14. t \in Tasks /\ t.unreleased = unreleased[c] BY <3>2, <3>8, <3>10, CloseTypes
    <3> QED BY <3>12, <3>13, <3>14
  <2> QED BY <2>1, <2>2
<1>11. /\ v \in Tasks /\ v.unreleased = unreleased[c] + Octets(queue[c].entries, TRUE)
       /\ FoldOk(wire[c], v, <<>>, 0, log[c], behind[c], why[c], Refusing(q))
  BY <1>2, <1>4, <1>8, <1>10, AppliesAll
<1> QED BY <1>4, <1>5, <1>6, <1>8, <1>11, TakesStep

(* The end of WebSocket::pour.                                             *)
LEMMA SealStep ==
  ASSUME WsInv, NEW c \in Conn, Seal(c)
  PROVE  WsInv'
<1>1. PICK v : v = ApplyAll(TaskOf(c), queue[c].entries) OBVIOUS
<1>2. PICK q : q = seal(queue[c]) OBVIOUS
<1>3. pc[c] = "seal" /\ queue' = [queue EXCEPT ![c] = q] /\ Becomes(c, v)
        /\ pc' = [pc EXCEPT ![c] = "flush"]
  BY <1>1, <1>2 DEF Seal, Goto
<1>4. UNCHANGED <<total, log, behind, input, wire, why>> BY DEF Seal
<1>5. queue[c] \in Queues /\ TaskOf(c) \in Tasks BY ConnFacts
<1>6. q \in Queues /\ Emptied(queue[c], q) BY <1>2, <1>5, TakeFacts
<1>7. TaskOf(c).unreleased = unreleased[c] BY DEF TaskOf
<1>8. FoldOk(wire[c], TaskOf(c), queue[c].entries, 0, log[c], behind[c], why[c], Refusing(queue[c]))
  BY ConnFacts
<1>9. /\ v \in Tasks /\ v.unreleased = unreleased[c] + Octets(queue[c].entries, TRUE)
      /\ FoldOk(wire[c], v, <<>>, 0, log[c], behind[c], why[c], Refusing(q))
  BY <1>1, <1>3, <1>5, <1>6, <1>7, <1>8, AppliesAll
<1> QED BY <1>3, <1>4, <1>6, <1>9, TakesStep

(* The shutdown signal.                                                    *)
LEMMA GoAwayStep ==
  ASSUME WsInv, NEW c \in Conn, GoAway(c)
  PROVE  WsInv'
<1>1. PICK t : t = ApplyAll(TaskOf(c), queue[c].entries) OBVIOUS
<1>2. PICK f : f = Frame("goaway", 0) OBVIOUS
<1>3. PICK v : v = IF t.ended THEN t ELSE [CloseSession(t, f) EXCEPT !.closing = TRUE] OBVIOUS
<1>4. PICK q : q = seal(queue[c]) OBVIOUS
<1>5. pc[c] \notin {"finish", "done"} BY DEF GoAway, Reading
<1>6. queue' = [queue EXCEPT ![c] = q] /\ Becomes(c, v) /\ pc' = [pc EXCEPT ![c] = "pour"]
  BY <1>1, <1>2, <1>3, <1>4 DEF GoAway, Goto
<1>7. UNCHANGED <<total, log, behind, input, wire, why>> BY DEF GoAway
<1>8. queue[c] \in Queues /\ TaskOf(c) \in Tasks BY ConnFacts
<1>9. q \in Queues /\ Emptied(queue[c], q) /\ Refusing(q) BY <1>4, <1>8, TakeFacts
<1>10. TaskOf(c).unreleased = unreleased[c] BY DEF TaskOf
<1>11. FoldOk(wire[c], TaskOf(c), queue[c].entries, 0, log[c], behind[c], why[c],
              Refusing(queue[c]))
  BY ConnFacts
<1>12. /\ t \in Tasks /\ t.unreleased = unreleased[c] + Octets(queue[c].entries, TRUE)
       /\ FoldOk(wire[c], t, <<>>, 0, log[c], behind[c], why[c], Refusing(q))
  BY <1>1, <1>5, <1>8, <1>9, <1>10, <1>11, AppliesAll
<1>13. /\ v \in Tasks /\ v.unreleased = t.unreleased
       /\ FoldOk(wire[c], v, <<>>, 0, log[c], behind[c], why[c], Refusing(q))
  <2>1. CASE t.ended BY <1>3, <1>12, <2>1
  <2>2. CASE ~t.ended
    <3>1. f \in Frames /\ f.kind = "goaway" BY <1>2, FrameType DEF FrameKinds
    <3>2. IsClose(f) BY <3>1 DEF IsClose
    <3>3. PICK u : u = CloseSession(t, f) OBVIOUS
    <3>4. u \in Tasks /\ u.unreleased = t.unreleased BY <1>12, <3>1, <3>3, CloseTypes
    <3>5. v = [u EXCEPT !.closing = TRUE] BY <1>3, <2>2, <3>3
    <3>6. /\ v \in Tasks /\ v.unreleased = u.unreleased /\ v.session = u.session
          /\ v.output = u.output /\ v.ended = u.ended
      BY <3>4, <3>5 DEF Tasks
    <3>7. u.session # "Open" BY <1>12, <3>1, <3>3, CloseTypes
    <3>8. PICK ref \in BOOLEAN : ref = Refusing(q) /\ ref = TRUE BY <1>9
    <3>9. PICK none : none = <<>> OBVIOUS
    <3>10. Len(none) = 0 BY <3>9
    <3>11. FoldOk(wire[c], t, none, 0, log[c], behind[c], why[c], ref) BY <1>12, <3>8, <3>9
    <3>12. FoldOk(wire[c], u, none, 0, log[c], behind[c], why[c], ref)
      BY <1>12, <3>1, <3>2, <3>3, <3>8, <3>10, <3>11, ConnFacts, CloseKeeps
    <3>13. FoldOk(wire[c], v, none, 0, log[c], behind[c], why[c], ref)
      BY <3>6, <3>7, <3>12, FoldSame
    <3> QED BY <3>4, <3>6, <3>8, <3>9, <3>13
  <2> QED BY <2>1, <2>2
<1> QED BY <1>5, <1>6, <1>7, <1>9, <1>12, <1>13, TakesStep

(* Two sequences of frames in a row.                                       *)
LEMMA ConcatFacts ==
  ASSUME NEW a \in Seq(Frames), NEW b \in Seq(Frames)
  PROVE  /\ a \o b \in Seq(Frames) /\ Len(a \o b) = Len(a) + Len(b)
         /\ \A i \in 1 .. Len(a) + Len(b) :
              (a \o b)[i] = IF i <= Len(a) THEN a[i] ELSE b[i - Len(a)]
OBVIOUS

(* The head of one sequence moved to the end of another.                   *)
LEMMA MoveHead ==
  ASSUME NEW a \in Seq(Frames), NEW o \in Seq(Frames), o # <<>>
  PROVE  /\ Tail(o) \in Seq(Frames) /\ Append(a, Head(o)) \in Seq(Frames)
         /\ Append(a, Head(o)) \o Tail(o) = a \o o
<1>1. PICK h, r, b : h = Head(o) /\ r = Tail(o) /\ b = Append(a, h) OBVIOUS
<1>2. Len(o) \in Nat /\ Len(o) >= 1 /\ Len(a) \in Nat OBVIOUS
<1>3. h = o[1] /\ h \in Frames /\ r \in Seq(Frames) /\ Len(r) = Len(o) - 1 BY <1>1, <1>2
<1>4. \A i \in 1 .. Len(r) : r[i] = o[i + 1] BY <1>1
<1>5. b \in Seq(Frames) /\ Len(b) = Len(a) + 1 /\ b[Len(a) + 1] = h BY <1>1, <1>3
<1>6. \A i \in 1 .. Len(a) : b[i] = a[i] BY <1>1, <1>3
<1>7. PICK x, z : x = b \o r /\ z = a \o o OBVIOUS
<1>8. x \in Seq(Frames) /\ Len(x) = Len(b) + Len(r) BY <1>3, <1>5, <1>7, ConcatFacts
<1>9. z \in Seq(Frames) /\ Len(z) = Len(a) + Len(o) BY <1>7
<1>10. Len(x) = Len(z) BY <1>2, <1>3, <1>5, <1>8, <1>9
<1>11. \A i \in 1 .. Len(x) : x[i] = IF i <= Len(b) THEN b[i] ELSE r[i - Len(b)]
  BY <1>3, <1>5, <1>7, <1>8, ConcatFacts
<1>12. \A i \in 1 .. Len(z) : z[i] = IF i <= Len(a) THEN a[i] ELSE o[i - Len(a)]
  BY <1>7, <1>9, ConcatFacts
<1>13. \A i \in 1 .. Len(x) : x[i] = z[i]
  <2>1. SUFFICES ASSUME NEW i \in 1 .. Len(x) PROVE x[i] = z[i] OBVIOUS
  <2>2. i \in Nat /\ i >= 1 /\ i <= Len(z) /\ i \in 1 .. Len(z) BY <1>2, <1>9, <1>10
  <2>3. CASE i <= Len(a) BY <1>2, <1>5, <1>6, <1>11, <1>12, <2>2, <2>3
  <2>4. CASE i = Len(a) + 1
    <3>1. i <= Len(b) /\ ~(i <= Len(a)) /\ i - Len(a) = 1 BY <1>2, <1>5, <2>4
    <3> QED BY <1>3, <1>5, <1>11, <1>12, <2>2, <2>4, <3>1
  <2>5. CASE i > Len(a) + 1
    <3>1. ~(i <= Len(b)) /\ ~(i <= Len(a)) BY <1>2, <1>5, <2>2, <2>5
    <3>2. i - Len(b) \in 1 .. Len(r) /\ (i - Len(b)) + 1 = i - Len(a)
      BY <1>2, <1>3, <1>5, <1>9, <2>2, <2>5
    <3>3. r[i - Len(b)] = o[i - Len(a)] BY <1>4, <3>2
    <3> QED BY <1>11, <1>12, <2>2, <3>1, <3>3
  <2> QED BY <1>2, <2>2, <2>3, <2>4, <2>5
<1>14. x = z BY <1>8, <1>9, <1>10, <1>13, SeqEqual
<1> QED BY <1>1, <1>3, <1>5, <1>7, <1>14

(* A part of the output written: what was sent and is to be is the same.   *)
LEMMA WriteStep ==
  ASSUME WsInv, NEW c \in Conn, Write(c)
  PROVE  WsInv'
<1>1. PICK o, w : o = Tail(output[c]) /\ w = Append(wire[c], Head(output[c])) OBVIOUS
<1>2. output[c] # <<>> /\ pc[c] = "flush" /\ output[c] \in Seq(Frames) /\ wire[c] \in Seq(Frames)
  BY DEF Write, WsInv, WsTypes
<1>3. o \in Seq(Frames) /\ w \in Seq(Frames) /\ w \o o = wire[c] \o output[c]
  BY <1>1, <1>2, MoveHead
<1>4. PICK t : t = [TaskOf(c) EXCEPT !.output = o] OBVIOUS
<1>5. TaskOf(c) \in Tasks /\ TaskOf(c).output = output[c] /\ TaskOf(c).unreleased = unreleased[c]
  BY ConnFacts DEF TaskOf
<1>6. t \in Tasks BY <1>3, <1>4, <1>5 DEF Tasks
<1>7. /\ t.session = TaskOf(c).session /\ t.ended = TaskOf(c).ended /\ t.closing = TaskOf(c).closing
      /\ t.unreleased = TaskOf(c).unreleased /\ t.member = TaskOf(c).member /\ t.output = o
  BY <1>4, <1>5 DEF Tasks
<1>8. FoldOk(w, t, queue[c].entries, 0, log[c], behind[c], why[c], Refusing(queue[c]))
  <2>1. w \o t.output = wire[c] \o TaskOf(c).output BY <1>3, <1>5, <1>7
  <2>2. FoldOk(wire[c], TaskOf(c), queue[c].entries, 0, log[c], behind[c], why[c],
               Refusing(queue[c]))
    BY ConnFacts
  <2> QED BY <1>7, <2>1, <2>2 DEF FoldOk
<1>9. StepOk(queue[c], behind[c], t, pc[c], why[c], input[c]) BY <1>7, ConnFacts DEF StepOk
<1>10. ConnOk(queue[c], log[c], behind[c], t, w, pc[c], why[c], input[c])
  BY <1>3, <1>5, <1>6, <1>7, <1>8, <1>9, ConnFacts DEF ConnOk, ConnTypes
<1>11. Moves(c, queue[c], log[c], behind[c], t, w, pc[c], why[c], input[c])
  <2>1. wire' = [wire EXCEPT ![c] = w] /\ output' = [output EXCEPT ![c] = o] BY <1>1 DEF Write
  <2>2. UNCHANGED <<queue, log, behind, session, closing, ended, unreleased, member, pc, why, input>>
    BY DEF Write, outboxVars, roomVars, taskVars
  <2> QED BY <1>7, <2>1, <2>2, Stays DEF Moves
<1>12. Totals(c, queue[c].bytes) BY TotalStays DEF Write, outboxVars
<1> QED BY <1>10, <1>11, <1>12, StepAt

(* Outbox::release of everything the connection applied.                   *)
LEMMA ReleaseFacts ==
  ASSUME NEW q \in Queues, NEW o \in Nat, NEW p, p # "done", CountOk(q, o, p)
  PROVE  /\ Freed(q, o) = o /\ release(q, o) \in Queues /\ release(q, o).bytes + o = q.bytes
         /\ release(q, o).entries = q.entries /\ release(q, o).overflowed = q.overflowed
         /\ release(q, o).ending = q.ending /\ release(q, o).closed = q.closed
         /\ \A p1 : p1 # "done" => CountOk(release(q, o), 0, p1)
<1>1. q.entries \in Seq(Entries) /\ q.bytes \in Nat /\ q.passed \in BOOLEAN BY DEF Queues
<1>2. PICK x \in Nat : x = Octets(q.entries, TRUE) BY <1>1, OctetsNat
<1>3. q.bytes = x + o BY <1>2 DEF CountOk
<1>4. o <= q.bytes /\ q.bytes - o = x BY <1>3
<1>5. Freed(q, o) = o BY <1>4 DEF Freed
<1>6. PICK pa \in BOOLEAN : pa = (q.passed /\ ~Drains(q, o)) OBVIOUS
<1>7. PICK r : r = release(q, o) OBVIOUS
<1>8. r = [q EXCEPT !.bytes = x, !.passed = pa] BY <1>4, <1>5, <1>6, <1>7 DEF release
<1>9. r \in Queues BY <1>8 DEF Queues
<1>10. /\ r.bytes = x /\ r.passed = pa /\ r.entries = q.entries /\ r.overflowed = q.overflowed
       /\ r.ending = q.ending /\ r.closed = q.closed /\ r.broadcast_bytes = q.broadcast_bytes
  BY <1>8 DEF Queues
<1>11. x <= HighWater * LimitFactor
  <2>1. q.bytes <= HighWater * LimitFactor BY DEF CountOk
  <2>2. PICK h \in Nat : h = HighWater * LimitFactor BY LimitFacts
  <2>3. x <= h BY <1>3, <2>1, <2>2
  <2> QED BY <2>2, <2>3
<1>12. pa => x * 2 >= HighWater
  <2>1. Drains(q, o) <=> q.passed /\ x * 2 < HighWater BY <1>4, <1>5 DEF Drains
  <2>2. pa => ~(x * 2 < HighWater) BY <1>6, <2>1, Zenon
  <2>3. x * 2 \in Nat /\ HighWater \in Nat BY LimitFacts
  <2>4. ~(x * 2 < HighWater) => x * 2 >= HighWater BY <2>3
  <2> QED BY <2>2, <2>4, Zenon
<1>13. q.broadcast_bytes = Octets(q.entries, FALSE) /\ q.broadcast_bytes <= InboxLimit
  BY DEF CountOk
<1>14. x = x + 0 OBVIOUS
<1>15. r.bytes = Octets(r.entries, TRUE) + 0 BY <1>2, <1>10, <1>14, Zenon
<1>16. \A p1 : p1 # "done" => CountOk(r, 0, p1)
  BY <1>10, <1>11, <1>12, <1>13, <1>15 DEF CountOk
<1> QED BY <1>3, <1>5, <1>7, <1>9, <1>10, <1>16

(* Everything written.                                                     *)
LEMMA FlushedStep ==
  ASSUME WsInv, NEW c \in Conn, Flushed(c)
  PROVE  WsInv'
<1>1. PICK o : o = unreleased[c] OBVIOUS
<1>2. PICK q : q = queue[c] OBVIOUS
<1>3. /\ q \in Queues /\ TaskOf(c) \in Tasks /\ CountOk(q, o, pc[c])
      /\ FoldOk(wire[c], TaskOf(c), q.entries, 0, log[c], behind[c], why[c], Refusing(q))
      /\ StepOk(q, behind[c], TaskOf(c), pc[c], why[c], input[c])
  BY <1>1, <1>2, ConnFacts
<1>4. o \in Nat /\ pc[c] = "flush" BY <1>1 DEF Flushed, WsInv, WsTypes
<1>5. PICK r : r = release(q, o) OBVIOUS
<1>6. /\ Freed(q, o) = o /\ r \in Queues /\ r.bytes + o = q.bytes /\ r.entries = q.entries
      /\ r.overflowed = q.overflowed /\ r.ending = q.ending /\ r.closed = q.closed
      /\ \A p1 : p1 # "done" => CountOk(r, 0, p1)
  BY <1>3, <1>4, <1>5, ReleaseFacts
<1>7. PICK z : z = IF o = 0 THEN q ELSE r OBVIOUS
<1>8. q.bytes \in Nat /\ r.bytes \in Nat BY <1>3, <1>6 DEF Queues
<1>9. /\ z \in Queues /\ z.bytes + o = q.bytes /\ z.entries = q.entries
      /\ z.overflowed = q.overflowed /\ Refusing(z) = Refusing(q)
      /\ \A p1 : p1 # "done" => CountOk(z, 0, p1)
  <2>1. CASE o = 0
    <3>1. z = q BY <1>7, <2>1
    <3>2. q.bytes + 0 = q.bytes BY <1>8
    <3>3. \A p1 : p1 # "done" => CountOk(q, 0, p1) BY <1>3, <1>4, <2>1 DEF CountOk
    <3> QED BY <1>3, <2>1, <3>1, <3>2, <3>3
  <2>2. CASE o # 0
    <3>1. z = r BY <1>7, <2>2
    <3> QED BY <1>6, <3>1 DEF Refusing
  <2> QED BY <2>1, <2>2
<1>10. PICK over : over = (Finished(session[c]) \/ ended[c]) OBVIOUS
<1>11. PICK y : y = IF ~over THEN why[c] ELSE IF ended[c] THEN "ended" ELSE "closed" OBVIOUS
<1>12. PICK p : p = IF over THEN "finish"
                    ELSE IF drained'[c] THEN "report"
                    ELSE IF input[c] # <<>> /\ ~paused[c] THEN "feed" ELSE "read"
  OBVIOUS
<1>13. PICK t : t = [TaskOf(c) EXCEPT !.unreleased = 0] OBVIOUS
<1>14. t \in Tasks BY <1>3, <1>13 DEF Tasks
<1>15. /\ t.session = TaskOf(c).session /\ t.ended = TaskOf(c).ended /\ t.closing = TaskOf(c).closing
       /\ t.output = TaskOf(c).output /\ t.member = TaskOf(c).member /\ t.unreleased = 0
  BY <1>3, <1>13 DEF Tasks
<1>16. why[c] = "open" BY <1>3, <1>4 DEF StepOk
<1>17. y \in Reasons /\ p \in Steps /\ p # "done" BY <1>11, <1>12, <1>16 DEF Reasons, Steps
<1>18. FoldOk(wire[c], t, z.entries, 0, log[c], behind[c], y, Refusing(z))
  <2>1. TaskOf(c).closing => TaskOf(c).session # "Open" BY <1>3 DEF FoldOk
  <2>2. FoldOk(wire[c], t, q.entries, 0, log[c], behind[c], why[c], Refusing(q))
    BY <1>3, <1>15, <2>1, FoldSame
  <2>3. behind[c] \in BOOLEAN BY ConnFacts
  <2>4. FoldOk(wire[c], t, q.entries, 0, log[c], behind[c], y, Refusing(q))
    BY <1>16, <2>2, <2>3, FoldWhy
  <2> QED BY <1>9, <2>4
<1>19. TaskOf(c).ended = ended[c] /\ TaskOf(c).session = session[c] BY DEF TaskOf
<1>20. over => ended[c] \/ session[c] # "Open" BY <1>10 DEF Finished
<1>21. StepOk(z, behind[c], t, p, y, input[c])
  BY <1>3, <1>9, <1>11, <1>12, <1>15, <1>16, <1>17, <1>19, <1>20 DEF StepOk
<1>22. CountOk(z, t.unreleased, p) BY <1>9, <1>15, <1>17
<1>23. ConnOk(z, log[c], behind[c], t, wire[c], p, y, input[c])
  BY <1>9, <1>14, <1>17, <1>18, <1>21, <1>22, ConnFacts DEF ConnOk, ConnTypes
<1>24. Moves(c, z, log[c], behind[c], t, wire[c], p, y, input[c])
  <2>1. queue' = [queue EXCEPT ![c] = z]
    <3>1. queue' = IF o = 0 THEN queue ELSE [queue EXCEPT ![c] = r]
      BY <1>1, <1>2, <1>5 DEF Flushed
    <3> QED BY <1>2, <1>7, <3>1, Stays
  <2>2. unreleased' = [unreleased EXCEPT ![c] = 0] /\ why' = [why EXCEPT ![c] = y]
    BY <1>10, <1>11 DEF Flushed
  <2>3. pc' = [pc EXCEPT ![c] = p] BY <1>10, <1>12 DEF Flushed, Goto
  <2>4. UNCHANGED <<log, behind, session, output, closing, ended, member, wire, input>>
    BY DEF Flushed, roomVars, sessionVars
  <2> QED BY <1>15, <2>1, <2>2, <2>3, <2>4, Stays DEF Moves
<1>25. Totals(c, z.bytes)
  <2>1. total' = total - o BY <1>1, <1>2, <1>6 DEF Flushed
  <2>2. total \in Nat /\ q.bytes <= total BY <1>2, BytesFacts
  <2>3. total <= TotalLimit BY DEF WsInv, TotalOk
  <2>4. z.bytes \in Nat BY <1>9 DEF Queues
  <2>5. o <= total BY <1>4, <1>8, <1>9, <2>2, <2>4
  <2>6. total' \in Nat /\ total' <= TotalLimit BY <1>4, <2>1, <2>2, <2>3, <2>5, LimitFacts
  <2>7. total' + q.bytes = total + z.bytes BY <1>4, <1>8, <1>9, <2>1, <2>2, <2>4
  <2> QED BY <1>2, <2>2, <2>6, <2>7 DEF Totals
<1> QED BY <1>23, <1>24, <1>25, StepAt

(* One more frame, with no content and, unless the session was open, no    *)
(* Close: what Session::feed adds.                                         *)
LEMMA FeedKeeps ==
  ASSUME NEW w \in Seq(Frames), NEW t \in Tasks, NEW v \in Tasks, NEW es, NEW lg, NEW bh \in BOOLEAN,
         NEW y, NEW refusing, FoldOk(w, t, es, 0, lg, bh, y, refusing),
         v.ended = t.ended, v.closing = t.closing,
         v.session = t.session \/ v.session \in {"Closed", "Failed"},
         NEW f \in Frames, f.kind \in {"pong", "close"},
         \/ v.output = t.output
         \/ /\ v.output = Append(t.output, f)
            /\ f.kind = "close" => t.session = "Open" /\ v.session # "Open"
  PROVE  FoldOk(w, v, es, 0, lg, bh, y, refusing)
<1>1. PICK s, s1 : s = w \o t.output /\ s1 = w \o v.output OBVIOUS
<1>2. t.output \in Seq(Frames) /\ s \in Seq(Frames)
  <2>1. PICK o \in Seq(Frames) : o = t.output BY DEF Tasks
  <2> QED BY <1>1, <2>1, ConcatFacts
<1>3. /\ OrderOk(s, es, 0, lg) /\ KeepOk(s, es, 0, lg, bh, Live(t.session, y))
      /\ EndOk(s, es, 0, t.session, t.ended, refusing) /\ ClosesOk(s, t.session)
      /\ t.closing => t.session # "Open"
  BY <1>1 DEF FoldOk
<1>4. PICK lv \in BOOLEAN : lv = Live(t.session, y) BY DEF Live
<1>5. PICK lv1 \in BOOLEAN : lv1 = Live(v.session, y) BY DEF Live
<1>6. lv1 => lv BY <1>4, <1>5 DEF Live
<1>7. KeepOk(s, es, 0, lg, bh, lv) BY <1>3, <1>4
<1>8. v.session = "CloseSent" => t.session = "CloseSent" OBVIOUS
<1>9. v.session = "Open" => t.session = "Open" OBVIOUS
<1>10. CASE v.output = t.output
  <2>1. s1 = s BY <1>1, <1>10
  <2>2. KeepOk(s, es, 0, lg, bh, lv1) BY <1>6, <1>7 DEF KeepOk
  <2>3. EndOk(s, es, 0, v.session, v.ended, refusing) BY <1>3, <1>8 DEF EndOk
  <2>4. ClosesOk(s, v.session) BY <1>3, <1>9 DEF ClosesOk
  <2> QED BY <1>1, <1>3, <1>5, <1>9, <2>1, <2>2, <2>3, <2>4 DEF FoldOk
<1>11. CASE v.output = Append(t.output, f) /\ (f.kind = "close" => t.session = "Open" /\ v.session # "Open")
  <2>1. s1 = Append(s, f)
    <3>1. PICK o \in Seq(Frames) : o = t.output BY <1>2
    <3>2. w \o Append(o, f) = Append(w \o o, f) BY ConcatAppend
    <3> QED BY <1>1, <1>11, <3>1, <3>2
  <2>2. ~IsContent(f) /\ (IsClose(f) <=> f.kind = "close") /\ f.kind # "tryagain"
    BY DEF IsContent, IsClose
  <2>3. OrderOk(s1, es, 0, lg) BY <1>2, <1>3, <2>1, <2>2, OrderPlain
  <2>4. KeepOk(s1, es, 0, lg, bh, lv1) BY <1>2, <1>6, <1>7, <2>1, <2>2, KeepPlain
  <2>5. TryAgain(s1) <=> TryAgain(s) BY <1>2, <2>1, <2>2, TryAgainAppend
  <2>6. EndOk(s1, es, 0, v.session, v.ended, refusing) BY <1>3, <1>8, <2>5 DEF EndOk
  <2>7. ClosesOk(s1, v.session) BY <1>2, <1>3, <1>9, <1>11, <2>1, <2>2, ClosesAppend
  <2> QED BY <1>1, <1>3, <1>5, <1>9, <2>3, <2>4, <2>6, <2>7 DEF FoldOk
<1> QED BY <1>10, <1>11

(* Session::feed of one frame.                                             *)
LEMMA FeedStep ==
  ASSUME WsInv, NEW c \in Conn, Feed(c)
  PROVE  WsInv'
<1>1. /\ pc[c] = "feed" /\ input' = [input EXCEPT ![c] = Tail(@)]
      /\ pc' = [pc EXCEPT ![c] = "pour"]
      /\ UNCHANGED <<queue, total, log, behind, member, closing, ended, unreleased, wire, why>>
  BY DEF Feed, Goto, outboxVars, roomVars
<1>2. input[c] \in Seq(Heard) /\ input[c] # <<>> /\ why[c] = "open" BY <1>1, ConnFacts DEF StepOk
<1>3. PICK i : i = Tail(input[c]) OBVIOUS
<1>4. i \in Seq(Heard) /\ Head(input[c]) \in Heard BY <1>2, <1>3
<1>5. PICK h : h = Head(input[c]) OBVIOUS
<1>6. session[c] \in Sessions /\ output[c] \in Seq(Frames) BY DEF WsInv, WsTypes
<1>7. \E ss \in Sessions, o \in Seq(Frames), f \in Frames :
        /\ session' = [session EXCEPT ![c] = ss] /\ output' = [output EXCEPT ![c] = o]
        /\ ss = session[c] \/ ss \in {"Closed", "Failed"}
        /\ f.kind \in {"pong", "close"}
        /\ \/ o = output[c]
           \/ /\ o = Append(output[c], f)
              /\ f.kind = "close" => session[c] = "Open" /\ ss # "Open"
  <2>1. PICK pong, close : pong = Frame("pong", 0) /\ close = Frame("close", 0) OBVIOUS
  <2>2. pong \in Frames /\ pong.kind = "pong" /\ close \in Frames /\ close.kind = "close"
    BY <2>1, FrameType DEF FrameKinds
  <2>3. PICK op, oc : op = Append(output[c], pong) /\ oc = Append(output[c], close) OBVIOUS
  <2>4. op \in Seq(Frames) /\ oc \in Seq(Frames) BY <1>6, <2>2, <2>3
  <2>5. CASE h = "data"
    <3>1. session' = session /\ output' = output BY <1>5, <2>5 DEF Feed, sessionVars
    <3>2. session' = [session EXCEPT ![c] = session[c]] /\ output' = [output EXCEPT ![c] = output[c]]
      BY <3>1 DEF WsInv, WsTypes
    <3> QED BY <1>6, <2>2, <3>2
  <2>6. CASE h = "ping"
    <3>1. session' = session /\ output' = [output EXCEPT ![c] = FeedPing(c)]
      BY <1>5, <2>6 DEF Feed
    <3>2. session' = [session EXCEPT ![c] = session[c]] BY <3>1 DEF WsInv, WsTypes
    <3>3. FeedPing(c) = output[c] \/ FeedPing(c) = op BY <2>1, <2>3 DEF FeedPing
    <3> QED BY <1>6, <2>2, <2>3, <2>4, <3>1, <3>2, <3>3
  <2>7. CASE h \in {"close", "bad"}
    <3>1. PICK ss \in {"Closed", "Failed"} : session' = [session EXCEPT ![c] = ss]
      BY <1>5, <2>7 DEF Feed
    <3>2. output' = [output EXCEPT ![c] = FeedEnd(c)] BY <1>5, <2>7 DEF Feed
    <3>3. ss \in Sessions /\ ss # "Open" BY DEF Sessions
    <3>4. FeedEnd(c) = output[c] \/ (FeedEnd(c) = oc /\ session[c] = "Open")
      BY <2>1, <2>3 DEF FeedEnd
    <3> QED BY <1>6, <2>2, <2>3, <2>4, <3>1, <3>2, <3>3, <3>4
  <2> QED BY <1>4, <1>5, <2>5, <2>6, <2>7 DEF Heard
<1>8. PICK ss \in Sessions, o \in Seq(Frames), f \in Frames :
        /\ session' = [session EXCEPT ![c] = ss] /\ output' = [output EXCEPT ![c] = o]
        /\ ss = session[c] \/ ss \in {"Closed", "Failed"}
        /\ f.kind \in {"pong", "close"}
        /\ \/ o = output[c]
           \/ /\ o = Append(output[c], f)
              /\ f.kind = "close" => session[c] = "Open" /\ ss # "Open"
  BY <1>7
<1>9. PICK v : v = [TaskOf(c) EXCEPT !.session = ss, !.output = o] OBVIOUS
<1>10. /\ TaskOf(c) \in Tasks /\ TaskOf(c).output = output[c] /\ TaskOf(c).session = session[c]
       /\ TaskOf(c).unreleased = unreleased[c]
  BY ConnFacts DEF TaskOf
<1>11. v \in Tasks BY <1>9, <1>10 DEF Tasks
<1>12. /\ v.session = ss /\ v.output = o /\ v.ended = TaskOf(c).ended
       /\ v.closing = TaskOf(c).closing /\ v.unreleased = TaskOf(c).unreleased
       /\ v.member = TaskOf(c).member
  BY <1>9, <1>10 DEF Tasks
<1>13. FoldOk(wire[c], v, queue[c].entries, 0, log[c], behind[c], why[c], Refusing(queue[c]))
  <2>1. /\ wire[c] \in Seq(Frames) /\ behind[c] \in BOOLEAN
        /\ FoldOk(wire[c], TaskOf(c), queue[c].entries, 0, log[c], behind[c], why[c],
                  Refusing(queue[c]))
    BY ConnFacts
  <2> QED BY <1>8, <1>10, <1>11, <1>12, <2>1, FeedKeeps
<1>14. "pour" \in Steps BY DEF Steps
<1>15. CountOk(queue[c], v.unreleased, "pour")
  <2>1. CountOk(queue[c], unreleased[c], pc[c]) BY ConnFacts
  <2>2. CountOk(queue[c], unreleased[c], "pour") BY <1>1, <2>1 DEF CountOk
  <2> QED BY <1>10, <1>12, <2>2, Zenon
<1>16. StepOk(queue[c], behind[c], v, "pour", why[c], i) BY <1>2, ConnFacts DEF StepOk
<1>17. ConnOk(queue[c], log[c], behind[c], v, wire[c], "pour", why[c], i)
  BY <1>4, <1>11, <1>13, <1>14, <1>15, <1>16, ConnFacts DEF ConnOk, ConnTypes
<1>18. Moves(c, queue[c], log[c], behind[c], v, wire[c], "pour", why[c], i)
  BY <1>1, <1>3, <1>8, <1>12, Stays DEF Moves
<1>19. Totals(c, queue[c].bytes) BY <1>1, TotalStays
<1> QED BY <1>17, <1>18, <1>19, StepAt

(* finish: what is dropped with the outbox was not owed.                   *)
LEMMA FinishStep ==
  ASSUME WsInv, NEW c \in Conn, Finish(c)
  PROVE  WsInv'
<1>1. PICK q, r : q = queue[c] /\ r = closeQueue(queue[c]) OBVIOUS
<1>2. /\ pc[c] = "finish" /\ queue' = [queue EXCEPT ![c] = r] /\ total' = total - q.bytes
      /\ member' = [member EXCEPT ![c] = FALSE] /\ pc' = [pc EXCEPT ![c] = "done"]
      /\ UNCHANGED <<log, behind, session, output, closing, ended, unreleased, input, wire, why>>
  BY <1>1 DEF Finish, Goto, sessionVars, taskVars
<1>3. /\ q \in Queues /\ TaskOf(c) \in Tasks /\ behind[c] \in BOOLEAN
      /\ FoldOk(wire[c], TaskOf(c), q.entries, 0, log[c], behind[c], why[c], Refusing(q))
      /\ StepOk(q, behind[c], TaskOf(c), pc[c], why[c], input[c])
  BY <1>1, ConnFacts
<1>4. PICK none : none = <<>> OBVIOUS
<1>5. none \in Seq(Entries) /\ Len(none) = 0 /\ DOMAIN none = {} BY <1>4
<1>6. r = [entries |-> none, bytes |-> 0, broadcast_bytes |-> 0, overflowed |-> FALSE,
           ending |-> q.ending, closed |-> TRUE, passed |-> FALSE, waker |-> FALSE]
  BY <1>1, <1>4 DEF closeQueue, EmptyQueue
<1>7. r \in Queues BY <1>3, <1>5, <1>6 DEF Queues
<1>8. /\ r.entries = none /\ r.bytes = 0 /\ r.broadcast_bytes = 0 /\ r.overflowed = FALSE
      /\ r.closed = TRUE /\ r.passed = FALSE
  BY <1>6
<1>9. Refusing(r) BY <1>8 DEF Refusing
<1>10. PICK t : t = [TaskOf(c) EXCEPT !.member = FALSE] OBVIOUS
<1>11. t \in Tasks BY <1>3, <1>10 DEF Tasks
<1>12. /\ t.session = TaskOf(c).session /\ t.ended = TaskOf(c).ended /\ t.closing = TaskOf(c).closing
       /\ t.output = TaskOf(c).output /\ t.unreleased = TaskOf(c).unreleased /\ t.member = FALSE
  BY <1>3, <1>10 DEF Tasks
<1>13. FoldOk(wire[c], t, none, 0, log[c], behind[c], why[c], Refusing(r))
  <2>1. PICK s : s = wire[c] \o TaskOf(c).output OBVIOUS
  <2>2. PICK ss, nd, es : ss = TaskOf(c).session /\ nd = TaskOf(c).ended /\ es = q.entries OBVIOUS
  <2>3. /\ OrderOk(s, es, 0, log[c]) /\ KeepOk(s, es, 0, log[c], behind[c], Live(ss, why[c]))
        /\ EndOk(s, es, 0, ss, nd, Refusing(q)) /\ ClosesOk(s, ss)
        /\ TaskOf(c).closing => ss # "Open"
    BY <1>3, <2>1, <2>2 DEF FoldOk
  <2>4. es \in Seq(Entries) BY <1>3, <2>2 DEF Queues
  <2>5. \A kinds : Rest(none, 0, kinds) = {} BY <1>4, <2>4, RestEmpty
  <2>6. OrderOk(s, none, 0, log[c]) BY <1>5, <2>3, <2>5 DEF OrderOk, Waiting, Before
  <2>7. Live(ss, why[c]) => (ss = "CloseSent" \/ nd)
    BY <1>2, <1>3, <2>2 DEF StepOk, Live
  <2>8. Live(ss, why[c]) /\ ~TryAgain(s) => 0 >= Len(es) BY <2>3, <2>7 DEF EndOk
  <2>9. Live(ss, why[c]) /\ ~TryAgain(s) => DOMAIN es = {} BY <2>4, <2>8
  <2>10. Live(ss, why[c]) /\ ~TryAgain(s) => \A kinds : Rest(es, 0, kinds) = {} BY <2>9 DEF Rest
  <2>11. Live(ss, why[c]) /\ ~TryAgain(s) =>
           \A kinds : Whole(s, es, 0, log[c], kinds) => Whole(s, none, 0, log[c], kinds)
    BY <2>5, <2>10 DEF Whole
  <2>12. KeepOk(s, none, 0, log[c], behind[c], Live(ss, why[c])) BY <2>3, <2>11 DEF KeepOk
  <2>13. EndOk(s, none, 0, ss, nd, Refusing(r)) BY <1>5, <1>9 DEF EndOk
  <2> QED BY <1>12, <2>1, <2>2, <2>3, <2>6, <2>12, <2>13 DEF FoldOk
<1>14. CountOk(r, t.unreleased, "done")
  <2>1. r.broadcast_bytes = Octets(r.entries, FALSE) BY <1>4, <1>8, OctetsEmpty
  <2>2. 0 <= HighWater * LimitFactor /\ 0 <= InboxLimit
    <3>1. \A h \in Nat : 0 <= h OBVIOUS
    <3> QED BY <3>1, LimitFacts, Zenon
  <2> QED BY <1>4, <1>8, <2>1, <2>2 DEF CountOk
<1>15. StepOk(r, behind[c], t, "done", why[c], input[c]) BY <1>8 DEF StepOk
<1>16. "done" \in Steps BY DEF Steps
<1>17. ConnOk(r, log[c], behind[c], t, wire[c], "done", why[c], input[c])
  BY <1>7, <1>8, <1>11, <1>13, <1>14, <1>15, <1>16, ConnFacts DEF ConnOk, ConnTypes
<1>18. Moves(c, r, log[c], behind[c], t, wire[c], "done", why[c], input[c])
  BY <1>2, <1>12, Stays DEF Moves
<1>19. Totals(c, r.bytes)
  <2>1. total \in Nat /\ q.bytes \in Nat /\ q.bytes <= total BY <1>1, BytesFacts
  <2>2. total <= TotalLimit BY DEF WsInv, TotalOk
  <2>3. total' \in Nat /\ total' <= TotalLimit /\ total' + q.bytes = total + 0
    BY <1>2, <2>1, <2>2, LimitFacts
  <2> QED BY <1>1, <1>8, <2>1, <2>3 DEF Totals
<1> QED BY <1>17, <1>18, <1>19, StepAt

-----------------------------------------------------------------------------
(* The invariant of the whole, and what follows from it.                   *)

(* It holds at the start.                                                  *)
LEMMA InitHolds ==
  ASSUME Init
  PROVE  WsInv
<1>1. PICK none : none = <<>> OBVIOUS
<1>2. /\ none \in Seq(Entries) /\ none \in Seq(Frames) /\ none \in Seq(Kinds)
      /\ DOMAIN none = {} /\ Len(none) = 0 /\ none \o none = none
  BY <1>1
<1>3. PICK q : q = EmptyQueue OBVIOUS
<1>4. /\ q.entries = none /\ q.bytes = 0 /\ q.broadcast_bytes = 0 /\ q.overflowed = FALSE
      /\ q.passed = FALSE /\ q \in Queues
  BY <1>1, <1>2, <1>3 DEF EmptyQueue, Queues
<1>5. input \in [Conn -> Seq(Heard)]
  <2>1. \A f \in PeerFrames : <<f>> \in Seq(Heard)
    <3>1. \A f \in PeerFrames : f \in Heard BY ConnAssumption DEF Heard
    <3> QED BY <3>1
  <2>2. <<>> \in Seq(Heard) OBVIOUS
  <2> QED BY <2>1, <2>2 DEF Init
<1>6. WsTypes
  <2>1. "Open" \in Sessions /\ "pour" \in Steps /\ "open" \in Reasons
    BY DEF Sessions, Steps, Reasons
  <2>2. queue \in [Conn -> Queues] /\ log \in [Conn -> Seq(Kinds)] /\ output \in [Conn -> Seq(Frames)]
          /\ wire \in [Conn -> Seq(Frames)]
    BY <1>1, <1>2, <1>3, <1>4 DEF Init
  <2>3. session \in [Conn -> Sessions] /\ pc \in [Conn -> Steps] /\ why \in [Conn -> Reasons]
    BY <2>1 DEF Init
  <2>4. /\ behind \in [Conn -> BOOLEAN] /\ closing \in [Conn -> BOOLEAN] /\ ended \in [Conn -> BOOLEAN]
        /\ member \in [Conn -> BOOLEAN] /\ unreleased \in [Conn -> Nat]
    BY DEF Init
  <2> QED BY <1>5, <2>2, <2>3, <2>4 DEF WsTypes
<1>7. TotalOk
  <2>1. \A c \in Conn : queue[c].bytes = 0 BY <1>3, <1>4 DEF Init
  <2>2. \A c \in Conn : {c} \X (1 .. queue[c].bytes) = {} BY <2>1
  <2>3. Counted = {} BY <2>2 DEF Counted
  <2>4. total = Cardinality(Counted) BY <2>3, FS_EmptySet DEF Init
  <2>5. total <= TotalLimit BY LimitFacts DEF Init
  <2> QED BY <2>4, <2>5 DEF TotalOk
<1>8. ASSUME NEW c \in Conn PROVE Local(c)
  <2>1. /\ queue[c] = q /\ log[c] = none /\ behind[c] = FALSE /\ wire[c] = none /\ pc[c] = "pour"
        /\ why[c] = "open" /\ input[c] \in Seq(Heard)
    BY <1>1, <1>3, <1>5 DEF Init
  <2>2. PICK t : t = TaskOf(c) OBVIOUS
  <2>3. t = [session |-> "Open", output |-> none, closing |-> FALSE, ended |-> FALSE,
             unreleased |-> 0, member |-> FALSE]
    BY <1>1, <2>2 DEF TaskOf, Init
  <2>4. t \in Tasks BY <1>2, <2>3 DEF Tasks, Sessions
  <2>5. ConnTypes(q, none, FALSE, t, none, "pour", "open", input[c])
    BY <1>2, <1>4, <2>1, <2>4 DEF ConnTypes, Steps, Reasons
  <2>6. /\ t.output = none /\ t.session = "Open" /\ t.closing = FALSE /\ t.ended = FALSE
        /\ t.unreleased = 0
    BY <2>3
  <2>7. OrderOk(none, none, 0, none) /\ ~TryAgain(none) /\ ClosesOk(none, "Open")
    BY <1>2 DEF OrderOk, Logged, Waiting, InOrder, Before, Places, TryAgain, ClosesOk
  <2>8. \A kinds : Gapless(none, none, kinds) /\ Whole(none, none, 0, none, kinds)
    BY <1>2 DEF Gapless, Whole, Places, InLog
  <2>9. KeepOk(none, none, 0, none, FALSE, Live("Open", "open")) BY <2>7, <2>8 DEF KeepOk
  <2>10. EndOk(none, none, 0, "Open", FALSE, Refusing(q)) BY <1>2 DEF EndOk
  <2>11. FoldOk(none, t, q.entries, 0, none, FALSE, "open", Refusing(q))
    BY <1>2, <1>4, <2>6, <2>7, <2>9, <2>10 DEF FoldOk
  <2>12. CountOk(q, t.unreleased, "pour")
    <3>1. Octets(q.entries, TRUE) = 0 /\ Octets(q.entries, FALSE) = 0 BY <1>1, <1>4, OctetsEmpty
    <3>2. \A h \in Nat : 0 <= h OBVIOUS
    <3>3. 0 <= HighWater * LimitFactor /\ 0 <= InboxLimit BY <3>2, LimitFacts, Zenon
    <3>5. 0 = 0 + 0 OBVIOUS
    <3>4. q.bytes = Octets(q.entries, TRUE) + t.unreleased BY <1>4, <2>6, <3>1, <3>5, Zenon
    <3> QED BY <1>4, <3>1, <3>3, <3>4 DEF CountOk
  <2>13. StepOk(q, FALSE, t, "pour", "open", input[c]) BY <1>4 DEF StepOk
  <2> QED BY <2>1, <2>2, <2>5, <2>11, <2>12, <2>13 DEF Local, ConnOk
<1> QED BY <1>6, <1>7, <1>8 DEF WsInv

(* Every step keeps it.                                                    *)
LEMMA NextHolds ==
  ASSUME WsInv, [Next]_vars
  PROVE  WsInv'
<1>1. CASE Others
  <2>1. CASE \E c \in Conn : \E m \in Commands : Push(c, m) BY <2>1, PushStep
  <2>2. CASE \E c \in Conn : Broadcast(c) BY <2>2, BroadcastStep
  <2>3. CASE \E c \in Conn : Pause(c) BY <2>3, PauseStep
  <2>4. CASE StartBroadcast
    <3>1. UNCHANGED <<connVars, total>>
      BY <2>4 DEF StartBroadcast, connVars, outboxVars, sessionVars, taskVars
    <3> QED BY <3>1, StepAside
  <2>5. CASE Shutdown
    <3>1. UNCHANGED <<connVars, total>>
      BY <2>5 DEF Shutdown, connVars, outboxVars, roomVars, sessionVars, taskVars
    <3> QED BY <3>1, StepAside
  <2> QED BY <1>1, <2>1, <2>2, <2>3, <2>4, <2>5 DEF Others
<1>2. ASSUME NEW c \in Conn, Task(c) PROVE WsInv'
  <2>1. CASE Pour(c) \/ Seal(c) \/ GoAway(c) BY <2>1, PourStep, SealStep, GoAwayStep
  <2>2. CASE Write(c) \/ Flushed(c) \/ Feed(c) BY <2>2, WriteStep, FlushedStep, FeedStep
  <2>3. CASE WriteFails(c) \/ ReadEnds(c) \/ CloseTimeout(c) \/ DropTask(c) BY <2>3, EndsStep
  <2>4. CASE Report(c) \/ Wake(c) \/ Cancel(c) \/ ReadData(c) BY <2>4, RoundStep
  <2>5. CASE Park(c) \/ Finish(c) BY <2>5, ParkStep, FinishStep
  <2> QED BY <1>2, <2>1, <2>2, <2>3, <2>4, <2>5 DEF Task
<1>3. CASE UNCHANGED vars
  <2>1. UNCHANGED <<connVars, total>> BY <1>3 DEF vars, connVars
  <2> QED BY <2>1, StepAside
<1> QED BY <1>1, <1>2, <1>3 DEF Next

(* WsInv is an invariant: what each connection's outbox, log, task and     *)
(* wire have to do with each other, and the total.                         *)
THEOREM WsInvariant == Spec => []WsInv
<1>1. Init => WsInv BY InitHolds
<1>2. WsInv /\ [Next]_vars => WsInv' BY NextHolds
<1> QED BY <1>1, <1>2, PTL DEF Spec

(* Outbox::push, Outbox::release, Outbox::close: every pushed octet is     *)
(* counted once, until the connection wrote or dropped it, and no push     *)
(* takes the worker's total past its limit.                                *)
THEOREM OctetsAreCounted == Spec => []OctetsCounted
<1>1. ASSUME WsInv PROVE OctetsCounted
  <2>1. TotalOk BY <1>1 DEF WsInv
  <2>2. \A c \in Conn : CountOk(queue[c], unreleased[c], pc[c]) BY <1>1, ConnFacts
  <2> QED BY <2>1, <2>2 DEF OctetsCounted, TotalOk, CountOk
<1> QED BY <1>1, WsInvariant, PTL

(* Session::ensure_open: a connection sends one Close at most, and no data *)
(* frame after it.                                                         *)
THEOREM OneCloseSent == Spec => []OneClose
<1>1. ASSUME WsInv PROVE OneClose
  <2>1. SUFFICES ASSUME NEW c \in Conn PROVE ClosesOk(Sending(c), session[c])
    BY DEF OneClose, ClosesOk
  <2>2. TaskOf(c).output = output[c] /\ TaskOf(c).session = session[c] BY DEF TaskOf
  <2> QED BY <1>1, <2>2, ConnFacts DEF FoldOk, Sending
<1> QED BY <1>1, WsInvariant, PTL

(* What was sent and what waits, in a row.                                 *)
LEMMA RowFacts ==
  ASSUME NEW X, NEW a \in Seq(X), NEW b \in Seq(X)
  PROVE  /\ Len(a) \in Nat /\ Len(b) \in Nat /\ DOMAIN (a \o b) = 1 .. Len(a) + Len(b)
         /\ DOMAIN a = 1 .. Len(a) /\ DOMAIN b = 1 .. Len(b)
         /\ \A i \in DOMAIN a : (a \o b)[i] = a[i]
         /\ \A k \in DOMAIN b : (a \o b)[Len(a) + k] = b[k]
OBVIOUS

(* The row of what was sent and what waits, place by place.                *)
LEMMA LineFacts ==
  ASSUME NEW s \in Seq(Frames), NEW es \in Seq(Entries)
  PROVE  /\ \A i \in DOMAIN (s \o es) :
              \/ i \in DOMAIN s /\ (s \o es)[i] = s[i]
              \/ i - Len(s) \in DOMAIN es /\ (s \o es)[i] = es[i - Len(s)]
         /\ \A i \in DOMAIN s : i \in DOMAIN (s \o es) /\ (s \o es)[i] = s[i]
         /\ \A k \in DOMAIN es : Len(s) + k \in DOMAIN (s \o es) /\ (s \o es)[Len(s) + k] = es[k]
         /\ DOMAIN (s \o es) = 1 .. Len(s) + Len(es)
<1>1. PICK X : X = Frames \cup Entries OBVIOUS
<1>2. s \in Seq(X) /\ es \in Seq(X)
  <2>1. \A i \in DOMAIN s : s[i] \in X BY <1>1
  <2>2. \A i \in DOMAIN es : es[i] \in X BY <1>1
  <2>3. Len(s) \in Nat /\ DOMAIN s = 1 .. Len(s) /\ Len(es) \in Nat /\ DOMAIN es = 1 .. Len(es)
    OBVIOUS
  <2> QED BY <2>1, <2>2, <2>3
<1>3. PICK n, x : n = Len(s) /\ x = s \o es OBVIOUS
<1>4. /\ n \in Nat /\ Len(es) \in Nat /\ DOMAIN x = 1 .. n + Len(es)
      /\ DOMAIN s = 1 .. n /\ DOMAIN es = 1 .. Len(es)
      /\ \A i \in DOMAIN s : x[i] = s[i]
      /\ \A k \in DOMAIN es : x[n + k] = es[k]
  BY <1>2, <1>3, RowFacts
<1>5. ASSUME NEW i \in DOMAIN x
      PROVE  \/ i \in DOMAIN s /\ x[i] = s[i]
             \/ i - n \in DOMAIN es /\ x[i] = es[i - n]
  <2>1. CASE i \in DOMAIN s BY <1>4, <2>1
  <2>2. CASE i \notin DOMAIN s
    <3>1. i - n \in DOMAIN es /\ n + (i - n) = i BY <1>4, <2>2
    <3>2. x[n + (i - n)] = es[i - n] BY <1>4, <3>1
    <3> QED BY <3>1, <3>2
  <2> QED BY <2>1, <2>2
<1>6. \A i \in DOMAIN s : i \in DOMAIN x BY <1>4
<1>7. \A k \in DOMAIN es : n + k \in DOMAIN x BY <1>4
<1> QED BY <1>3, <1>4, <1>5, <1>6, <1>7

(* The places of the row.                                                  *)
LEMMA LinePlaces ==
  ASSUME NEW s \in Seq(Frames), NEW es \in Seq(Entries), NEW kinds
  PROVE  Places(s \o es, kinds) = Places(s, kinds) \cup Rest(es, 0, kinds)
<1>1. PICK n, x : n = Len(s) /\ x = s \o es OBVIOUS
<1>2. /\ \A i \in DOMAIN x : \/ i \in DOMAIN s /\ x[i] = s[i]
                             \/ i - n \in DOMAIN es /\ x[i] = es[i - n]
      /\ \A i \in DOMAIN s : i \in DOMAIN x /\ x[i] = s[i]
      /\ \A k \in DOMAIN es : n + k \in DOMAIN x /\ x[n + k] = es[k]
  BY <1>1, LineFacts
<1>3. \A k \in DOMAIN es : k > 0 OBVIOUS
<1>4. ASSUME NEW i \in DOMAIN x, x[i].kind \in kinds
      PROVE  x[i].n \in Places(s, kinds) \cup Rest(es, 0, kinds)
  <2>1. CASE i \in DOMAIN s /\ x[i] = s[i] BY <1>4, <2>1 DEF Places
  <2>2. CASE i - n \in DOMAIN es /\ x[i] = es[i - n] BY <1>3, <1>4, <2>2 DEF Rest
  <2> QED BY <1>2, <2>1, <2>2
<1>5. \A m \in Places(x, kinds) : m \in Places(s, kinds) \cup Rest(es, 0, kinds)
  BY <1>4 DEF Places
<1>6. \A m \in Places(s, kinds) : m \in Places(x, kinds) BY <1>2 DEF Places
<1>7. \A m \in Rest(es, 0, kinds) : m \in Places(x, kinds)
  <2>1. SUFFICES ASSUME NEW k \in DOMAIN es, es[k].kind \in kinds PROVE es[k].n \in Places(x, kinds)
    BY DEF Rest
  <2>2. n + k \in DOMAIN x /\ x[n + k] = es[k] BY <1>2
  <2> QED BY <2>1, <2>2 DEF Places
<1> QED BY <1>1, <1>5, <1>6, <1>7

(* WebSocket::pour, WebSocket::seal: a Close, an End, a shutdown or a      *)
(* dropped future loses no accepted frame, and frames go out in the order  *)
(* in which they were accepted.                                            *)
THEOREM FramesKeptInOrder == Spec => []KeptInOrder
<1>1. ASSUME WsInv, NEW c \in Conn
      PROVE  /\ ~behind[c] => Kept(c, {"frame", "broadcast"})
             /\ ~SentTryAgain(c) => Kept(c, {"frame"})
             /\ \A i, j \in DOMAIN Line(c) :
                  i < j /\ IsContent(Line(c)[i]) /\ IsContent(Line(c)[j])
                    => Line(c)[i].n < Line(c)[j].n
  <2>1. PICK s, es : s = Sending(c) /\ es = queue[c].entries OBVIOUS
  <2>2. es \in Seq(Entries) /\ s \in Seq(Frames)
    <3>1. wire[c] \in Seq(Frames) /\ output[c] \in Seq(Frames) BY <1>1 DEF WsInv, WsTypes
    <3> QED BY <1>1, <2>1, <3>1, ConnFacts DEF Queues, Sending
  <2>3. TaskOf(c).output = output[c] /\ TaskOf(c).session = session[c] BY DEF TaskOf
  <2>4. /\ Logged(s, log[c]) /\ Waiting(es, log[c]) /\ InOrder(s) /\ Before(s, es, 0)
        /\ KeepOk(s, es, 0, log[c], behind[c], Live(session[c], why[c]))
    BY <1>1, <2>1, <2>3, ConnFacts DEF FoldOk, OrderOk, Sending
  <2>5. session[c] \in Sessions BY <1>1 DEF WsInv, WsTypes
  <2>6. ~PeerEnded(c) => Live(session[c], why[c]) BY <2>5 DEF PeerEnded, Live, Sessions
  <2>7. ASSUME NEW kinds \in {Content, Pushed}, Gapless(s, log[c], kinds),
               Live(session[c], why[c]) => Whole(s, es, 0, log[c], kinds)
        PROVE  Kept(c, kinds)
    <3>1. Accepted(c, kinds) = InLog(log[c], kinds) BY DEF Accepted, InLog
    <3>2. \A n \in Places(s, kinds) : n \in InLog(log[c], kinds)
      BY <2>4 DEF Places, Logged, InLog, IsContent, Content, Pushed
    <3>3. \A n \in Rest(es, 0, kinds) : n \in InLog(log[c], kinds)
      BY <2>4 DEF Rest, Waiting, InLog
    <3>4. Places(Line(c), kinds) = Places(s, kinds) \cup Rest(es, 0, kinds)
      BY <2>1, <2>2, LinePlaces DEF Line
    <3>5. ~PeerEnded(c) => Accepted(c, kinds) = Places(Line(c), kinds)
      BY <2>6, <2>7, <3>1, <3>2, <3>3, <3>4 DEF Whole
    <3>6. \A n \in Places(s, kinds) :
            n \in Accepted(c, kinds)
              /\ \A m \in Accepted(c, kinds) : m < n => m \in Places(s, kinds)
      BY <2>7, <3>1, <3>2 DEF Gapless
    <3> QED BY <2>1, <3>5, <3>6 DEF Kept
  <2>8. SentTryAgain(c) <=> TryAgain(s) BY <2>1 DEF SentTryAgain, TryAgain
  <2>9. ~behind[c] => Kept(c, Content) BY <2>4, <2>7 DEF KeepOk
  <2>10. ~SentTryAgain(c) => Kept(c, Pushed) BY <2>4, <2>7, <2>8 DEF KeepOk
  <2>11. ASSUME NEW i \in DOMAIN Line(c), NEW j \in DOMAIN Line(c), i < j,
                IsContent(Line(c)[i]), IsContent(Line(c)[j])
         PROVE  Line(c)[i].n < Line(c)[j].n
    <3>1. PICK n, x : n = Len(s) /\ x = Line(c) OBVIOUS
    <3>2. x = s \o es BY <2>1, <3>1 DEF Line
    <3>3. /\ \A k \in DOMAIN x : \/ k \in DOMAIN s /\ x[k] = s[k]
                                 \/ k - n \in DOMAIN es /\ x[k] = es[k - n]
          /\ \A k \in DOMAIN s : x[k] = s[k]
          /\ DOMAIN x = 1 .. n + Len(es)
      BY <2>2, <3>1, <3>2, LineFacts
    <3>4. n \in Nat /\ DOMAIN s = 1 .. n /\ DOMAIN es = 1 .. Len(es) /\ Len(es) \in Nat
      BY <2>2, <3>1
    <3>5. i \in DOMAIN x /\ j \in DOMAIN x /\ IsContent(x[i]) /\ IsContent(x[j]) BY <2>11, <3>1
    <3>6. i \in Nat /\ j \in Nat /\ i > 0 BY <3>3, <3>4, <3>5
    <3>7. CASE j \in DOMAIN s /\ x[j] = s[j]
      <4>1. i \in DOMAIN s /\ x[i] = s[i]
        <5>1. i \in DOMAIN s BY <2>11, <3>4, <3>6, <3>7
        <5> QED BY <3>3, <5>1
      <4> QED BY <2>4, <2>11, <3>1, <3>5, <3>7, <4>1 DEF InOrder
    <3>8. CASE j - n \in DOMAIN es /\ x[j] = es[j - n]
      <4>1. CASE i \in DOMAIN s /\ x[i] = s[i]
        <5>1. s[i].n \in Places(s, Content) BY <3>5, <4>1 DEF Places, IsContent, Content
        <5>2. j - n > 0 BY <3>4, <3>8
        <5>3. es[j - n].n \in Rest(es, 0, Content) BY <3>5, <3>8, <5>2 DEF Rest, IsContent, Content
        <5> QED BY <2>4, <3>1, <3>8, <4>1, <5>1, <5>3 DEF Before
      <4>2. CASE i - n \in DOMAIN es /\ x[i] = es[i - n]
        <5>1. i - n < j - n BY <2>11, <3>4, <3>6
        <5> QED BY <2>4, <3>1, <3>8, <4>2, <5>1 DEF Waiting
      <4> QED BY <3>3, <3>5, <4>1, <4>2
    <3> QED BY <3>3, <3>5, <3>7, <3>8
  <2> QED BY <2>9, <2>10, <2>11 DEF Content, Pushed
<1>2. ASSUME WsInv PROVE KeptInOrder BY <1>1, <1>2 DEF KeptInOrder
<1> QED BY <1>2, WsInvariant, PTL
=============================================================================
