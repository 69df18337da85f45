-------------------------- MODULE EventFlowProofs ---------------------------
(***************************************************************************)
(* That the events of realtime connections reach the host in order, that   *)
(* the ledger never forgets one the host still may take, and that what a   *)
(* client makes the core hold is bounded, for any number of connections    *)
(* and any limits.  The parts of the invariant take what they speak of as  *)
(* parameters: a turn's last part posts events twice, and the lemmas about *)
(* posting are used for both.                                              *)
(***************************************************************************)
EXTENDS EventFlowProps, TLAPS, FiniteSetTheorems, SequenceTheorems, NaturalsInduction,
        WellFoundedInduction

(* The shape of the state.                                                 *)
EventKind == {"open", "message", "drained", "close"}
Event == [conn : Peer, n : Nat, kind : EventKind, seq : Nat]
BatchKind == {"none", "events", "requests"}
Held == [epoch : Nat, kind : BatchKind, events : Seq(Event)]
Sent == [epoch : Nat, entry : Entry]
Posted == [entry : Entry, epoch : Nat, kind : BatchKind, target : Nat]
Mark == [epoch : Nat, through : Nat, octets : Nat]
Wait == [paused : BOOLEAN, since : Nat, room : BOOLEAN]
Connection ==
  [life : {"none", "leased", "orphan", "claimed", "served", "over"}, held : Seq(Event),
   sequences : Seq(Nat), said : Nat, wait : Wait,
   task : {"none", "settle", "wait", "end", "endwait"}, woken : BOOLEAN]
Dispatcher ==
  [events : Seq(Event), ready : Nat, unacked : Seq(Sent), target : Nat, full : BOOLEAN,
   retry : {"none", "set", "due"}, prefer : BOOLEAN, draining : BOOLEAN, connections : Nat]
Ledger ==
  [pushed : Nat, pushed_octets : Nat, posted : Nat, marks : Seq(Mark), acked : Nat,
   acked_octets : Nat, open : BOOLEAN, for_acks : SUBSET Peer, for_room : SUBSET Peer]
Inbox ==
  [dirty : BOOLEAN, waker : BOOLEAN, woken : BOOLEAN, detach : BOOLEAN, attach : Nat,
   published : Nat, acked : Nat]
Hosts ==
  [attached : Nat, alive : Nat, targets : Nat, queue : Seq(Posted), ack : Nat,
   last : [Peer -> Nat], crowd : BOOLEAN]
FlowType ==
  /\ disp \in Dispatcher /\ ring \in [Entry -> Held] /\ intake \in Inbox /\ led \in Ledger
  /\ refused \in Seq(Event) /\ con \in [Peer -> Connection] /\ host \in Hosts

-----------------------------------------------------------------------------
(* The events on the way, from the queue and the ring.                     *)
Ringed(rng) == UNION {Range(rng[e].events) : e \in Entry}
Way(queue, rng) == Ringed(rng) \cup Range(queue)

(* Events are numbered as they are pushed, and a batch holds earlier ones  *)
(* than every later batch and than the queue.                              *)
SeqInv(queue, rng, pushed, published) ==
  /\ Len(queue) <= pushed /\ Len(queue) <= QueueBound
  /\ \A k \in 1 .. Len(queue) : queue[k].seq = pushed - Len(queue) + k
  /\ \A e \in Entry : \A k \in 1 .. Len(rng[e].events) :
       /\ rng[e].events[k].seq <= pushed - Len(queue)
       /\ 1 <= rng[e].epoch /\ rng[e].epoch <= published
       /\ \A j \in 1 .. Len(rng[e].events) : j < k => rng[e].events[j].seq < rng[e].events[k].seq
  /\ \A e, f \in Entry : e # f =>
       \A j \in 1 .. Len(rng[e].events), k \in 1 .. Len(rng[f].events) :
         /\ rng[e].epoch # rng[f].epoch
         /\ rng[e].epoch < rng[f].epoch => rng[e].events[j].seq < rng[f].events[k].seq

(* Which batch an entry holds, until the host takes it or the target goes. *)
RingInv(unacked, rng, published, acked, queue, ack, off) ==
  /\ acked <= published /\ ack <= published
  /\ \A j, k \in 1 .. Len(unacked) : j < k => unacked[j].epoch < unacked[k].epoch
  /\ \A k \in 1 .. Len(unacked) : unacked[k].epoch <= published
  /\ \A j, k \in 1 .. Len(queue) : j < k => queue[j].epoch < queue[k].epoch
  /\ \A k \in 1 .. Len(queue) : queue[k].epoch <= published /\ ack < queue[k].epoch
  /\ \A e \in Entry : rng[e].events # <<>> =>
       \E k \in 1 .. Len(queue) :
         queue[k].entry = e /\ queue[k].epoch = rng[e].epoch /\ queue[k].kind = rng[e].kind
  /\ ~off => \A k \in 1 .. Len(unacked) : rng[unacked[k].entry].epoch = unacked[k].epoch
  /\ ~off => \A e \in Entry : rng[e].events # <<>> =>
       acked < rng[e].epoch /\ \E k \in 1 .. Len(unacked) : unacked[k].entry = e

(* The events of a connection: the host's last, those on the way or a      *)
(* close event that waits, and what the connection holds.                  *)
Gone(p) == p.said - Len(p.held)
WayOrder(way) == \A a, b \in way : a.conn = b.conn /\ a.seq < b.seq => a.n < b.n
WayBetween(way, cn, last) == \A a \in way : last[a.conn] < a.n /\ a.n <= Gone(cn[a.conn])
HeldOrder(cn, last) ==
  \A c \in Peer :
    /\ last[c] <= Gone(cn[c])
    /\ \A k \in 1 .. Len(cn[c].held) : cn[c].held[k].conn = c /\ cn[c].held[k].n = Gone(cn[c]) + k
    /\ cn[c].life # "served" => cn[c].held = <<>>
    /\ cn[c].life \notin {"served", "over"} => cn[c].said = 0
Closing(way, r, cn, last) ==
  \A k \in 1 .. Len(r) :
    /\ r[k].kind = "close" /\ r[k].n = 1
    /\ cn[r[k].conn].said = 1 /\ cn[r[k].conn].life = "over" /\ last[r[k].conn] = 0
    /\ \A a \in way : a.conn # r[k].conn
    /\ \A j \in 1 .. Len(r) : j # k => r[j].conn # r[k].conn
Complete(way, r, cn, last, gone) ==
  \A c \in Peer \ gone : \A m \in last[c] + 1 .. Gone(cn[c]) :
    (\E a \in way : a.conn = c /\ a.n = m) \/ (\E k \in 1 .. Len(r) : r[k].conn = c)
OrderInv(way, r, cn, last, gone) ==
  /\ WayOrder(way) /\ WayBetween(way, cn, last) /\ HeldOrder(cn, last)
  /\ Closing(way, r, cn, last) /\ Complete(way, r, cn, last, gone)

(* What the ledger counts.                                                 *)
Later(way, t) == {a \in Messages(way) : a.seq > t}
LedgerInv(queue, rng, l, published) ==
  /\ l.posted + Len(queue) <= l.pushed /\ l.acked <= l.posted
  /\ \A a \in Way(queue, rng) : l.acked < a.seq
  /\ l.acked_octets + Cardinality(Later(Way(queue, rng), l.acked)) <= l.pushed_octets
  /\ \A k \in 1 .. Len(l.marks) :
       /\ l.marks[k].epoch <= published /\ l.marks[k].through <= l.posted
       /\ l.marks[k].octets + Cardinality(Later(Way(queue, rng), l.marks[k].through))
            <= l.pushed_octets
       /\ \A e \in Entry : \A j \in 1 .. Len(rng[e].events) :
            rng[e].events[j].seq <= l.marks[k].through => rng[e].epoch <= l.marks[k].epoch

(* What a client causes: the open event and its messages.                  *)
ByClient(e) == e.kind \in {"open", "message"}
Holding(p) == \E k \in 1 .. Len(p.held) : ByClient(p.held[k])
HoldingMessage(p) == \E k \in 1 .. Len(p.held) : p.held[k].kind = "message"
Reads(p) == p.task = "wait" /\ ~p.wait.paused
Readers(cn) == {c \in Peer : Reads(cn[c]) \/ HoldingMessage(cn[c])}
FromClient(way, c) == {a \in way : a.conn = c /\ ByClient(a)}
BoundInv(way, cn) ==
  /\ \A c \in Peer :
       /\ cn[c].life = "served" =>
            \A a \in way : a.conn = c =>
              \E k \in 1 .. Len(cn[c].sequences) : cn[c].sequences[k] = a.seq
       /\ \A j, k \in 1 .. Len(cn[c].held) :
            ByClient(cn[c].held[j]) /\ ByClient(cn[c].held[k]) => j = k
       /\ Cardinality(FromClient(way, c)) + (IF Holding(cn[c]) THEN 1 ELSE 0) <= MaxPending
  /\ Cardinality(Messages(way)) + Cardinality(Readers(cn)) <= HalfBudget + Cardinality(Peer)

(* A connection that reads holds nothing and has room for one more.        *)
ReadsInv(cn) ==
  \A c \in Peer : Reads(cn[c]) => cn[c].held = <<>> /\ Len(cn[c].sequences) < MaxPending

(* The dispatcher's task, and the connections it waits for.                *)
Counted(cn) == {c \in Peer : cn[c].life \in {"claimed", "served"}}
LifeInv ==
  /\ failed => run = "done"
  /\ ~failed => disp.connections = Cardinality(Counted(con))
  /\ disp.draining => shutdown
  /\ run = "done" /\ ~failed => disp.draining /\ DrainedEmpty

(* What holds of the events between their connections and the host, for a  *)
(* dispatcher d, a ring, a ledger l, the close events r that wait and the  *)
(* connections cn.                                                         *)
Flow(d, rng, l, r, cn, last, gone, published, off) ==
  /\ SeqInv(d.events, rng, l.pushed, published)
  /\ OrderInv(Way(d.events, rng), r, cn, last, gone)
  /\ ~off => LedgerInv(d.events, rng, l, published)
  /\ ~off => BoundInv(Way(d.events, rng), cn)

FlowInv ==
  /\ FlowType
  /\ Flow(disp, ring, led, refused, con, host.last, lost, intake.published, failed)
  /\ RingInv(disp.unacked, ring, intake.published, intake.acked, host.queue, host.ack, failed)
  /\ ReadsInv(con) /\ LifeInv

-----------------------------------------------------------------------------
(* Sequences.                                                              *)

(* What concatenation gives.                                               *)
LEMMA Joined ==
  ASSUME NEW S, NEW s \in Seq(S), NEW t \in Seq(S)
  PROVE  /\ s \o t \in Seq(S) /\ Len(s \o t) = Len(s) + Len(t)
         /\ \A k \in 1 .. Len(s) : (s \o t)[k] = s[k]
         /\ \A k \in 1 .. Len(t) : (s \o t)[Len(s) + k] = t[k]
         /\ \A k \in 1 .. Len(s \o t) : k <= Len(s) \/ \E j \in 1 .. Len(t) : k = Len(s) + j
<1>1. s \o t \in Seq(S) /\ Len(s \o t) = Len(s) + Len(t) OBVIOUS
<1>2. \A k \in 1 .. Len(s) : (s \o t)[k] = s[k] OBVIOUS
<1>3. \A k \in 1 .. Len(t) : (s \o t)[Len(s) + k] = t[k] OBVIOUS
<1>4. ASSUME NEW k \in 1 .. Len(s \o t), ~(k <= Len(s))
      PROVE  \E j \in 1 .. Len(t) : k = Len(s) + j
  <2>1. k - Len(s) \in 1 .. Len(t) /\ k = Len(s) + (k - Len(s)) BY <1>1, <1>4
  <2> QED BY <2>1
<1> QED BY <1>1, <1>2, <1>3, <1>4

(* What the first n of a sequence are, and what is behind them.            *)
LEMMA Cut ==
  ASSUME NEW S, NEW s \in Seq(S), NEW n \in 0 .. Len(s)
  PROVE  /\ SubSeq(s, 1, n) \in Seq(S) /\ Len(SubSeq(s, 1, n)) = n
         /\ \A k \in 1 .. n : SubSeq(s, 1, n)[k] = s[k]
         /\ Behind(s, n) \in Seq(S) /\ Len(Behind(s, n)) = Len(s) - n
         /\ \A k \in 1 .. Len(s) - n : Behind(s, n)[k] = s[n + k]
<1>1. SubSeq(s, 1, n) \in Seq(S) /\ Len(SubSeq(s, 1, n)) = n OBVIOUS
<1>2. \A k \in 1 .. n : SubSeq(s, 1, n)[k] = s[k] OBVIOUS
<1>3. Behind(s, n) \in Seq(S) /\ Len(Behind(s, n)) = Len(s) - n BY DEF Behind
<1>4. \A k \in 1 .. Len(s) - n : Behind(s, n)[k] = s[n + k] BY DEF Behind
<1> QED BY <1>1, <1>2, <1>3, <1>4

(* The two parts of a cut are the sequence.                                *)
LEMMA CutJoins ==
  ASSUME NEW S, NEW s \in Seq(S), NEW n \in 0 .. Len(s)
  PROVE  SubSeq(s, 1, n) \o Behind(s, n) = s
<1>1. PICK a : a = SubSeq(s, 1, n) OBVIOUS
<1>2. PICK b : b = Behind(s, n) OBVIOUS
<1>3. a \in Seq(S) /\ b \in Seq(S) /\ Len(a) = n /\ Len(b) = Len(s) - n BY <1>1, <1>2, Cut
<1>4. \A k \in 1 .. n : a[k] = s[k] BY <1>1, Cut
<1>5. \A k \in 1 .. Len(s) - n : b[k] = s[n + k] BY <1>2, Cut
<1>6. a \o b \in Seq(S) /\ Len(a \o b) = Len(s) BY <1>3
<1>7. ASSUME NEW k \in 1 .. Len(s) PROVE (a \o b)[k] = s[k]
  <2>1. CASE k <= n BY <1>3, <1>4, <2>1, Joined
  <2>2. CASE ~(k <= n)
    <3>1. k - n \in 1 .. Len(b) /\ k = Len(a) + (k - n) /\ n + (k - n) = k BY <1>3, <2>2
    <3>2. PICK j \in 1 .. Len(b) : k = Len(a) + j /\ n + j = k BY <3>1
    <3>3. (a \o b)[k] = b[j] BY <1>3, <3>2
    <3> QED BY <1>3, <1>5, <3>2, <3>3
  <2> QED BY <2>1, <2>2
<1>8. a \o b = s BY <1>6, <1>7, SeqEqual
<1> QED BY <1>1, <1>2, <1>8

(* The members of a sequence are what its places hold.                     *)
LEMMA Members ==
  ASSUME NEW S, NEW s \in Seq(S)
  PROVE  /\ \A x : x \in Range(s) <=> \E k \in 1 .. Len(s) : s[k] = x
         /\ Range(s) \subseteq S
<1>1. DOMAIN s = 1 .. Len(s) OBVIOUS
<1>2. \A x : x \in Range(s) <=> \E k \in 1 .. Len(s) : s[k] = x BY <1>1 DEF Range
<1>3. \A k \in 1 .. Len(s) : s[k] \in S OBVIOUS
<1> QED BY <1>2, <1>3

(* A sequence has finitely many members.                                   *)
LEMMA MembersFinite ==
  ASSUME NEW S, NEW s \in Seq(S)
  PROVE  IsFiniteSet(Range(s)) /\ Cardinality(Range(s)) <= Len(s)
<1>1. DOMAIN s = 1 .. Len(s) /\ Len(s) \in Nat OBVIOUS
<1>2. IsFiniteSet(1 .. Len(s)) /\ Cardinality(1 .. Len(s)) = Len(s)
  <2>1. 1 \in Int /\ Len(s) \in Int BY <1>1
  <2> QED BY <1>1, <2>1, FS_Interval
<1>3. PICK f : f = [k \in 1 .. Len(s) |-> s[k]] OBVIOUS
<1>4. f \in Surjection(1 .. Len(s), Range(s)) BY <1>1, <1>3 DEF Surjection, Range
<1> QED BY <1>2, <1>4, FS_Surjection

(* A set of naturals that is not empty has a least member.                 *)
LEMMA LeastNat ==
  ASSUME NEW T \in SUBSET Nat, T # {}
  PROVE  \E m \in T : \A k \in T : m <= k
<1>1. PICK R : R = OpToRel(<, Nat) OBVIOUS
<1>2. IsWellFoundedOn(R, Nat) BY <1>1, NatLessThanWellFounded
<1>3. PICK m \in T : \A y \in T : ~(<<y, m>> \in R) BY <1>2, WFMin
<1>4. \A y \in Nat : y < m => <<y, m>> \in R BY <1>1 DEF OpToRel
<1>5. \A y \in T : y \in Nat /\ m \in Nat /\ ~(y < m) BY <1>3, <1>4
<1>6. \A y \in T : m <= y BY <1>5
<1> QED BY <1>6

(* What a loop takes off the front is up to the floor.                     *)
LEMMA PassedFacts ==
  ASSUME NEW s \in Seq(Nat), NEW floor \in Nat
  PROVE  Passed(s, floor) \in 0 .. Len(s) /\ \A k \in 1 .. Passed(s, floor) : s[k] <= floor
<1> DEFINE T == {k \in 1 .. Len(s) : s[k] > floor}
           P(n) == /\ \A k \in 1 .. n : s[k] <= floor
                   /\ n < Len(s) => s[n + 1] > floor
<1>1. \A k \in 1 .. Len(s) : s[k] \in Nat OBVIOUS
<1>2. \E n \in 0 .. Len(s) : P(n)
  <2>1. CASE T = {}
    <3>1. Len(s) \in 0 .. Len(s) /\ \A k \in 1 .. Len(s) : s[k] <= floor BY <1>1, <2>1
    <3>2. P(Len(s)) BY <3>1
    <3> QED BY <3>1, <3>2
  <2>2. CASE T # {}
    <3>1. PICK m \in T : \A k \in T : m <= k
      <4>1. T \in SUBSET Nat OBVIOUS
      <4> QED BY <2>2, <4>1, LeastNat, Zenon
    <3>2. m - 1 \in 0 .. Len(s) /\ (m - 1) + 1 = m OBVIOUS
    <3>3. \A k \in 1 .. m - 1 : s[k] <= floor
      <4>1. ASSUME NEW k \in 1 .. m - 1 PROVE s[k] <= floor
        <5>1. k \in 1 .. Len(s) /\ ~(m <= k) OBVIOUS
        <5>2. k \notin T BY <3>1, <5>1
        <5> QED BY <1>1, <5>1, <5>2
      <4> QED BY <4>1
    <3>4. P(m - 1) BY <3>2, <3>3
    <3> QED BY <3>2, <3>4
  <2> QED BY <2>1, <2>2
<1>3. Passed(s, floor) = CHOOSE n \in 0 .. Len(s) : P(n) BY DEF Passed
<1>4. PICK n : n = Passed(s, floor) OBVIOUS
<1>5. n \in 0 .. Len(s) /\ P(n) BY <1>2, <1>3, <1>4
<1> QED BY <1>4, <1>5

-----------------------------------------------------------------------------
(* Events on the way.                                                      *)

(* The fields of an event, and what numbering it leaves alone.             *)
LEMMA EventFields ==
  ASSUME NEW a \in Event, NEW s \in Nat
  PROVE  /\ a.conn \in Peer /\ a.n \in Nat /\ a.kind \in EventKind /\ a.seq \in Nat
         /\ [a EXCEPT !.seq = s] \in Event
         /\ [a EXCEPT !.seq = s].conn = a.conn /\ [a EXCEPT !.seq = s].n = a.n
         /\ [a EXCEPT !.seq = s].kind = a.kind /\ [a EXCEPT !.seq = s].seq = s
BY DEF Event

(* The first n of these events, numbered as the ledger counts them.        *)
Pushing(events, n, from) == Numbered(SubSeq(events, 1, n), from)
(* They are the same events under new numbers.                            *)
LEMMA PushingFacts ==
  ASSUME NEW ev \in Seq(Event), NEW n \in 0 .. Len(ev), NEW from \in Nat
  PROVE  /\ Pushing(ev, n, from) \in Seq(Event) /\ Len(Pushing(ev, n, from)) = n
         /\ \A k \in 1 .. n :
              /\ Pushing(ev, n, from)[k].conn = ev[k].conn /\ Pushing(ev, n, from)[k].n = ev[k].n
              /\ Pushing(ev, n, from)[k].kind = ev[k].kind /\ Pushing(ev, n, from)[k].seq = from + k
<1>1. PICK s : s = SubSeq(ev, 1, n) OBVIOUS
<1>2. s \in Seq(Event) /\ Len(s) = n /\ DOMAIN s = 1 .. n BY <1>1, Cut
<1>3. \A k \in 1 .. n : s[k] = ev[k] /\ s[k] \in Event BY <1>1, <1>2, Cut
<1>4. Pushing(ev, n, from) = [k \in 1 .. n |-> [s[k] EXCEPT !.seq = from + k]]
  BY <1>1, <1>2 DEF Pushing, Numbered
<1>5. PICK t : t = Pushing(ev, n, from) OBVIOUS
<1>6. \A k \in 1 .. n : t[k] = [s[k] EXCEPT !.seq = from + k] /\ from + k \in Nat BY <1>4, <1>5
<1>7. \A k \in 1 .. n : t[k] \in Event
  <2>1. ASSUME NEW k \in 1 .. n PROVE t[k] \in Event
    <3>1. s[k] \in Event /\ from + k \in Nat /\ t[k] = [s[k] EXCEPT !.seq = from + k] BY <1>3, <1>6
    <3> QED BY <3>1, EventFields
  <2> QED BY <2>1
<1>8. DOMAIN t = 1 .. n /\ n \in Nat BY <1>4, <1>5
<1>9. t \in Seq(Event) /\ Len(t) = n
  <2>1. t = [k \in 1 .. n |-> t[k]] BY <1>4, <1>5
  <2>2. t \in [1 .. n -> Event] BY <1>7, <2>1
  <2> QED BY <1>8, <2>2, IsASeq
<1>10. \A k \in 1 .. n : t[k].conn = ev[k].conn /\ t[k].n = ev[k].n /\ t[k].kind = ev[k].kind
                         /\ t[k].seq = from + k
  <2>1. ASSUME NEW k \in 1 .. n
        PROVE  /\ t[k].conn = ev[k].conn /\ t[k].n = ev[k].n /\ t[k].kind = ev[k].kind
               /\ t[k].seq = from + k
    <3>1. s[k] \in Event /\ from + k \in Nat /\ t[k] = [s[k] EXCEPT !.seq = from + k] BY <1>3, <1>6
    <3>2. PICK a \in Event : a = s[k] BY <3>1
    <3>3. PICK b : b = [a EXCEPT !.seq = from + k] OBVIOUS
    <3>4. b.conn = a.conn /\ b.n = a.n /\ b.kind = a.kind /\ b.seq = from + k
      BY <3>1, <3>3, EventFields
    <3> QED BY <1>3, <3>1, <3>2, <3>3, <3>4
  <2> QED BY <2>1
<1> QED BY <1>5, <1>9, <1>10

(* The batches an entry holds are sequences of events.                     *)
LEMMA HeldFields ==
  ASSUME NEW rng \in [Entry -> Held], NEW e \in Entry
  PROVE  rng[e].events \in Seq(Event) /\ rng[e].epoch \in Nat /\ rng[e].kind \in BatchKind
BY DEF Held

(* What is on the way.                                                     *)
LEMMA WayFacts ==
  ASSUME NEW queue \in Seq(Event), NEW rng \in [Entry -> Held]
  PROVE  /\ \A a : a \in Way(queue, rng) <=>
                     \/ \E k \in 1 .. Len(queue) : queue[k] = a
                     \/ \E e \in Entry : \E k \in 1 .. Len(rng[e].events) : rng[e].events[k] = a
         /\ Way(queue, rng) \subseteq Event
         /\ IsFiniteSet(Way(queue, rng))
<1>1. \A e \in Entry : rng[e].events \in Seq(Event) BY HeldFields
<1>2. \A a : a \in Ringed(rng) <=> \E e \in Entry : a \in Range(rng[e].events) BY DEF Ringed
<1>3. \A a : a \in Ringed(rng) <=>
        \E e \in Entry : \E k \in 1 .. Len(rng[e].events) : rng[e].events[k] = a
  <2>1. \A e \in Entry : \A a :
          a \in Range(rng[e].events) <=> \E k \in 1 .. Len(rng[e].events) : rng[e].events[k] = a
    BY <1>1, Members
  <2> QED BY <1>2, <2>1, Zenon
<1>4. \A a : a \in Range(queue) <=> \E k \in 1 .. Len(queue) : queue[k] = a BY Members
<1>5. Range(queue) \subseteq Event /\ \A e \in Entry : Range(rng[e].events) \subseteq Event
  BY <1>1, Members
<1>6. Way(queue, rng) \subseteq Event BY <1>2, <1>5 DEF Way
<1>7. IsFiniteSet(Way(queue, rng))
  <2>1. PICK f : f = [e \in Entry |-> Range(rng[e].events)] OBVIOUS
  <2>2. PICK T : T = {Range(rng[e].events) : e \in Entry} OBVIOUS
  <2>3. f \in Surjection(Entry, T) BY <2>1, <2>2 DEF Surjection
  <2>4. IsFiniteSet(Entry)
    <3>1. 1 \in Int /\ InFlight \in Int BY FlowAssumption
    <3> QED BY <3>1, FS_Interval DEF Entry
  <2>5. IsFiniteSet(T) BY <2>3, <2>4, FS_Surjection
  <2>6. \A t \in T : IsFiniteSet(t) BY <1>1, <2>2, MembersFinite
  <2>7. IsFiniteSet(UNION T) BY <2>5, <2>6, FS_UNION
  <2>8. IsFiniteSet(Range(queue)) BY MembersFinite
  <2>9. Way(queue, rng) = (UNION T) \cup Range(queue) BY <2>2 DEF Way, Ringed
  <2>10. PICK U, V : U = UNION T /\ V = Range(queue) OBVIOUS
  <2>11. IsFiniteSet(U \cup V) BY <2>7, <2>8, <2>10, FS_Union, Zenon
  <2> QED BY <2>9, <2>10, <2>11
<1> QED BY <1>3, <1>4, <1>6, <1>7 DEF Way

(* Pushing events adds them to what is on the way.                         *)
LEMMA WayPush ==
  ASSUME NEW queue \in Seq(Event), NEW rng \in [Entry -> Held], NEW over \in Seq(Event)
  PROVE  Way(queue \o over, rng) = Way(queue, rng) \cup Range(over)
<1>1. Range(queue \o over) = Range(queue) \cup Range(over)
  <2>1. PICK j : j = queue \o over OBVIOUS
  <2>2. j \in Seq(Event) /\ Len(j) = Len(queue) + Len(over) BY <2>1
  <2>3. \A k \in 1 .. Len(queue) : k \in 1 .. Len(j) /\ j[k] = queue[k] BY <2>1, <2>2
  <2>4. \A k \in 1 .. Len(over) : Len(queue) + k \in 1 .. Len(j) /\ j[Len(queue) + k] = over[k]
    BY <2>1, <2>2
  <2>5. \A k \in 1 .. Len(j) : k \in 1 .. Len(queue) \/ \E i \in 1 .. Len(over) : k = Len(queue) + i
    <3>1. ASSUME NEW k \in 1 .. Len(j), k \notin 1 .. Len(queue)
          PROVE  \E i \in 1 .. Len(over) : k = Len(queue) + i
      <4>1. k - Len(queue) \in 1 .. Len(over) /\ k = Len(queue) + (k - Len(queue)) BY <2>2, <3>1
      <4> QED BY <4>1
    <3> QED BY <3>1
  <2>6. ASSUME NEW x PROVE x \in Range(j) <=> x \in Range(queue) \/ x \in Range(over)
    <3>1. x \in Range(j) <=> \E k \in 1 .. Len(j) : j[k] = x BY <2>2, Members
    <3>2. x \in Range(queue) <=> \E k \in 1 .. Len(queue) : queue[k] = x BY Members
    <3>3. x \in Range(over) <=> \E k \in 1 .. Len(over) : over[k] = x BY Members
    <3> QED BY <2>3, <2>4, <2>5, <3>1, <3>2, <3>3
  <2> QED BY <2>1, <2>6
<1> QED BY <1>1 DEF Way

(* A number belongs to one event on the way.                               *)
LEMMA SeqUnique ==
  ASSUME NEW queue \in Seq(Event), NEW rng \in [Entry -> Held], NEW pushed \in Nat,
         NEW published \in Nat, SeqInv(queue, rng, pushed, published),
         NEW a \in Way(queue, rng), NEW b \in Way(queue, rng), a.seq = b.seq
  PROVE  a = b
<1>1. \A k \in 1 .. Len(queue) : queue[k].seq = pushed - Len(queue) + k BY DEF SeqInv
<1>2. \A e \in Entry : \A k \in 1 .. Len(rng[e].events) : rng[e].events[k].seq <= pushed - Len(queue)
  BY DEF SeqInv
<1>3. \A e \in Entry : \A j, k \in 1 .. Len(rng[e].events) :
        j < k => rng[e].events[j].seq < rng[e].events[k].seq
  BY DEF SeqInv
<1>4. \A e, f \in Entry : e # f =>
       \A j \in 1 .. Len(rng[e].events), k \in 1 .. Len(rng[f].events) :
         /\ rng[e].epoch # rng[f].epoch
         /\ rng[e].epoch < rng[f].epoch => rng[e].events[j].seq < rng[f].events[k].seq
  BY DEF SeqInv
<1>5. Len(queue) \in Nat /\ a.seq \in Nat
  <2>1. a \in Event BY WayFacts
  <2>2. a.seq \in Nat BY <2>1, EventFields
  <2>3. Len(queue) \in Nat OBVIOUS
  <2> QED BY <2>2, <2>3
<1>6. \A x : x \in Way(queue, rng) =>
        \/ \E k \in 1 .. Len(queue) : queue[k] = x
        \/ \E e \in Entry : \E k \in 1 .. Len(rng[e].events) : rng[e].events[k] = x
  BY WayFacts
<1>7. CASE \E k \in 1 .. Len(queue) : queue[k] = a
  <2>1. PICK k \in 1 .. Len(queue) : queue[k] = a BY <1>7
  <2>2. a.seq = pushed - Len(queue) + k BY <1>1, <2>1
  <2>3. CASE \E j \in 1 .. Len(queue) : queue[j] = b
    <3>1. PICK j \in 1 .. Len(queue) : queue[j] = b BY <2>3
    <3>2. b.seq = pushed - Len(queue) + j BY <1>1, <3>1
    <3>3. PICK base \in Int : base = pushed - Len(queue) BY <1>5
    <3>4. base + k = base + j BY <2>2, <3>2, <3>3
    <3>5. j = k BY <3>3, <3>4
    <3> QED BY <2>1, <3>1, <3>5
  <2>4. CASE \E e \in Entry : \E j \in 1 .. Len(rng[e].events) : rng[e].events[j] = b
    <3>1. b.seq <= pushed - Len(queue) BY <1>2, <2>4
    <3> QED BY <1>5, <2>2, <3>1
  <2> QED BY <1>6, <2>3, <2>4
<1>8. CASE \E e \in Entry : \E k \in 1 .. Len(rng[e].events) : rng[e].events[k] = a
  <2>1. PICK e \in Entry : \E k \in 1 .. Len(rng[e].events) : rng[e].events[k] = a BY <1>8
  <2>2. PICK k \in 1 .. Len(rng[e].events) : rng[e].events[k] = a BY <2>1
  <2>3. a.seq <= pushed - Len(queue) BY <1>2, <2>2
  <2>4. CASE \E j \in 1 .. Len(queue) : queue[j] = b
    <3>1. PICK j \in 1 .. Len(queue) : queue[j] = b BY <2>4
    <3>2. b.seq = pushed - Len(queue) + j BY <1>1, <3>1
    <3> QED BY <1>5, <2>3, <3>2
  <2>5. CASE \E f \in Entry : \E j \in 1 .. Len(rng[f].events) : rng[f].events[j] = b
    <3>1. PICK f \in Entry : \E j \in 1 .. Len(rng[f].events) : rng[f].events[j] = b BY <2>5
    <3>2. PICK j \in 1 .. Len(rng[f].events) : rng[f].events[j] = b BY <3>1
    <3>3. rng[e].epoch \in Nat /\ rng[f].epoch \in Nat BY HeldFields
    <3>4. CASE e = f
      <4>1. Len(rng[e].events) \in Nat BY HeldFields
      <4>2. ~(j < k) BY <1>3, <1>5, <2>2, <3>2, <3>4
      <4>3. ~(k < j) BY <1>3, <1>5, <2>2, <3>2, <3>4
      <4>4. j = k BY <3>4, <4>1, <4>2, <4>3
      <4> QED BY <2>2, <3>2, <3>4, <4>4
    <3>5. CASE e # f
      <4>1. rng[e].epoch # rng[f].epoch BY <1>4, <3>5
      <4>2. ~(rng[e].epoch < rng[f].epoch) BY <1>4, <1>5, <2>2, <3>2, <3>5
      <4>3. ~(rng[f].epoch < rng[e].epoch) BY <1>4, <1>5, <2>2, <3>2, <3>5
      <4> QED BY <3>3, <4>1, <4>2, <4>3
    <3> QED BY <3>4, <3>5
  <2> QED BY <1>6, <2>4, <2>5
<1> QED BY <1>6, <1>7, <1>8

-----------------------------------------------------------------------------
(* Numbers.                                                                *)

(* Events pushed behind the queue are numbered behind it.                  *)
LEMMA SeqPush ==
  ASSUME NEW queue \in Seq(Event), NEW rng \in [Entry -> Held], NEW over \in Seq(Event),
         NEW pushed \in Nat, NEW published \in Nat, SeqInv(queue, rng, pushed, published),
         Len(queue) + Len(over) <= QueueBound,
         \A k \in 1 .. Len(over) : over[k].seq = pushed + k
  PROVE  SeqInv(queue \o over, rng, pushed + Len(over), published)
<1>1. PICK j : j = queue \o over OBVIOUS
<1>2. j \in Seq(Event) /\ Len(j) = Len(queue) + Len(over) BY <1>1
<1>3. PICK q \in Nat, o \in Nat : q = Len(queue) /\ o = Len(over) OBVIOUS
<1>4. q <= pushed /\ q <= QueueBound BY <1>3 DEF SeqInv
<1>5. \A k \in 1 .. q : queue[k].seq = pushed - q + k BY <1>3 DEF SeqInv
<1>6. \A k \in 1 .. Len(j) : j[k].seq = pushed + o - Len(j) + k
  <2>1. ASSUME NEW k \in 1 .. Len(j) PROVE j[k].seq = pushed + o - Len(j) + k
    <3>1. CASE k <= q
      <4>1. j[k] = queue[k] /\ k \in 1 .. q BY <1>1, <1>2, <1>3, <3>1
      <4>2. pushed + o - (q + o) + k = pushed - q + k BY <1>3
      <4> QED BY <1>2, <1>3, <1>5, <4>1, <4>2
    <3>2. CASE ~(k <= q)
      <4>1. PICK i \in 1 .. o : k = q + i
        <5>1. k - q \in 1 .. o /\ k = q + (k - q) BY <1>2, <1>3, <3>2
        <5> QED BY <5>1
      <4>2. j[k] = over[i] BY <1>1, <1>2, <1>3, <4>1
      <4>3. over[i].seq = pushed + i BY <1>3
      <4>4. pushed + o - (q + o) + k = pushed + i BY <1>3, <4>1
      <4> QED BY <1>2, <1>3, <4>2, <4>3, <4>4
    <3> QED BY <3>1, <3>2
  <2> QED BY <2>1
<1>7. pushed + o - Len(j) = pushed - q /\ Len(j) <= pushed + o /\ Len(j) <= QueueBound
  BY <1>2, <1>3, <1>4
<1>8. SeqInv(j, rng, pushed + o, published) BY <1>3, <1>6, <1>7, SMTT(20) DEF SeqInv
<1> QED BY <1>1, <1>3, <1>8

(* What leaves the ring leaves the rest in order.                          *)
LEMMA SeqFree ==
  ASSUME NEW queue \in Seq(Event), NEW rng \in [Entry -> Held], NEW left \in [Entry -> Held],
         NEW pushed \in Nat, NEW published \in Nat, SeqInv(queue, rng, pushed, published),
         \A e \in Entry :
           left[e].events = <<>> \/ (left[e].events = rng[e].events /\ left[e].epoch = rng[e].epoch)
  PROVE  /\ SeqInv(queue, left, pushed, published)
         /\ Way(queue, left) \subseteq Way(queue, rng)
<1>1. Len(queue) <= pushed /\ Len(queue) <= QueueBound
      /\ \A k \in 1 .. Len(queue) : queue[k].seq = pushed - Len(queue) + k
  BY DEF SeqInv
<1>2. \A e \in Entry : \A k \in 1 .. Len(left[e].events) :
        left[e].events = rng[e].events /\ left[e].epoch = rng[e].epoch
  OBVIOUS
<1>3. \A e \in Entry : \A k \in 1 .. Len(left[e].events) :
       /\ left[e].events[k].seq <= pushed - Len(queue)
       /\ 1 <= left[e].epoch /\ left[e].epoch <= published
       /\ \A j \in 1 .. Len(left[e].events) : j < k => left[e].events[j].seq < left[e].events[k].seq
  <2>1. ASSUME NEW e \in Entry, NEW k \in 1 .. Len(left[e].events)
        PROVE /\ left[e].events[k].seq <= pushed - Len(queue)
              /\ 1 <= left[e].epoch /\ left[e].epoch <= published
              /\ \A j \in 1 .. Len(left[e].events) :
                   j < k => left[e].events[j].seq < left[e].events[k].seq
    <3>1. left[e].events = rng[e].events /\ left[e].epoch = rng[e].epoch BY <1>2
    <3> QED BY <3>1 DEF SeqInv
  <2> QED BY <2>1
<1>4. \A e, f \in Entry : e # f =>
       \A j \in 1 .. Len(left[e].events), k \in 1 .. Len(left[f].events) :
         /\ left[e].epoch # left[f].epoch
         /\ left[e].epoch < left[f].epoch => left[e].events[j].seq < left[f].events[k].seq
  <2>1. ASSUME NEW e \in Entry, NEW f \in Entry, e # f,
               NEW j \in 1 .. Len(left[e].events), NEW k \in 1 .. Len(left[f].events)
        PROVE /\ left[e].epoch # left[f].epoch
              /\ left[e].epoch < left[f].epoch => left[e].events[j].seq < left[f].events[k].seq
    <3>1. left[e].events = rng[e].events /\ left[e].epoch = rng[e].epoch BY <1>2
    <3>2. left[f].events = rng[f].events /\ left[f].epoch = rng[f].epoch BY <1>2
    <3> QED BY <2>1, <3>1, <3>2 DEF SeqInv
  <2> QED BY <2>1
<1>5. ASSUME NEW a \in Way(queue, left) PROVE a \in Way(queue, rng)
  <2>1. CASE \E k \in 1 .. Len(queue) : queue[k] = a BY <2>1, WayFacts
  <2>2. CASE \E e \in Entry : \E k \in 1 .. Len(left[e].events) : left[e].events[k] = a
    <3>1. \E e \in Entry : \E k \in 1 .. Len(rng[e].events) : rng[e].events[k] = a BY <1>2, <2>2
    <3> QED BY <3>1, WayFacts
  <2> QED BY <2>1, <2>2, WayFacts
<1>6. SeqInv(queue, left, pushed, published) BY <1>1, <1>3, <1>4 DEF SeqInv
<1> QED BY <1>5, <1>6

(* The queue is dropped.                                                   *)
LEMMA SeqDrop ==
  ASSUME NEW queue \in Seq(Event), NEW rng \in [Entry -> Held],
         NEW pushed \in Nat, NEW published \in Nat, SeqInv(queue, rng, pushed, published)
  PROVE  /\ SeqInv(<<>>, rng, pushed, published)
         /\ Way(<<>>, rng) \subseteq Way(queue, rng)
<1>1. Len(<<>>) = 0 /\ 0 <= pushed /\ Len(queue) \in Nat OBVIOUS
<1>2. 0 <= QueueBound /\ pushed - Len(queue) <= pushed - 0
  <2>1. Len(queue) <= QueueBound BY DEF SeqInv
  <2>2. QueueBound \in Nat BY FlowAssumption DEF QueueBound
  <2> QED BY <1>1, <2>2
<1>3. \A e \in Entry : \A k \in 1 .. Len(rng[e].events) : rng[e].events[k].seq <= pushed - 0
  <2>1. ASSUME NEW e \in Entry, NEW k \in 1 .. Len(rng[e].events)
        PROVE  rng[e].events[k].seq <= pushed - 0
    <3>1. rng[e].events[k].seq <= pushed - Len(queue) BY DEF SeqInv
    <3>2. rng[e].events[k] \in Event BY HeldFields
    <3>3. rng[e].events[k].seq \in Nat BY <3>2, EventFields
    <3> QED BY <1>1, <3>1, <3>3
  <2> QED BY <2>1
<1>4. SeqInv(<<>>, rng, pushed, published) BY <1>1, <1>2, <1>3 DEF SeqInv
<1>5. ASSUME NEW a \in Way(<<>>, rng) PROVE a \in Way(queue, rng)
  <2>1. PICK q \in Seq(Event) : q = <<>> BY EmptySeq
  <2>2. \A k \in 1 .. Len(q) : FALSE BY <2>1
  <2>3. a \in Way(q, rng) BY <2>1
  <2>4. \E e \in Entry : \E k \in 1 .. Len(rng[e].events) : rng[e].events[k] = a
    BY <2>2, <2>3, WayFacts
  <2> QED BY <2>4, WayFacts
<1> QED BY <1>4, <1>5

(* A free entry holds these events, posted at an epoch.                    *)
Posts(front, entry, rng, next, epoch) ==
  /\ rng[entry].events = <<>> /\ next[entry].epoch = epoch /\ next[entry].events = front
  /\ \A e \in Entry : e # entry => next[e] = rng[e]

(* A batch posted: what it holds was the front of the queue, and is later  *)
(* than what the ring holds.  Nothing joins or leaves the way.             *)
LEMMA SeqPost ==
  ASSUME NEW front \in Seq(Event), NEW rest \in Seq(Event), NEW rng \in [Entry -> Held],
         NEW pushed \in Nat, NEW published \in Nat,
         SeqInv(front \o rest, rng, pushed, published),
         NEW entry \in Entry, NEW next \in [Entry -> Held], NEW epoch \in Nat, epoch = published + 1,
         Posts(front, entry, rng, next, epoch)
  PROVE  /\ SeqInv(rest, next, pushed, epoch)
         /\ Way(rest, next) = Way(front \o rest, rng)
<1>1. PICK q : q = front \o rest OBVIOUS
<1>2. q \in Seq(Event) /\ Len(q) = Len(front) + Len(rest) BY <1>1
<1>3. \A k \in 1 .. Len(front) : k \in 1 .. Len(q) /\ q[k] = front[k] BY <1>1, <1>2
<1>4. \A k \in 1 .. Len(rest) : Len(front) + k \in 1 .. Len(q) /\ q[Len(front) + k] = rest[k]
  BY <1>1, <1>2
<1>5. next[entry].epoch = published + 1 /\ next[entry].events = front BY DEF Posts
<1>6. \A e \in Entry : e # entry => next[e] = rng[e] BY DEF Posts
<1>7. next \in [Entry -> Held] OBVIOUS
<1>8. PICK a \in Nat, b \in Nat : a = Len(front) /\ b = Len(rest) OBVIOUS
<1>9. a + b <= pushed /\ a + b <= QueueBound BY <1>1, <1>2, <1>8 DEF SeqInv
<1>10. \A k \in 1 .. a : front[k].seq = pushed - (a + b) + k BY <1>1, <1>2, <1>3, <1>8 DEF SeqInv
<1>11. \A k \in 1 .. b : rest[k].seq = pushed - b + k
  <2>1. ASSUME NEW k \in 1 .. b PROVE rest[k].seq = pushed - b + k
    <3>1. q[a + k].seq = pushed - (a + b) + (a + k) BY <1>1, <1>2, <1>4, <1>8 DEF SeqInv
    <3>2. pushed - (a + b) + (a + k) = pushed - b + k OBVIOUS
    <3> QED BY <1>4, <1>8, <3>1, <3>2
  <2> QED BY <2>1
<1>12. \A e \in Entry : \A k \in 1 .. Len(rng[e].events) :
         /\ rng[e].events[k].seq <= pushed - (a + b) /\ 1 <= rng[e].epoch /\ rng[e].epoch <= published
         /\ rng[e].events[k].seq \in Nat /\ rng[e].epoch \in Nat /\ e # entry
  <2>1. ASSUME NEW e \in Entry, NEW k \in 1 .. Len(rng[e].events)
        PROVE  rng[e].events[k].seq \in Nat /\ rng[e].epoch \in Nat /\ e # entry
    <3>1. rng[e].events[k] \in Event /\ rng[e].epoch \in Nat BY HeldFields
    <3>2. rng[e].events[k].seq \in Nat BY <3>1, EventFields
    <3>3. e # entry BY DEF Posts
    <3> QED BY <3>1, <3>2, <3>3
  <2> QED BY <1>1, <1>2, <1>8, <2>1 DEF SeqInv
<1>13. \A e \in Entry : \A k \in 1 .. Len(next[e].events) :
         /\ next[e].events[k].seq <= pushed - b
         /\ 1 <= next[e].epoch /\ next[e].epoch <= published + 1
         /\ \A j \in 1 .. Len(next[e].events) : j < k => next[e].events[j].seq < next[e].events[k].seq
  <2>1. ASSUME NEW e \in Entry, NEW k \in 1 .. Len(next[e].events)
        PROVE /\ next[e].events[k].seq <= pushed - b
              /\ 1 <= next[e].epoch /\ next[e].epoch <= published + 1
              /\ \A j \in 1 .. Len(next[e].events) :
                   j < k => next[e].events[j].seq < next[e].events[k].seq
    <3>1. CASE e = entry
      <4>1. k \in 1 .. a /\ next[e].events = front /\ Len(next[e].events) = a BY <1>5, <1>8, <3>1
      <4>2. front[k].seq <= pushed - b BY <1>10, <4>1
      <4>3. \A j \in 1 .. a : j < k => front[j].seq < front[k].seq BY <1>10, <4>1
      <4>4. 1 <= published + 1 /\ published + 1 <= published + 1 OBVIOUS
      <4> QED BY <1>5, <3>1, <4>1, <4>2, <4>3, <4>4
    <3>2. CASE e # entry
      <4>1. next[e] = rng[e] BY <1>6, <3>2
      <4>2. rng[e].events[k].seq <= pushed - b BY <1>8, <1>12, <4>1
      <4>3. 1 <= rng[e].epoch /\ rng[e].epoch <= published + 1 BY <1>12, <4>1
      <4>4. \A j \in 1 .. Len(rng[e].events) : j < k => rng[e].events[j].seq < rng[e].events[k].seq
        BY <4>1 DEF SeqInv
      <4> QED BY <4>1, <4>2, <4>3, <4>4
    <3> QED BY <3>1, <3>2
  <2> QED BY <2>1
<1>14. \A e, f \in Entry : e # f =>
       \A j \in 1 .. Len(next[e].events), k \in 1 .. Len(next[f].events) :
         /\ next[e].epoch # next[f].epoch
         /\ next[e].epoch < next[f].epoch => next[e].events[j].seq < next[f].events[k].seq
  <2>1. ASSUME NEW e \in Entry, NEW f \in Entry, e # f,
               NEW j \in 1 .. Len(next[e].events), NEW k \in 1 .. Len(next[f].events)
        PROVE /\ next[e].epoch # next[f].epoch
              /\ next[e].epoch < next[f].epoch => next[e].events[j].seq < next[f].events[k].seq
    <3>1. CASE e = entry
      <4>1. next[f] = rng[f] /\ next[e].epoch = published + 1 BY <1>5, <1>6, <2>1, <3>1
      <4>2. rng[f].epoch <= published /\ rng[f].epoch \in Nat BY <1>12, <4>1
      <4>3. rng[f].epoch # published + 1 /\ ~(published + 1 < rng[f].epoch) BY <4>2
      <4> QED BY <4>1, <4>3
    <3>2. CASE f = entry
      <4>1. next[e] = rng[e] /\ next[f].epoch = published + 1 /\ next[f].events = front
        BY <1>5, <1>6, <2>1, <3>2
      <4>2. rng[e].epoch <= published /\ rng[e].epoch \in Nat BY <1>12, <4>1
      <4>3. rng[e].epoch # published + 1 BY <4>2
      <4>4. k \in 1 .. a BY <1>8, <4>1
      <4>5. rng[e].events[j].seq <= pushed - (a + b) /\ rng[e].events[j].seq \in Nat BY <1>12, <4>1
      <4>6. front[k].seq = pushed - (a + b) + k BY <1>10, <4>4
      <4>7. rng[e].events[j].seq < front[k].seq BY <4>4, <4>5, <4>6
      <4> QED BY <4>1, <4>3, <4>7
    <3>3. CASE e # entry /\ f # entry
      <4>1. next[e] = rng[e] /\ next[f] = rng[f] BY <1>6, <3>3
      <4> QED BY <2>1, <4>1 DEF SeqInv
    <3> QED BY <3>1, <3>2, <3>3
  <2> QED BY <2>1
<1>15. SeqInv(rest, next, pushed, published + 1)
  <2>1. Len(rest) <= pushed /\ Len(rest) <= QueueBound
    <3>1. QueueBound \in Nat BY FlowAssumption DEF QueueBound
    <3> QED BY <1>8, <1>9, <3>1
  <2> QED BY <1>8, <1>11, <1>13, <1>14, <2>1 DEF SeqInv
<1>16. ASSUME NEW x PROVE x \in Way(rest, next) <=> x \in Way(q, rng)
  <2>1. x \in Way(rest, next) <=>
          \/ \E k \in 1 .. Len(rest) : rest[k] = x
          \/ \E e \in Entry : \E k \in 1 .. Len(next[e].events) : next[e].events[k] = x
    <3>1. PICK nx \in [Entry -> Held] : nx = next BY <1>7, Zenon
    <3>2. x \in Way(rest, nx) <=>
            \/ \E k \in 1 .. Len(rest) : rest[k] = x
            \/ \E e \in Entry : \E k \in 1 .. Len(nx[e].events) : nx[e].events[k] = x
      BY WayFacts
    <3> QED BY <3>1, <3>2, Zenon
  <2>2. x \in Way(q, rng) <=>
          \/ \E k \in 1 .. Len(q) : q[k] = x
          \/ \E e \in Entry : \E k \in 1 .. Len(rng[e].events) : rng[e].events[k] = x
    BY <1>2, WayFacts, ZenonT(30)
  <2>3. (\E e \in Entry : \E k \in 1 .. Len(next[e].events) : next[e].events[k] = x) <=>
          \/ \E k \in 1 .. Len(front) : front[k] = x
          \/ \E e \in Entry : \E k \in 1 .. Len(rng[e].events) : rng[e].events[k] = x
    <3>1. ASSUME NEW e \in Entry, NEW k \in 1 .. Len(rng[e].events) PROVE next[e] = rng[e]
      BY <1>6, <1>12
    <3> QED BY <1>5, <1>6, <3>1
  <2>4. (\E k \in 1 .. Len(q) : q[k] = x) <=>
          (\E k \in 1 .. Len(front) : front[k] = x) \/ (\E k \in 1 .. Len(rest) : rest[k] = x)
    <3>1. \A k \in 1 .. Len(q) : k \in 1 .. Len(front) \/ \E i \in 1 .. Len(rest) : k = Len(front) + i
      <4>1. ASSUME NEW k \in 1 .. Len(q), k \notin 1 .. Len(front)
            PROVE  \E i \in 1 .. Len(rest) : k = Len(front) + i
        <5>1. k - Len(front) \in 1 .. Len(rest) /\ k = Len(front) + (k - Len(front)) BY <1>2, <4>1
        <5> QED BY <5>1
      <4> QED BY <4>1
    <3>2. ASSUME NEW k \in 1 .. Len(q), q[k] = x
          PROVE  (\E i \in 1 .. Len(front) : front[i] = x) \/ (\E i \in 1 .. Len(rest) : rest[i] = x)
      <4>1. CASE k \in 1 .. Len(front) BY <1>3, <3>2, <4>1
      <4>2. CASE \E i \in 1 .. Len(rest) : k = Len(front) + i BY <1>4, <3>2, <4>2
      <4> QED BY <3>1, <4>1, <4>2
    <3>3. ASSUME NEW k \in 1 .. Len(front), front[k] = x PROVE \E i \in 1 .. Len(q) : q[i] = x
      BY <1>3, <3>3
    <3>4. ASSUME NEW k \in 1 .. Len(rest), rest[k] = x PROVE \E i \in 1 .. Len(q) : q[i] = x
      BY <1>4, <3>4
    <3> QED BY <3>2, <3>3, <3>4
  <2> QED BY <2>1, <2>2, <2>3, <2>4, Zenon
<1>17. Way(rest, next) = Way(q, rng) BY <1>16
<1> QED BY <1>1, <1>7, <1>15, <1>17

-----------------------------------------------------------------------------
(* The order of a connection's events.                                     *)

(* The fields of a connection.                                             *)
LEMMA ConFields ==
  ASSUME NEW p \in Connection
  PROVE  /\ p.held \in Seq(Event) /\ Len(p.held) \in Nat /\ p.said \in Nat /\ Gone(p) \in Int
         /\ p.sequences \in Seq(Nat) /\ Len(p.sequences) \in Nat
<1>1. p.held \in Seq(Event) /\ p.said \in Nat /\ p.sequences \in Seq(Nat) BY DEF Connection
<1>2. Len(p.held) \in Nat /\ Len(p.sequences) \in Nat BY <1>1
<1> QED BY <1>1, <1>2 DEF Gone

(* A connection that holds nothing handed over all it said.                *)
LEMMA GoneEmpty ==
  ASSUME NEW p, p.held = <<>>, NEW x \in Nat, p.said = x
  PROVE  Gone(p) = x
<1>1. Len(<<>>) = 0 OBVIOUS
<1> QED BY <1>1 DEF Gone

(* Events of a connection pushed from what it holds.                       *)
LEMMA OrderPush ==
  ASSUME NEW way, way \subseteq Event, NEW r \in Seq(Event), NEW cn \in [Peer -> Connection],
         NEW next \in [Peer -> Connection], NEW last \in [Peer -> Nat], NEW gone,
         OrderInv(way, r, cn, last, gone),
         NEW c \in Peer, cn[c].life = "served", NEW n \in 0 .. Len(cn[c].held), NEW from \in Nat,
         \A a \in way : a.seq <= from,
         next[c].life = "served", next[c].said = cn[c].said,
         next[c].held = Behind(cn[c].held, n), \A d \in Peer : d # c => next[d] = cn[d]
  PROVE  OrderInv(way \cup Range(Pushing(cn[c].held, n, from)), r, next, last, gone)
<1>1. PICK h \in Seq(Event) : h = cn[c].held BY ConFields
<1>2. n \in 0 .. Len(h) BY <1>1
<1>3. PICK over \in Seq(Event) : over = Pushing(h, n, from) BY <1>2, PushingFacts
<1>4. Len(over) = n /\ \A k \in 1 .. n : over[k].conn = h[k].conn /\ over[k].n = h[k].n
                                          /\ over[k].seq = from + k
  BY <1>2, <1>3, PushingFacts
<1>5. PICK g \in Int : g = Gone(cn[c]) BY ConFields
<1>6. last[c] \in Nat /\ last[c] <= g BY <1>5 DEF OrderInv, HeldOrder
<1>7. \A k \in 1 .. Len(h) : h[k].conn = c /\ h[k].n = g + k BY <1>1, <1>5 DEF OrderInv, HeldOrder
<1>8. \A x \in Range(over) : \E k \in 1 .. n : x = over[k] /\ x.conn = c /\ x.n = g + k /\ x.seq = from + k
  <2>1. ASSUME NEW x \in Range(over)
        PROVE  \E k \in 1 .. n : x = over[k] /\ x.conn = c /\ x.n = g + k /\ x.seq = from + k
    <3>1. PICK k \in 1 .. n : over[k] = x BY <1>4, Members
    <3>2. k \in 1 .. Len(h) BY <1>2
    <3> QED BY <1>4, <1>7, <3>1, <3>2
  <2> QED BY <2>1
<1>9. Gone(next[c]) = g + n
  <2>1. Len(Behind(h, n)) = Len(h) - n /\ Len(h) \in Nat BY <1>2, Cut
  <2>2. cn[c].said \in Nat BY ConFields
  <2>3. Gone(next[c]) = cn[c].said - (Len(h) - n) BY <1>1, <2>1 DEF Gone
  <2>4. g = cn[c].said - Len(h) BY <1>1, <1>5 DEF Gone
  <2> QED BY <2>1, <2>2, <2>3, <2>4
<1>10. \A a \in way : a.conn \in Peer /\ a.n \in Nat /\ a.seq \in Nat BY EventFields
<1>11. \A a \in way : a.conn = c => a.n <= g BY <1>5 DEF OrderInv, WayBetween
<1> DEFINE more == way \cup Range(over)
<1>12. WayOrder(more)
  <2>1. ASSUME NEW a \in more, NEW b \in more, a.conn = b.conn, a.seq < b.seq PROVE a.n < b.n
    <3>1. CASE a \in way /\ b \in way BY <2>1, <3>1 DEF OrderInv, WayOrder
    <3>2. CASE a \in way /\ b \in Range(over)
      <4>1. PICK k \in 1 .. n : b.conn = c /\ b.n = g + k BY <1>8, <3>2
      <4>2. a.n \in Nat /\ a.n <= g BY <1>10, <1>11, <2>1, <3>2, <4>1
      <4> QED BY <4>1, <4>2
    <3>3. CASE a \in Range(over) /\ b \in way
      <4>1. PICK k \in 1 .. n : a.seq = from + k BY <1>8, <3>3
      <4>2. b.seq <= from /\ b.seq \in Nat BY <1>10, <3>3
      <4> QED BY <2>1, <4>1, <4>2
    <3>4. CASE a \in Range(over) /\ b \in Range(over)
      <4>1. PICK j \in 1 .. n : a.n = g + j /\ a.seq = from + j BY <1>8, <3>4
      <4>2. PICK k \in 1 .. n : b.n = g + k /\ b.seq = from + k BY <1>8, <3>4
      <4> QED BY <2>1, <4>1, <4>2
    <3> QED BY <3>1, <3>2, <3>3, <3>4
  <2> QED BY <2>1 DEF WayOrder
<1>13. WayBetween(more, next, last)
  <2>1. ASSUME NEW a \in more PROVE last[a.conn] < a.n /\ a.n <= Gone(next[a.conn])
    <3>1. CASE a \in way /\ a.conn = c
      <4>1. last[c] < a.n /\ a.n <= g /\ a.n \in Nat BY <1>10, <1>11, <3>1 DEF OrderInv, WayBetween
      <4>2. a.n <= g + n BY <4>1
      <4> QED BY <1>9, <3>1, <4>1, <4>2
    <3>2. CASE a \in way /\ a.conn # c
      <4>1. next[a.conn] = cn[a.conn] BY <1>10, <3>2
      <4> QED BY <3>2, <4>1 DEF OrderInv, WayBetween
    <3>3. CASE a \in Range(over)
      <4>1. PICK k \in 1 .. n : a.conn = c /\ a.n = g + k BY <1>8, <3>3
      <4>2. last[c] < g + k /\ g + k <= g + n BY <1>6
      <4> QED BY <1>9, <4>1, <4>2
    <3> QED BY <3>1, <3>2, <3>3
  <2> QED BY <2>1 DEF WayBetween
<1>14. HeldOrder(next, last)
  <2>1. ASSUME NEW d \in Peer
        PROVE /\ last[d] <= Gone(next[d])
              /\ \A k \in 1 .. Len(next[d].held) :
                   next[d].held[k].conn = d /\ next[d].held[k].n = Gone(next[d]) + k
              /\ next[d].life # "served" => next[d].held = <<>>
              /\ next[d].life \notin {"served", "over"} => next[d].said = 0
    <3>1. CASE d # c BY <3>1, SMTT(20) DEF OrderInv, HeldOrder
    <3>2. CASE d = c
      <4>1. last[c] <= g + n BY <1>6
      <4>2. PICK t : t = Behind(h, n) OBVIOUS
      <4>3. Len(t) = Len(h) - n /\ \A k \in 1 .. Len(h) - n : t[k] = h[n + k] BY <1>2, <4>2, Cut
      <4>4. ASSUME NEW k \in 1 .. Len(t) PROVE t[k].conn = c /\ t[k].n = g + n + k
        <5>1. n + k \in 1 .. Len(h) /\ t[k] = h[n + k] /\ g + (n + k) = g + n + k BY <1>2, <4>3, SMTT(20)
        <5> QED BY <1>7, <5>1
      <4> QED BY <1>1, <1>9, <3>2, <4>1, <4>2, <4>4
    <3> QED BY <3>1, <3>2
  <2> QED BY <2>1 DEF HeldOrder
<1>15. \A k \in 1 .. Len(r) : r[k].conn \in Peer /\ r[k].conn # c
  <2>1. \A k \in 1 .. Len(r) : r[k] \in Event OBVIOUS
  <2>2. \A k \in 1 .. Len(r) : cn[r[k].conn].life = "over" BY DEF OrderInv, Closing
  <2> QED BY <2>1, <2>2, EventFields
<1>16. Closing(more, r, next, last)
  <2>1. ASSUME NEW k \in 1 .. Len(r)
        PROVE /\ r[k].kind = "close" /\ r[k].n = 1
              /\ next[r[k].conn].said = 1 /\ next[r[k].conn].life = "over" /\ last[r[k].conn] = 0
              /\ \A a \in more : a.conn # r[k].conn
              /\ \A j \in 1 .. Len(r) : j # k => r[j].conn # r[k].conn
    <3>1. next[r[k].conn] = cn[r[k].conn] BY <1>15
    <3>2. \A a \in more : a.conn # r[k].conn
      <4>1. \A a \in way : a.conn # r[k].conn BY DEF OrderInv, Closing
      <4>2. \A a \in Range(over) : a.conn # r[k].conn BY <1>8, <1>15
      <4> QED BY <4>1, <4>2
    <3> QED BY <3>1, <3>2 DEF OrderInv, Closing
  <2> QED BY <2>1 DEF Closing
<1>17. Complete(more, r, next, last, gone)
  <2>1. ASSUME NEW d \in Peer \ gone, NEW m \in last[d] + 1 .. Gone(next[d])
        PROVE  (\E a \in more : a.conn = d /\ a.n = m) \/ (\E k \in 1 .. Len(r) : r[k].conn = d)
    <3>1. CASE d # c
      <4>1. m \in last[d] + 1 .. Gone(cn[d]) BY <3>1
      <4>2. (\E a \in way : a.conn = d /\ a.n = m) \/ (\E k \in 1 .. Len(r) : r[k].conn = d)
        BY <4>1 DEF OrderInv, Complete
      <4> QED BY <4>2
    <3>2. CASE d = c /\ m <= g
      <4>1. m \in last[d] + 1 .. Gone(cn[d]) BY <1>5, <1>6, <1>9, <3>2
      <4>2. (\E a \in way : a.conn = d /\ a.n = m) \/ (\E k \in 1 .. Len(r) : r[k].conn = d)
        BY <4>1 DEF OrderInv, Complete
      <4> QED BY <4>2
    <3>3. CASE d = c /\ ~(m <= g)
      <4>1. PICK k \in 1 .. n : m = g + k
        <5>1. m - g \in 1 .. n /\ m = g + (m - g) BY <1>6, <1>9, <3>3
        <5> QED BY <5>1
      <4>2. k \in 1 .. Len(h) BY <1>2
      <4>3. over[k].conn = c /\ over[k].n = m BY <1>4, <1>7, <4>1, <4>2
      <4>4. over[k] \in Range(over) BY <1>4, Members
      <4> QED BY <3>3, <4>3, <4>4
    <3> QED BY <3>1, <3>2, <3>3
  <2> QED BY <2>1 DEF Complete
<1>18. OrderInv(more, r, next, last, gone) BY <1>12, <1>13, <1>14, <1>16, <1>17 DEF OrderInv
<1> QED BY <1>1, <1>3, <1>18

(* Close events pushed from those that wait.                               *)
LEMMA OrderPost ==
  ASSUME NEW way, way \subseteq Event, NEW r \in Seq(Event), NEW cn \in [Peer -> Connection],
         NEW last \in [Peer -> Nat], NEW gone, OrderInv(way, r, cn, last, gone),
         NEW n \in 0 .. Len(r), NEW from \in Nat, \A a \in way : a.seq <= from
  PROVE  OrderInv(way \cup Range(Pushing(r, n, from)), Behind(r, n), cn, last, gone)
<1>1. PICK over \in Seq(Event) : over = Pushing(r, n, from) BY PushingFacts
<1>2. Len(over) = n /\ \A k \in 1 .. n : over[k].conn = r[k].conn /\ over[k].n = r[k].n
                                          /\ over[k].seq = from + k
  BY <1>1, PushingFacts
<1>3. PICK t \in Seq(Event) : t = Behind(r, n) BY Cut
<1>4. Len(t) = Len(r) - n /\ \A k \in 1 .. Len(r) - n : t[k] = r[n + k] BY <1>3, Cut
<1>5. \A k \in 1 .. Len(r) : r[k].conn \in Peer
  <2>1. \A k \in 1 .. Len(r) : r[k] \in Event OBVIOUS
  <2> QED BY <2>1, EventFields
<1>6. \A k \in 1 .. Len(r) :
        /\ r[k].kind = "close" /\ r[k].n = 1
        /\ cn[r[k].conn].said = 1 /\ cn[r[k].conn].life = "over" /\ last[r[k].conn] = 0
        /\ \A a \in way : a.conn # r[k].conn
        /\ \A j \in 1 .. Len(r) : j # k => r[j].conn # r[k].conn
  BY DEF OrderInv, Closing
<1>7. \A k \in 1 .. Len(r) : Gone(cn[r[k].conn]) = 1
  <2>1. ASSUME NEW k \in 1 .. Len(r) PROVE Gone(cn[r[k].conn]) = 1
    <3>1. cn[r[k].conn].held = <<>> /\ cn[r[k].conn].said = 1 BY <1>5, <1>6 DEF OrderInv, HeldOrder
    <3>2. Len(<<>>) = 0 OBVIOUS
    <3> QED BY <3>1, <3>2 DEF Gone
  <2> QED BY <2>1
<1>8. \A x \in Range(over) : \E k \in 1 .. n : k \in 1 .. Len(r) /\ x = over[k]
  <2>1. ASSUME NEW x \in Range(over) PROVE \E k \in 1 .. n : k \in 1 .. Len(r) /\ x = over[k]
    <3>1. PICK k \in 1 .. n : over[k] = x BY <1>2, Members
    <3>2. k \in 1 .. Len(r) OBVIOUS
    <3> QED BY <3>1, <3>2
  <2> QED BY <2>1
<1>9. \A a \in way : a.seq \in Nat BY EventFields
<1> DEFINE more == way \cup Range(over)
<1>10. WayOrder(more)
  <2>1. ASSUME NEW a \in more, NEW b \in more, a.conn = b.conn, a.seq < b.seq PROVE a.n < b.n
    <3>1. CASE a \in way /\ b \in way BY <2>1, <3>1 DEF OrderInv, WayOrder
    <3>2. CASE a \in way /\ b \in Range(over)
      <4>1. PICK k \in 1 .. n : k \in 1 .. Len(r) /\ b = over[k] BY <1>8, <3>2
      <4>2. b.conn = r[k].conn BY <1>2, <4>1
      <4>3. a.conn # r[k].conn BY <1>6, <3>2, <4>1
      <4> QED BY <2>1, <4>2, <4>3
    <3>3. CASE a \in Range(over) /\ b \in way
      <4>1. PICK k \in 1 .. n : k \in 1 .. Len(r) /\ a = over[k] BY <1>8, <3>3
      <4>2. a.conn = r[k].conn BY <1>2, <4>1
      <4>3. b.conn # r[k].conn BY <1>6, <3>3, <4>1
      <4> QED BY <2>1, <4>2, <4>3
    <3>4. CASE a \in Range(over) /\ b \in Range(over)
      <4>1. PICK j \in 1 .. n : j \in 1 .. Len(r) /\ a = over[j] BY <1>8, <3>4
      <4>2. PICK k \in 1 .. n : k \in 1 .. Len(r) /\ b = over[k] BY <1>8, <3>4
      <4>3. j = k
        <5>1. a.conn = r[j].conn /\ b.conn = r[k].conn BY <1>2, <4>1, <4>2
        <5>2. r[j].conn = r[k].conn BY <2>1, <5>1
        <5> QED BY <1>6, <4>1, <4>2, <5>2
      <4>4. a.seq = b.seq /\ a.seq = from + j BY <1>2, <4>1, <4>2, <4>3
      <4>5. ~(from + j < from + j) OBVIOUS
      <4> QED BY <2>1, <4>4, <4>5
    <3> QED BY <3>1, <3>2, <3>3, <3>4
  <2> QED BY <2>1 DEF WayOrder
<1>11. WayBetween(more, cn, last)
  <2>1. ASSUME NEW a \in more PROVE last[a.conn] < a.n /\ a.n <= Gone(cn[a.conn])
    <3>1. CASE a \in way BY <3>1 DEF OrderInv, WayBetween
    <3>2. CASE a \in Range(over)
      <4>1. PICK k \in 1 .. n : k \in 1 .. Len(r) /\ a = over[k] BY <1>8, <3>2
      <4>2. a.n = 1 /\ last[a.conn] = 0 /\ Gone(cn[a.conn]) = 1 BY <1>2, <1>6, <1>7, <4>1
      <4> QED BY <4>2
    <3> QED BY <3>1, <3>2
  <2> QED BY <2>1 DEF WayBetween
<1>12. HeldOrder(cn, last) BY DEF OrderInv
<1>13. Closing(more, t, cn, last)
  <2>1. ASSUME NEW k \in 1 .. Len(t)
        PROVE /\ t[k].kind = "close" /\ t[k].n = 1
              /\ cn[t[k].conn].said = 1 /\ cn[t[k].conn].life = "over" /\ last[t[k].conn] = 0
              /\ \A a \in more : a.conn # t[k].conn
              /\ \A j \in 1 .. Len(t) : j # k => t[j].conn # t[k].conn
    <3>1. n + k \in 1 .. Len(r) /\ t[k] = r[n + k] BY <1>4
    <3>2. \A j \in 1 .. n : j \in 1 .. Len(r) /\ j # n + k BY <3>1
    <3>3. \A a \in Range(over) : a.conn # t[k].conn BY <1>2, <1>6, <1>8, <3>1, <3>2
    <3>4. \A a \in way : a.conn # t[k].conn BY <1>6, <3>1, SMTT(20)
    <3>5. ASSUME NEW j \in 1 .. Len(t), j # k PROVE t[j].conn # t[k].conn
      <4>1. n + j \in 1 .. Len(r) /\ t[j] = r[n + j] /\ n + j # n + k BY <1>4, <3>5
      <4> QED BY <1>6, <3>1, <4>1
    <3>6. t[k].kind = "close" /\ t[k].n = 1
          /\ cn[t[k].conn].said = 1 /\ cn[t[k].conn].life = "over" /\ last[t[k].conn] = 0
      BY <1>6, <3>1
    <3> QED BY <3>3, <3>4, <3>5, <3>6
  <2> QED BY <2>1 DEF Closing
<1>14. Complete(more, t, cn, last, gone)
  <2>1. ASSUME NEW d \in Peer \ gone, NEW m \in last[d] + 1 .. Gone(cn[d])
        PROVE  (\E a \in more : a.conn = d /\ a.n = m) \/ (\E k \in 1 .. Len(t) : t[k].conn = d)
    <3>1. CASE \E a \in way : a.conn = d /\ a.n = m BY <3>1
    <3>2. CASE \E k \in 1 .. Len(r) : r[k].conn = d
      <4>1. PICK k \in 1 .. Len(r) : r[k].conn = d BY <3>2
      <4>2. CASE k <= n
        <5>1. last[d] = 0 /\ Gone(cn[d]) = 1 BY <1>6, <1>7, <4>1
        <5>2. m = 1 BY <5>1
        <5>3. k \in 1 .. n /\ k \in 1 .. Len(over) BY <1>2, <4>2
        <5>4. over[k].conn = d /\ over[k].n = m BY <1>2, <1>6, <4>1, <5>2, <5>3
        <5>5. over[k] \in Range(over) BY <5>3, Members
        <5> QED BY <5>4, <5>5
      <4>3. CASE ~(k <= n)
        <5>1. k - n \in 1 .. Len(t) /\ n + (k - n) = k BY <1>4, <4>3
        <5>2. t[k - n] = r[k] BY <1>4, <5>1
        <5> QED BY <4>1, <5>1, <5>2
      <4> QED BY <4>2, <4>3
    <3> QED BY <3>1, <3>2 DEF OrderInv, Complete
  <2> QED BY <2>1 DEF Complete
<1>15. OrderInv(more, t, cn, last, gone) BY <1>10, <1>11, <1>12, <1>13, <1>14 DEF OrderInv
<1> QED BY <1>1, <1>3, <1>15

(* A connection whose order is the same, and one that moves: what it held  *)
(* was lost, or it said something that it holds.                           *)
SameOrder(p, q) == q.said = p.said /\ q.held = p.held /\ q.life = p.life
Moves(p, q, c, more) ==
  /\ Gone(p) <= Gone(q) /\ (c \in more \/ Gone(q) = Gone(p))
  /\ \A k \in 1 .. Len(q.held) : q.held[k].conn = c /\ q.held[k].n = Gone(q) + k
  /\ q.life # "served" => q.held = <<>>
  /\ q.life \notin {"served", "over"} => q.said = 0


(* Connections change while their events on the way stay: one says more    *)
(* and holds it, or is among those that lost events.                       *)
LEMMA OrderConn ==
  ASSUME NEW way, way \subseteq Event, NEW r \in Seq(Event), NEW cn \in [Peer -> Connection],
         NEW next \in [Peer -> Connection], NEW last \in [Peer -> Nat], NEW gone, NEW more,
         OrderInv(way, r, cn, last, gone), gone \subseteq more,
         NEW D \in SUBSET Peer, \A k \in 1 .. Len(r) : r[k].conn \notin D,
         \A d \in Peer \ D : SameOrder(cn[d], next[d]),
         \A d \in D : Moves(cn[d], next[d], d, more)
  PROVE  OrderInv(way, r, next, last, more)
<1> USE DEF SameOrder, Moves
<1>1. \A d \in Peer \ D : Gone(next[d]) = Gone(cn[d]) BY DEF Gone
<1>2. \A d \in Peer : /\ Gone(cn[d]) \in Int /\ Gone(next[d]) \in Int /\ last[d] \in Nat
                      /\ Gone(cn[d]) <= Gone(next[d])
  <2>1. ASSUME NEW d \in Peer
        PROVE  /\ Gone(cn[d]) \in Int /\ Gone(next[d]) \in Int /\ last[d] \in Nat
               /\ Gone(cn[d]) <= Gone(next[d])
    <3>1. Gone(cn[d]) \in Int /\ Gone(next[d]) \in Int BY ConFields
    <3> QED BY <1>1, <3>1
  <2> QED BY <2>1
<1>3. \A a \in way : a.conn \in Peer /\ a.n \in Nat BY EventFields
<1>4. WayBetween(way, next, last)
  <2>1. ASSUME NEW a \in way PROVE last[a.conn] < a.n /\ a.n <= Gone(next[a.conn])
    <3>1. last[a.conn] < a.n /\ a.n <= Gone(cn[a.conn]) BY DEF OrderInv, WayBetween
    <3>2. PICK x \in Int, y \in Int : x = Gone(cn[a.conn]) /\ y = Gone(next[a.conn]) /\ x <= y
      BY <1>2, <1>3
    <3> QED BY <1>3, <3>1, <3>2
  <2> QED BY <2>1 DEF WayBetween
<1>5. HeldOrder(next, last)
  <2>1. ASSUME NEW d \in Peer
        PROVE /\ last[d] <= Gone(next[d])
              /\ \A k \in 1 .. Len(next[d].held) :
                   next[d].held[k].conn = d /\ next[d].held[k].n = Gone(next[d]) + k
              /\ next[d].life # "served" => next[d].held = <<>>
              /\ next[d].life \notin {"served", "over"} => next[d].said = 0
    <3>1. last[d] <= Gone(cn[d]) BY DEF OrderInv, HeldOrder
    <3>2. last[d] <= Gone(next[d]) BY <1>2, <3>1
    <3>3. CASE d \in D BY <3>2, <3>3
    <3>4. CASE d \notin D BY <1>1, <3>2, <3>4 DEF OrderInv, HeldOrder
    <3> QED BY <3>3, <3>4
  <2> QED BY <2>1 DEF HeldOrder
<1>6. \A k \in 1 .. Len(r) : r[k].conn \in Peer \ D
  <2>1. \A k \in 1 .. Len(r) : r[k] \in Event OBVIOUS
  <2> QED BY <2>1, EventFields
<1>7. Closing(way, r, next, last) BY <1>6 DEF OrderInv, Closing
<1>8. Complete(way, r, next, last, more)
  <2>1. ASSUME NEW d \in Peer \ more, NEW m \in last[d] + 1 .. Gone(next[d])
        PROVE  (\E a \in way : a.conn = d /\ a.n = m) \/ (\E k \in 1 .. Len(r) : r[k].conn = d)
    <3>1. Gone(next[d]) = Gone(cn[d]) /\ d \notin gone BY <1>1
    <3> QED BY <3>1 DEF OrderInv, Complete
  <2> QED BY <2>1 DEF Complete
<1> QED BY <1>4, <1>5, <1>7, <1>8 DEF OrderInv

(* Connections that never started are over, and their close events wait.   *)
LEMMA OrderRefuse ==
  ASSUME NEW way, way \subseteq Event, NEW r \in Seq(Event), NEW cn \in [Peer -> Connection],
         NEW next \in [Peer -> Connection], NEW last \in [Peer -> Nat], NEW gone,
         OrderInv(way, r, cn, last, gone), NEW ev \in Seq(Event),
         \A k \in 1 .. Len(ev) :
           /\ ev[k].kind = "close" /\ ev[k].n = 1
           /\ cn[ev[k].conn].life \notin {"served", "over"}
           /\ next[ev[k].conn].said = 1 /\ next[ev[k].conn].life = "over"
           /\ next[ev[k].conn].held = <<>>
           /\ \A j \in 1 .. Len(ev) : j # k => ev[j].conn # ev[k].conn,
         \A d \in Peer : (\A k \in 1 .. Len(ev) : ev[k].conn # d) =>
           next[d].said = cn[d].said /\ next[d].held = cn[d].held /\ next[d].life = cn[d].life
  PROVE  OrderInv(way, r \o ev, next, last, gone)
<1> DEFINE D == {d \in Peer : \E k \in 1 .. Len(ev) : ev[k].conn = d}
<1>1. \A k \in 1 .. Len(ev) : ev[k].conn \in D
  <2>1. \A k \in 1 .. Len(ev) : ev[k] \in Event OBVIOUS
  <2> QED BY <2>1, EventFields
<1>2. \A d \in D : /\ Gone(cn[d]) = 0 /\ Gone(next[d]) = 1 /\ last[d] = 0 /\ cn[d].said = 0
                   /\ cn[d].life \notin {"served", "over"} /\ next[d].held = <<>>
                   /\ next[d].life = "over" /\ next[d].said = 1
  <2>1. ASSUME NEW d \in D
        PROVE  /\ Gone(cn[d]) = 0 /\ Gone(next[d]) = 1 /\ last[d] = 0 /\ cn[d].said = 0
               /\ cn[d].life \notin {"served", "over"} /\ next[d].held = <<>>
               /\ next[d].life = "over" /\ next[d].said = 1
    <3>1. PICK k \in 1 .. Len(ev) : ev[k].conn = d OBVIOUS
    <3>2. cn[d].life \notin {"served", "over"} /\ next[d].said = 1 /\ next[d].life = "over"
          /\ next[d].held = <<>>
      BY <3>1
    <3>3. cn[d].held = <<>> /\ cn[d].said = 0 /\ last[d] <= Gone(cn[d])
      BY <3>2 DEF OrderInv, HeldOrder
    <3>4. Len(<<>>) = 0 OBVIOUS
    <3>5. Gone(cn[d]) = 0 /\ Gone(next[d]) = 1
      <4>1. Gone(cn[d]) = 0 BY <3>3, GoneEmpty
      <4>2. Gone(next[d]) = 1 BY <3>2, GoneEmpty
      <4> QED BY <4>1, <4>2
    <3>6. last[d] \in Nat OBVIOUS
    <3> QED BY <3>2, <3>3, <3>5, <3>6
  <2> QED BY <2>1
<1>3. \A d \in Peer \ D : /\ Gone(next[d]) = Gone(cn[d]) /\ next[d].said = cn[d].said
                          /\ next[d].held = cn[d].held /\ next[d].life = cn[d].life
  BY DEF Gone
<1>4. \A a \in way : a.conn \in Peer /\ a.n \in Nat BY EventFields
<1>5. \A a \in way : a.conn \notin D
  <2>1. ASSUME NEW a \in way, a.conn \in D PROVE FALSE
    <3>1. last[a.conn] < a.n /\ a.n <= Gone(cn[a.conn]) BY DEF OrderInv, WayBetween
    <3>2. last[a.conn] = 0 /\ Gone(cn[a.conn]) = 0 BY <1>2, <2>1
    <3> QED BY <1>4, <3>1, <3>2
  <2> QED BY <2>1
<1>6. WayBetween(way, next, last)
  <2>1. \A a \in way : Gone(next[a.conn]) = Gone(cn[a.conn]) BY <1>3, <1>4, <1>5
  <2> QED BY <2>1 DEF OrderInv, WayBetween
<1>7. HeldOrder(next, last)
  <2>1. ASSUME NEW d \in Peer
        PROVE /\ last[d] <= Gone(next[d])
              /\ \A k \in 1 .. Len(next[d].held) :
                   next[d].held[k].conn = d /\ next[d].held[k].n = Gone(next[d]) + k
              /\ next[d].life # "served" => next[d].held = <<>>
              /\ next[d].life \notin {"served", "over"} => next[d].said = 0
    <3>1. CASE d \in D
      <4>1. last[d] = 0 /\ Gone(next[d]) = 1 /\ next[d].held = <<>> /\ next[d].life = "over"
        BY <1>2, <3>1
      <4>2. \A k \in 1 .. Len(<<>>) : FALSE OBVIOUS
      <4> QED BY <4>1, <4>2
    <3>2. CASE d \notin D
      <4>1. /\ last[d] <= Gone(cn[d])
            /\ \A k \in 1 .. Len(cn[d].held) :
                 cn[d].held[k].conn = d /\ cn[d].held[k].n = Gone(cn[d]) + k
            /\ cn[d].life # "served" => cn[d].held = <<>>
            /\ cn[d].life \notin {"served", "over"} => cn[d].said = 0
        BY DEF OrderInv, HeldOrder
      <4>2. /\ Gone(next[d]) = Gone(cn[d]) /\ next[d].said = cn[d].said
            /\ next[d].held = cn[d].held /\ next[d].life = cn[d].life
        BY <1>3, <3>2
      <4> QED BY <4>1, <4>2, Zenon
    <3> QED BY <3>1, <3>2
  <2> QED BY <2>1 DEF HeldOrder
<1>8. PICK t \in Seq(Event) : t = r \o ev
  <2>1. r \o ev \in Seq(Event) OBVIOUS
  <2> QED BY <2>1, Zenon
<1>9. Len(t) = Len(r) + Len(ev) /\ (\A k \in 1 .. Len(r) : t[k] = r[k])
      /\ \A k \in 1 .. Len(ev) : t[Len(r) + k] = ev[k]
  BY <1>8
<1>10. \A k \in 1 .. Len(t) : k \in 1 .. Len(r) \/ \E i \in 1 .. Len(ev) : k = Len(r) + i
  <2>1. ASSUME NEW k \in 1 .. Len(t), k \notin 1 .. Len(r)
        PROVE  \E i \in 1 .. Len(ev) : k = Len(r) + i
    <3>1. k - Len(r) \in 1 .. Len(ev) /\ k = Len(r) + (k - Len(r)) BY <1>9, <2>1
    <3> QED BY <3>1
  <2> QED BY <2>1
<1>11. \A k \in 1 .. Len(r) :
         /\ r[k].conn \in Peer \ D /\ r[k].kind = "close" /\ r[k].n = 1
         /\ cn[r[k].conn].said = 1 /\ cn[r[k].conn].life = "over" /\ last[r[k].conn] = 0
         /\ \A a \in way : a.conn # r[k].conn
         /\ \A j \in 1 .. Len(r) : j # k => r[j].conn # r[k].conn
  <2>1. \A k \in 1 .. Len(r) : r[k] \in Event OBVIOUS
  <2>2. \A k \in 1 .. Len(r) : r[k].conn \in Peer BY <2>1, EventFields
  <2>3. \A k \in 1 .. Len(r) :
         /\ r[k].kind = "close" /\ r[k].n = 1
         /\ cn[r[k].conn].said = 1 /\ cn[r[k].conn].life = "over" /\ last[r[k].conn] = 0
         /\ \A a \in way : a.conn # r[k].conn
         /\ \A j \in 1 .. Len(r) : j # k => r[j].conn # r[k].conn
    BY DEF OrderInv, Closing
  <2>4. \A k \in 1 .. Len(r) : r[k].conn \notin D BY <1>2, <2>3
  <2> QED BY <2>2, <2>3, <2>4
<1>12. Closing(way, t, next, last)
  <2>1. ASSUME NEW k \in 1 .. Len(t)
        PROVE /\ t[k].kind = "close" /\ t[k].n = 1
              /\ next[t[k].conn].said = 1 /\ next[t[k].conn].life = "over" /\ last[t[k].conn] = 0
              /\ \A a \in way : a.conn # t[k].conn
              /\ \A j \in 1 .. Len(t) : j # k => t[j].conn # t[k].conn
    <3>1. CASE k \in 1 .. Len(r)
      <4>1. t[k] = r[k] BY <1>9, <3>1
      <4>2. next[r[k].conn].said = 1 /\ next[r[k].conn].life = "over" BY <1>3, <1>11, <3>1
      <4>3. ASSUME NEW j \in 1 .. Len(t), j # k PROVE t[j].conn # r[k].conn
        <5>1. CASE j \in 1 .. Len(r)
          <6>1. t[j] = r[j] BY <1>9, <5>1
          <6>2. r[j].conn # r[k].conn BY <1>11, <3>1, <4>3, <5>1
          <6> QED BY <6>1, <6>2
        <5>2. CASE \E i \in 1 .. Len(ev) : j = Len(r) + i
          <6>1. PICK i \in 1 .. Len(ev) : j = Len(r) + i BY <5>2
          <6>2. t[j] = ev[i] BY <1>9, <6>1
          <6>3. ev[i].conn \in D /\ r[k].conn \notin D BY <1>1, <1>11, <3>1
          <6> QED BY <6>2, <6>3
        <5> QED BY <1>10, <5>1, <5>2
      <4> QED BY <1>11, <3>1, <4>1, <4>2, <4>3
    <3>2. CASE \E i \in 1 .. Len(ev) : k = Len(r) + i
      <4>1. PICK i \in 1 .. Len(ev) : k = Len(r) + i BY <3>2
      <4>2. t[k] = ev[i] /\ ev[i].conn \in D BY <1>1, <1>9, <4>1
      <4>3. last[ev[i].conn] = 0 BY <1>2, <4>2
      <4>4. \A a \in way : a.conn # ev[i].conn BY <1>5, <4>2
      <4>5. ASSUME NEW j \in 1 .. Len(t), j # k PROVE t[j].conn # ev[i].conn
        <5>1. CASE j \in 1 .. Len(r) BY <1>9, <1>11, <4>2, <5>1, ZenonT(30)
        <5>2. CASE \E x \in 1 .. Len(ev) : j = Len(r) + x
          <6>1. PICK x \in 1 .. Len(ev) : j = Len(r) + x BY <5>2
          <6>2. t[j] = ev[x] /\ x # i BY <1>9, <4>1, <4>5, <6>1
          <6> QED BY <6>2
        <5> QED BY <1>10, <5>1, <5>2
      <4> QED BY <4>2, <4>3, <4>4, <4>5
    <3> QED BY <1>10, <3>1, <3>2
  <2> QED BY <2>1 DEF Closing
<1>13. Complete(way, t, next, last, gone)
  <2>1. ASSUME NEW d \in Peer \ gone, NEW m \in last[d] + 1 .. Gone(next[d])
        PROVE  (\E a \in way : a.conn = d /\ a.n = m) \/ (\E k \in 1 .. Len(t) : t[k].conn = d)
    <3>1. CASE d \in D
      <4>1. PICK i \in 1 .. Len(ev) : ev[i].conn = d BY <3>1
      <4>2. Len(r) + i \in 1 .. Len(t) /\ t[Len(r) + i] = ev[i] BY <1>9
      <4> QED BY <4>1, <4>2
    <3>2. CASE d \notin D
      <4>1. m \in last[d] + 1 .. Gone(cn[d]) BY <1>3, <3>2
      <4>2. (\E a \in way : a.conn = d /\ a.n = m) \/ (\E k \in 1 .. Len(r) : r[k].conn = d)
        BY <4>1 DEF OrderInv, Complete
      <4>3. \A k \in 1 .. Len(r) : k \in 1 .. Len(t) /\ t[k] = r[k] BY <1>9
      <4> QED BY <4>2, <4>3
    <3> QED BY <3>1, <3>2
  <2> QED BY <2>1 DEF Complete
<1>14. WayOrder(way) BY DEF OrderInv
<1>15. OrderInv(way, t, next, last, gone) BY <1>6, <1>7, <1>12, <1>13, <1>14 DEF OrderInv
<1> QED BY <1>8, <1>15

(* Events leave the way with those that lost them.                         *)
LEMMA OrderShrink ==
  ASSUME NEW way, way \subseteq Event, NEW left, left \subseteq way, NEW r \in Seq(Event),
         NEW cn \in [Peer -> Connection], NEW last \in [Peer -> Nat], NEW gone, NEW more,
         OrderInv(way, r, cn, last, gone), gone \subseteq more,
         \A a \in way : a \in left \/ a.conn \in more
  PROVE  OrderInv(left, r, cn, last, more)
<1>1. WayOrder(left) /\ WayBetween(left, cn, last) BY DEF OrderInv, WayOrder, WayBetween
<1>2. Closing(left, r, cn, last) BY DEF OrderInv, Closing
<1>3. Complete(left, r, cn, last, more)
  <2>1. ASSUME NEW d \in Peer \ more, NEW m \in last[d] + 1 .. Gone(cn[d])
        PROVE  (\E a \in left : a.conn = d /\ a.n = m) \/ (\E k \in 1 .. Len(r) : r[k].conn = d)
    <3>1. (\E a \in way : a.conn = d /\ a.n = m) \/ (\E k \in 1 .. Len(r) : r[k].conn = d)
      BY DEF OrderInv, Complete
    <3> QED BY <3>1
  <2> QED BY <2>1 DEF Complete
<1> QED BY <1>1, <1>2, <1>3 DEF OrderInv

(* The close events that waited are dropped.                               *)
LEMMA OrderForget ==
  ASSUME NEW way, NEW r \in Seq(Event), NEW cn \in [Peer -> Connection],
         NEW last \in [Peer -> Nat], NEW gone, NEW more,
         OrderInv(way, r, cn, last, gone), gone \subseteq more,
         \A k \in 1 .. Len(r) : r[k].conn \in more
  PROVE  OrderInv(way, <<>>, cn, last, more)
<1>1. \A k \in 1 .. Len(<<>>) : FALSE OBVIOUS
<1>2. Closing(way, <<>>, cn, last) BY <1>1 DEF Closing
<1>3. Complete(way, <<>>, cn, last, more)
  <2>1. ASSUME NEW d \in Peer \ more, NEW m \in last[d] + 1 .. Gone(cn[d])
        PROVE  \E a \in way : a.conn = d /\ a.n = m
    <3>1. (\E a \in way : a.conn = d /\ a.n = m) \/ (\E k \in 1 .. Len(r) : r[k].conn = d)
      BY DEF OrderInv, Complete
    <3> QED BY <3>1
  <2> QED BY <2>1 DEF Complete
<1> QED BY <1>2, <1>3 DEF OrderInv

(* The last event of a connection among those the host takes.              *)
LastAmong(ev, c, before, n) ==
  \/ (\A k \in 1 .. Len(ev) : ev[k].conn # c) /\ n = before
  \/ \E k \in 1 .. Len(ev) :
       /\ ev[k].conn = c /\ n = ev[k].n
       /\ \A j \in 1 .. Len(ev) : ev[j].conn = c => j <= k
(* That is what LastTaken finds.                                           *)
LEMMA LastTakenFacts ==
  ASSUME NEW ev \in Seq(Event), NEW c, NEW before
  PROVE  LastAmong(ev, c, before, LastTaken(ev, c, before))
<1> USE DEF LastAmong
<1>1. DOMAIN ev = 1 .. Len(ev) /\ Len(ev) \in Nat OBVIOUS
<1>2. PICK of : of = {k \in DOMAIN ev : ev[k].conn = c} OBVIOUS
<1>3. \A k : k \in of <=> k \in 1 .. Len(ev) /\ ev[k].conn = c BY <1>1, <1>2
<1>4. LastTaken(ev, c, before) = IF of = {} THEN before ELSE ev[Max(of)].n BY <1>2 DEF LastTaken
<1>5. CASE of = {} BY <1>3, <1>4, <1>5
<1>6. CASE of # {}
  <2>1. PICK T : T = {Len(ev) - k : k \in of} OBVIOUS
  <2>2. T \in SUBSET Nat /\ T # {} BY <1>1, <1>3, <1>6, <2>1
  <2>3. PICK m \in T : \A t \in T : m <= t BY <2>2, LeastNat, Zenon
  <2>4. PICK x \in of : m = Len(ev) - x BY <2>1, <2>3
  <2>5. \A y \in of : y \in Nat /\ x \in Nat /\ x >= y
    <3>1. ASSUME NEW y \in of PROVE y \in Nat /\ x \in Nat /\ x >= y
      <4>1. m <= Len(ev) - y BY <2>1, <2>3
      <4>2. x \in 1 .. Len(ev) /\ y \in 1 .. Len(ev) BY <1>3, <2>4
      <4> QED BY <1>1, <2>4, <4>1, <4>2
    <3> QED BY <3>1
  <2>6. Max(of) = CHOOSE z \in of : \A y \in of : z >= y BY DEF Max
  <2>7. Max(of) \in of /\ \A y \in of : Max(of) >= y BY <2>4, <2>5, <2>6
  <2>8. PICK k : k = Max(of) OBVIOUS
  <2>9. k \in 1 .. Len(ev) /\ ev[k].conn = c BY <1>3, <2>7, <2>8
  <2>10. \A j \in 1 .. Len(ev) : ev[j].conn = c => j <= k
    <3>1. ASSUME NEW j \in 1 .. Len(ev), ev[j].conn = c PROVE j <= k
      <4>1. k >= j BY <1>3, <2>7, <2>8, <3>1
      <4> QED BY <2>9, <4>1
    <3> QED BY <3>1
  <2> QED BY <1>4, <1>6, <2>8, <2>9, <2>10
<1> QED BY <1>5, <1>6

(* What the host took last of each connection once it took these.          *)
Advances(ev, last, next) == next = [c \in Peer |-> LastTaken(ev, c, last[c])]

(* The host takes the batch that was posted first.                         *)
LEMMA OrderTake ==
  ASSUME NEW queue \in Seq(Event), NEW rng \in [Entry -> Held], NEW left \in [Entry -> Held],
         NEW pushed \in Nat, NEW published \in Nat, SeqInv(queue, rng, pushed, published),
         NEW r \in Seq(Event), NEW cn \in [Peer -> Connection], NEW last \in [Peer -> Nat], NEW gone,
         OrderInv(Way(queue, rng), r, cn, last, gone), NEW entry \in Entry,
         \A e \in Entry : e # entry /\ rng[e].events # <<>> => rng[entry].epoch < rng[e].epoch,
         left[entry].events = <<>>,
         \A e \in Entry : e # entry => left[e] = rng[e],
         NEW next, Advances(rng[entry].events, last, next)
  PROVE  next \in [Peer -> Nat] /\ OrderInv(Way(queue, left), r, cn, next, gone)
<1>1. PICK ev \in Seq(Event) : ev = rng[entry].events BY HeldFields
<1>2. PICK way : way = Way(queue, rng) OBVIOUS
<1>3. PICK rem : rem = Way(queue, left) OBVIOUS
<1>4. way \subseteq Event BY <1>2, WayFacts
<1>5. \A a \in way : a.conn \in Peer /\ a.n \in Nat /\ a.seq \in Nat BY <1>4, EventFields
<1>6. \A k \in 1 .. Len(ev) : ev[k] \in way BY <1>1, <1>2, WayFacts
<1>7. rem \subseteq way
  <2>1. \A e \in Entry :
          left[e].events = <<>> \/ (left[e].events = rng[e].events /\ left[e].epoch = rng[e].epoch)
    OBVIOUS
  <2> QED BY <1>2, <1>3, <2>1, SeqFree
<1>8. \A a \in way : a \in rem \/ \E k \in 1 .. Len(ev) : a = ev[k]
  <2>1. ASSUME NEW a \in way PROVE a \in rem \/ \E k \in 1 .. Len(ev) : a = ev[k]
    <3>1. CASE \E k \in 1 .. Len(queue) : queue[k] = a BY <1>3, <3>1, WayFacts
    <3>2. CASE \E e \in Entry : \E k \in 1 .. Len(rng[e].events) : rng[e].events[k] = a
      <4>1. PICK e \in Entry : \E k \in 1 .. Len(rng[e].events) : rng[e].events[k] = a BY <3>2
      <4>2. CASE e = entry BY <1>1, <4>1, <4>2
      <4>3. CASE e # entry
        <5>1. left[e] = rng[e] BY <4>3
        <5>2. \E k \in 1 .. Len(left[e].events) : left[e].events[k] = a BY <4>1, <5>1
        <5> QED BY <1>3, <5>2, WayFacts
      <4> QED BY <4>2, <4>3
    <3>3. \/ \E k \in 1 .. Len(queue) : queue[k] = a
          \/ \E e \in Entry : \E k \in 1 .. Len(rng[e].events) : rng[e].events[k] = a
      <4>1. a \in Way(queue, rng) BY <1>2
      <4> QED BY <4>1, WayFacts, ZenonT(30)
    <3> QED BY <3>1, <3>2, <3>3
  <2> QED BY <2>1
<1>9. \A a \in rem : \A k \in 1 .. Len(ev) : ev[k].seq < a.seq
  <2>1. ASSUME NEW a \in rem, NEW k \in 1 .. Len(ev) PROVE ev[k].seq < a.seq
    <3>1. ev[k].seq <= pushed - Len(queue) /\ ev[k].seq \in Nat /\ a.seq \in Nat /\ Len(queue) \in Nat
      <4>1. ev[k].seq <= pushed - Len(queue) BY <1>1 DEF SeqInv
      <4>2. ev[k].seq \in Nat /\ a.seq \in Nat BY <1>5, <1>6, <1>7
      <4>3. Len(queue) \in Nat OBVIOUS
      <4> QED BY <4>1, <4>2, <4>3
    <3>2. CASE \E j \in 1 .. Len(queue) : queue[j] = a
      <4>1. PICK j \in 1 .. Len(queue) : queue[j] = a BY <3>2
      <4>2. a.seq = pushed - Len(queue) + j BY <4>1 DEF SeqInv
      <4> QED BY <3>1, <4>2
    <3>3. CASE \E e \in Entry : \E j \in 1 .. Len(left[e].events) : left[e].events[j] = a
      <4>1. PICK e \in Entry : \E j \in 1 .. Len(left[e].events) : left[e].events[j] = a BY <3>3
      <4>2. PICK j \in 1 .. Len(left[e].events) : left[e].events[j] = a BY <4>1
      <4>3. e # entry BY <4>2
      <4>4. left[e] = rng[e] BY <4>3
      <4>5. rng[e].events # <<>> /\ j \in 1 .. Len(rng[e].events) BY <4>2, <4>4
      <4>6. rng[entry].epoch < rng[e].epoch BY <4>3, <4>5
      <4>7. rng[entry].events[k].seq < rng[e].events[j].seq BY <1>1, <4>3, <4>5, <4>6 DEF SeqInv
      <4> QED BY <1>1, <4>2, <4>4, <4>7
    <3>4. \/ \E j \in 1 .. Len(queue) : queue[j] = a
          \/ \E e \in Entry : \E j \in 1 .. Len(left[e].events) : left[e].events[j] = a
      <4>1. a \in Way(queue, left) BY <1>3
      <4> QED BY <4>1, WayFacts, ZenonT(30)
    <3> QED BY <3>2, <3>3, <3>4
  <2> QED BY <2>1
<1>10. next = [c \in Peer |-> LastTaken(ev, c, last[c])] BY <1>1 DEF Advances
<1>11. \A c \in Peer :
         \/ (\A k \in 1 .. Len(ev) : ev[k].conn # c) /\ next[c] = last[c]
         \/ \E k \in 1 .. Len(ev) :
              /\ ev[k].conn = c /\ next[c] = ev[k].n
              /\ \A j \in 1 .. Len(ev) : ev[j].conn = c => j <= k
  <2>1. ASSUME NEW c \in Peer
        PROVE  \/ (\A k \in 1 .. Len(ev) : ev[k].conn # c) /\ next[c] = last[c]
               \/ \E k \in 1 .. Len(ev) :
                    /\ ev[k].conn = c /\ next[c] = ev[k].n
                    /\ \A j \in 1 .. Len(ev) : ev[j].conn = c => j <= k
    <3>1. LastAmong(ev, c, last[c], LastTaken(ev, c, last[c])) BY <1>1, LastTakenFacts
    <3>2. LastAmong(ev, c, last[c], next[c]) BY <1>10, <3>1
    <3> QED BY <3>2 DEF LastAmong
  <2> QED BY <2>1
<1>12. \A c \in Peer : next[c] \in Nat /\ last[c] <= next[c] /\ next[c] <= Gone(cn[c])
  <2>1. ASSUME NEW c \in Peer PROVE next[c] \in Nat /\ last[c] <= next[c] /\ next[c] <= Gone(cn[c])
    <3>1. CASE next[c] = last[c]
      <4>1. last[c] <= Gone(cn[c]) /\ last[c] \in Nat BY DEF OrderInv, HeldOrder
      <4> QED BY <3>1, <4>1
    <3>2. CASE \E k \in 1 .. Len(ev) : ev[k].conn = c /\ next[c] = ev[k].n
      <4>1. PICK k \in 1 .. Len(ev) : ev[k].conn = c /\ next[c] = ev[k].n BY <3>2
      <4>2. last[c] < ev[k].n /\ ev[k].n <= Gone(cn[c]) BY <1>2, <1>6, <4>1 DEF OrderInv, WayBetween
      <4>3. ev[k].n \in Nat /\ last[c] \in Nat BY <1>5, <1>6
      <4> QED BY <4>1, <4>2, <4>3
    <3> QED BY <1>11, <3>1, <3>2
  <2> QED BY <2>1
<1>13. next \in [Peer -> Nat]
  <2>1. \A c \in Peer : LastTaken(ev, c, last[c]) \in Nat BY <1>10, <1>12
  <2> QED BY <1>10, <2>1
<1>14. WayOrder(rem) BY <1>2, <1>7 DEF OrderInv, WayOrder
<1>15. WayBetween(rem, cn, next)
  <2>1. ASSUME NEW a \in rem PROVE next[a.conn] < a.n /\ a.n <= Gone(cn[a.conn])
    <3>1. a \in way /\ a.conn \in Peer BY <1>5, <1>7
    <3>2. last[a.conn] < a.n /\ a.n <= Gone(cn[a.conn]) BY <1>2, <3>1 DEF OrderInv, WayBetween
    <3>3. CASE next[a.conn] = last[a.conn] BY <3>2, <3>3
    <3>4. CASE \E k \in 1 .. Len(ev) : ev[k].conn = a.conn /\ next[a.conn] = ev[k].n
      <4>1. PICK k \in 1 .. Len(ev) : ev[k].conn = a.conn /\ next[a.conn] = ev[k].n BY <3>4
      <4>2. ev[k].seq < a.seq /\ ev[k] \in way BY <1>6, <1>9
      <4>3. ev[k].n < a.n BY <1>2, <3>1, <4>1, <4>2 DEF OrderInv, WayOrder
      <4> QED BY <3>2, <4>1, <4>3
    <3> QED BY <1>11, <3>1, <3>3, <3>4
  <2> QED BY <2>1 DEF WayBetween
<1>16. HeldOrder(cn, next) BY <1>12 DEF OrderInv, HeldOrder
<1>17. Closing(rem, r, cn, next)
  <2>1. ASSUME NEW k \in 1 .. Len(r)
        PROVE  next[r[k].conn] = 0 /\ \A a \in rem : a.conn # r[k].conn
    <3>1. r[k] \in Event OBVIOUS
    <3>2. r[k].conn \in Peer BY <3>1, EventFields
    <3>3. last[r[k].conn] = 0 /\ \A a \in way : a.conn # r[k].conn BY <1>2 DEF OrderInv, Closing
    <3>4. \A j \in 1 .. Len(ev) : ev[j].conn # r[k].conn BY <1>6, <3>3
    <3> QED BY <1>7, <1>11, <3>2, <3>3, <3>4
  <2> QED BY <2>1 DEF OrderInv, Closing
<1>18. Complete(rem, r, cn, next, gone)
  <2>1. ASSUME NEW d \in Peer \ gone, NEW m \in next[d] + 1 .. Gone(cn[d])
        PROVE  (\E a \in rem : a.conn = d /\ a.n = m) \/ (\E k \in 1 .. Len(r) : r[k].conn = d)
    <3>1. m \in last[d] + 1 .. Gone(cn[d])
      <4>1. next[d] \in Nat /\ last[d] \in Nat /\ last[d] <= next[d] BY <1>12
      <4>2. Gone(cn[d]) \in Int BY ConFields
      <4> QED BY <4>1, <4>2
    <3>2. (\E a \in way : a.conn = d /\ a.n = m) \/ (\E k \in 1 .. Len(r) : r[k].conn = d)
      BY <1>2, <3>1 DEF OrderInv, Complete
    <3>3. ASSUME NEW a \in way, a.conn = d, a.n = m, a \notin rem PROVE FALSE
      <4>1. PICK j \in 1 .. Len(ev) : a = ev[j] BY <1>8, <3>3
      <4>2. PICK k \in 1 .. Len(ev) : ev[k].conn = d /\ next[d] = ev[k].n /\ j <= k
        BY <1>11, <3>3, <4>1
      <4>3. next[d] \in Nat /\ m \in Nat /\ next[d] < m
        <5>1. next[d] \in Nat /\ Gone(cn[d]) \in Int BY <1>12, ConFields
        <5> QED BY <5>1
      <4>4. CASE j = k BY <3>3, <4>1, <4>2, <4>3, <4>4
      <4>5. CASE j # k
        <5>1. j < k /\ k \in 1 .. Len(ev) BY <4>2, <4>5
        <5>2. ev[j].seq < ev[k].seq BY <1>1, <5>1 DEF SeqInv
        <5>3. ev[j].n < ev[k].n BY <1>2, <1>6, <3>3, <4>1, <4>2, <5>2 DEF OrderInv, WayOrder
        <5> QED BY <3>3, <4>1, <4>2, <4>3, <5>3
      <4> QED BY <4>4, <4>5
    <3> QED BY <3>2, <3>3
  <2> QED BY <2>1 DEF Complete
<1>19. OrderInv(rem, r, cn, next, gone) BY <1>14, <1>15, <1>16, <1>17, <1>18 DEF OrderInv
<1> QED BY <1>3, <1>13, <1>19

-----------------------------------------------------------------------------
(* What the ledger counts.                                                 *)

(* A part of a finite set is no larger.                                    *)
LEMMA PartCard ==
  ASSUME NEW S, IsFiniteSet(S), NEW T, T \subseteq S
  PROVE  /\ IsFiniteSet(T) /\ Cardinality(T) \in Nat /\ Cardinality(S) \in Nat
         /\ Cardinality(T) <= Cardinality(S)
<1>1. IsFiniteSet(T) /\ Cardinality(T) <= Cardinality(S) BY FS_Subset
<1> QED BY <1>1, FS_CardinalityType

(* Two finite sets together are no larger than both.                       *)
LEMMA JoinCard ==
  ASSUME NEW S, IsFiniteSet(S), NEW T, IsFiniteSet(T)
  PROVE  /\ IsFiniteSet(S \cup T) /\ Cardinality(S) \in Nat /\ Cardinality(T) \in Nat
         /\ Cardinality(S \cup T) \in Nat
         /\ Cardinality(S \cup T) <= Cardinality(S) + Cardinality(T)
<1>1. PICK u : u = S \cup T OBVIOUS
<1>2. PICK i : i = S \cap T OBVIOUS
<1>3. IsFiniteSet(u) /\ Cardinality(u) = Cardinality(S) + Cardinality(T) - Cardinality(i)
  BY <1>1, <1>2, FS_Union, Zenon
<1>4. IsFiniteSet(i) BY <1>2, FS_Subset
<1>5. Cardinality(S) \in Nat /\ Cardinality(T) \in Nat /\ Cardinality(u) \in Nat /\ Cardinality(i) \in Nat
  BY <1>3, <1>4, FS_CardinalityType
<1>6. Cardinality(u) <= Cardinality(S) + Cardinality(T) BY <1>3, <1>5
<1> QED BY <1>1, <1>3, <1>5, <1>6

(* Events count at least the messages among them.                          *)
LEMMA OctetsCover ==
  ASSUME NEW over \in Seq(Event)
  PROVE  /\ OctetsOf(over) \in Nat /\ IsFiniteSet(Messages(Range(over)))
         /\ Cardinality(Messages(Range(over))) <= OctetsOf(over)
<1>1. DOMAIN over = 1 .. Len(over) /\ Len(over) \in Nat OBVIOUS
<1>2. PICK K : K = {k \in DOMAIN over : over[k].kind = "message"} OBVIOUS
<1>3. IsFiniteSet(K)
  <2>1. 1 \in Int /\ Len(over) \in Int BY <1>1
  <2>2. IsFiniteSet(1 .. Len(over)) BY <2>1, FS_Interval
  <2> QED BY <1>1, <1>2, <2>2, FS_Subset
<1>4. PICK f : f = [k \in K |-> over[k]] OBVIOUS
<1>5. PICK M : M = Messages(Range(over)) OBVIOUS
<1>6. \A x : x \in M <=> \E k \in K : over[k] = x BY <1>1, <1>2, <1>5 DEF Messages, Range
<1>7. f \in Surjection(K, M) BY <1>4, <1>6 DEF Surjection
<1>8. IsFiniteSet(M) /\ Cardinality(M) <= Cardinality(K) BY <1>3, <1>7, FS_Surjection
<1>9. OctetsOf(over) = Cardinality(K) BY <1>2 DEF OctetsOf
<1> QED BY <1>3, <1>5, <1>8, <1>9, FS_CardinalityType

(* The later messages of a larger way.                                     *)
LEMMA LaterJoin ==
  ASSUME NEW way, IsFiniteSet(way), NEW over \in Seq(Event), NEW t
  PROVE  /\ IsFiniteSet(Later(way, t)) /\ Cardinality(Later(way, t)) \in Nat
         /\ Cardinality(Later(way \cup Range(over), t)) \in Nat
         /\ Cardinality(Later(way \cup Range(over), t)) <= Cardinality(Later(way, t)) + OctetsOf(over)
<1>1. PICK A : A = Later(way, t) OBVIOUS
<1>2. PICK B : B = Later(Range(over), t) OBVIOUS
<1>3. Later(way \cup Range(over), t) = A \cup B BY <1>1, <1>2 DEF Later, Messages
<1>4. IsFiniteSet(A) /\ Cardinality(A) \in Nat
  <2>1. A \subseteq way BY <1>1 DEF Later, Messages
  <2> QED BY <2>1, PartCard
<1>5. B \subseteq Messages(Range(over)) BY <1>2 DEF Later
<1>6. IsFiniteSet(B) /\ Cardinality(B) \in Nat /\ Cardinality(B) <= Cardinality(Messages(Range(over)))
      /\ Cardinality(Messages(Range(over))) \in Nat
  BY <1>5, OctetsCover, PartCard
<1>7. OctetsOf(over) \in Nat /\ Cardinality(Messages(Range(over))) <= OctetsOf(over) BY OctetsCover
<1>8. Cardinality(A \cup B) \in Nat /\ Cardinality(A \cup B) <= Cardinality(A) + Cardinality(B)
  BY <1>4, <1>6, JoinCard
<1>9. Cardinality(A \cup B) <= Cardinality(A) + OctetsOf(over) BY <1>4, <1>6, <1>7, <1>8
<1> QED BY <1>1, <1>3, <1>4, <1>8, <1>9

(* The later messages of a smaller way.                                    *)
LEMMA LaterPart ==
  ASSUME NEW way, IsFiniteSet(way), NEW left, left \subseteq way, NEW t
  PROVE  /\ Cardinality(Later(way, t)) \in Nat /\ Cardinality(Later(left, t)) \in Nat
         /\ Cardinality(Later(left, t)) <= Cardinality(Later(way, t))
<1>1. Later(way, t) \subseteq way /\ Later(left, t) \subseteq Later(way, t) BY DEF Later, Messages
<1>2. IsFiniteSet(Later(way, t)) BY <1>1, PartCard
<1> QED BY <1>1, <1>2, PartCard

(* The fields of the ledger.                                               *)
LEMMA LedgerFields ==
  ASSUME NEW l \in Ledger
  PROVE  /\ l.pushed \in Nat /\ l.pushed_octets \in Nat /\ l.posted \in Nat /\ l.marks \in Seq(Mark)
         /\ l.acked \in Nat /\ l.acked_octets \in Nat /\ Len(l.marks) \in Nat
         /\ \A k \in 1 .. Len(l.marks) :
              l.marks[k].epoch \in Nat /\ l.marks[k].through \in Nat /\ l.marks[k].octets \in Nat
<1>1. /\ l.pushed \in Nat /\ l.pushed_octets \in Nat /\ l.posted \in Nat /\ l.marks \in Seq(Mark)
      /\ l.acked \in Nat /\ l.acked_octets \in Nat
  BY DEF Ledger
<1>2. Len(l.marks) \in Nat /\ \A k \in 1 .. Len(l.marks) : l.marks[k] \in Mark BY <1>1
<1>3. \A m \in Mark : m.epoch \in Nat /\ m.through \in Nat /\ m.octets \in Nat BY DEF Mark
<1> QED BY <1>1, <1>2, <1>3

(* Events are pushed and counted.                                          *)
LEMMA LedgerPush ==
  ASSUME NEW queue \in Seq(Event), NEW rng \in [Entry -> Held], NEW over \in Seq(Event),
         NEW l \in Ledger, NEW next \in Ledger, NEW published \in Nat,
         LedgerInv(queue, rng, l, published),
         \A k \in 1 .. Len(over) : over[k].seq = l.pushed + k,
         next.pushed = l.pushed + Len(over),
         next.pushed_octets = l.pushed_octets + OctetsOf(over),
         next.posted = l.posted, next.marks = l.marks, next.acked = l.acked,
         next.acked_octets = l.acked_octets
  PROVE  LedgerInv(queue \o over, rng, next, published)
<1>1. PICK way : way = Way(queue, rng) OBVIOUS
<1>2. PICK more : more = way \cup Range(over) OBVIOUS
<1>3. Way(queue \o over, rng) = more BY <1>1, <1>2, WayPush
<1>4. IsFiniteSet(way) BY <1>1, WayFacts
<1>5. \A t : /\ Cardinality(Later(way, t)) \in Nat /\ Cardinality(Later(more, t)) \in Nat
             /\ Cardinality(Later(more, t)) <= Cardinality(Later(way, t)) + OctetsOf(over)
  BY <1>2, <1>4, LaterJoin
<1>6. OctetsOf(over) \in Nat BY OctetsCover
<1>7. Len(queue \o over) = Len(queue) + Len(over) /\ Len(queue) \in Nat /\ Len(over) \in Nat OBVIOUS
<1>8. next.posted + Len(queue \o over) <= next.pushed /\ next.acked <= next.posted
  <2>1. l.posted + Len(queue) <= l.pushed /\ l.acked <= l.posted BY DEF LedgerInv
  <2>2. l.posted \in Nat /\ l.pushed \in Nat BY LedgerFields
  <2> QED BY <1>7, <2>1, <2>2
<1>9. \A a \in more : next.acked < a.seq
  <2>1. ASSUME NEW a \in more PROVE l.acked < a.seq
    <3>1. CASE a \in way BY <1>1, <3>1 DEF LedgerInv
    <3>2. CASE a \in Range(over)
      <4>1. PICK k \in 1 .. Len(over) : over[k] = a BY <3>2, Members
      <4>2. a.seq = l.pushed + k BY <4>1
      <4>3. l.posted + Len(queue) <= l.pushed /\ l.acked <= l.posted BY DEF LedgerInv
      <4>4. l.posted \in Nat /\ l.pushed \in Nat /\ l.acked \in Nat BY LedgerFields
      <4> QED BY <1>7, <4>2, <4>3, <4>4
    <3> QED BY <1>2, <3>1, <3>2
  <2> QED BY <2>1
<1>10. ASSUME NEW o \in Nat, NEW t, o + Cardinality(Later(way, t)) <= l.pushed_octets
       PROVE  o + Cardinality(Later(more, t)) <= next.pushed_octets
  <2>1. PICK x \in Nat, y \in Nat, z \in Nat :
          /\ x = Cardinality(Later(way, t)) /\ y = Cardinality(Later(more, t)) /\ z = OctetsOf(over)
          /\ y <= x + z
    BY <1>5, <1>6
  <2>2. l.pushed_octets \in Nat BY LedgerFields
  <2> QED BY <1>10, <2>1, <2>2, SMTT(20)
<1>11. next.acked_octets + Cardinality(Later(more, next.acked)) <= next.pushed_octets
  <2>1. l.acked_octets \in Nat BY LedgerFields
  <2>2. l.acked_octets + Cardinality(Later(way, l.acked)) <= l.pushed_octets BY <1>1 DEF LedgerInv
  <2> QED BY <1>10, <2>1, <2>2
<1>12. ASSUME NEW k \in 1 .. Len(next.marks)
       PROVE /\ next.marks[k].epoch <= published /\ next.marks[k].through <= next.posted
             /\ next.marks[k].octets + Cardinality(Later(more, next.marks[k].through))
                  <= next.pushed_octets
             /\ \A e \in Entry : \A j \in 1 .. Len(rng[e].events) :
                  rng[e].events[j].seq <= next.marks[k].through => rng[e].epoch <= next.marks[k].epoch
  <2>1. PICK m : m = l.marks[k] OBVIOUS
  <2>2. m.octets \in Nat BY <2>1, LedgerFields
  <2>3. /\ m.epoch <= published /\ m.through <= l.posted
        /\ m.octets + Cardinality(Later(way, m.through)) <= l.pushed_octets
        /\ \A e \in Entry : \A j \in 1 .. Len(rng[e].events) :
             rng[e].events[j].seq <= m.through => rng[e].epoch <= m.epoch
    BY <1>1, <2>1 DEF LedgerInv
  <2>4. m.octets + Cardinality(Later(more, m.through)) <= next.pushed_octets BY <1>10, <2>2, <2>3
  <2> QED BY <2>1, <2>3, <2>4
<1> QED BY <1>3, <1>8, <1>9, <1>11, <1>12 DEF LedgerInv

(* Events leave the queue or the ring.                                     *)
LEMMA LedgerShrink ==
  ASSUME NEW queue \in Seq(Event), NEW rng \in [Entry -> Held], NEW kept \in Seq(Event),
         NEW left \in [Entry -> Held], NEW l \in Ledger, NEW published \in Nat,
         LedgerInv(queue, rng, l, published), Len(kept) <= Len(queue),
         Way(kept, left) \subseteq Way(queue, rng),
         \A e \in Entry :
           left[e].events = <<>> \/ (left[e].events = rng[e].events /\ left[e].epoch = rng[e].epoch)
  PROVE  LedgerInv(kept, left, l, published)
<1>1. PICK way : way = Way(queue, rng) OBVIOUS
<1>2. PICK rem : rem = Way(kept, left) OBVIOUS
<1>3. IsFiniteSet(way) /\ rem \subseteq way BY <1>1, <1>2, WayFacts
<1>4. \A t : /\ Cardinality(Later(way, t)) \in Nat /\ Cardinality(Later(rem, t)) \in Nat
             /\ Cardinality(Later(rem, t)) <= Cardinality(Later(way, t))
  BY <1>3, LaterPart
<1>5. l.posted + Len(kept) <= l.pushed /\ l.acked <= l.posted
  <2>1. l.posted + Len(queue) <= l.pushed /\ l.acked <= l.posted BY DEF LedgerInv
  <2>2. l.posted \in Nat /\ l.pushed \in Nat BY LedgerFields
  <2>3. Len(queue) \in Nat /\ Len(kept) \in Nat OBVIOUS
  <2> QED BY <2>1, <2>2, <2>3
<1>6. \A a \in rem : l.acked < a.seq BY <1>1, <1>3 DEF LedgerInv
<1>7. ASSUME NEW o \in Nat, NEW t, o + Cardinality(Later(way, t)) <= l.pushed_octets
      PROVE  o + Cardinality(Later(rem, t)) <= l.pushed_octets
  <2>1. PICK x \in Nat, y \in Nat :
          x = Cardinality(Later(way, t)) /\ y = Cardinality(Later(rem, t)) /\ y <= x
    BY <1>4
  <2>2. l.pushed_octets \in Nat BY LedgerFields
  <2> QED BY <1>7, <2>1, <2>2
<1>8. l.acked_octets + Cardinality(Later(rem, l.acked)) <= l.pushed_octets
  <2>1. l.acked_octets \in Nat BY LedgerFields
  <2>2. l.acked_octets + Cardinality(Later(way, l.acked)) <= l.pushed_octets BY <1>1 DEF LedgerInv
  <2> QED BY <1>7, <2>1, <2>2
<1>9. ASSUME NEW k \in 1 .. Len(l.marks)
      PROVE /\ l.marks[k].epoch <= published /\ l.marks[k].through <= l.posted
            /\ l.marks[k].octets + Cardinality(Later(rem, l.marks[k].through)) <= l.pushed_octets
            /\ \A e \in Entry : \A j \in 1 .. Len(left[e].events) :
                 left[e].events[j].seq <= l.marks[k].through => left[e].epoch <= l.marks[k].epoch
  <2>1. PICK m : m = l.marks[k] OBVIOUS
  <2>2. m.octets \in Nat BY <2>1, LedgerFields
  <2>3. /\ m.epoch <= published /\ m.through <= l.posted
        /\ m.octets + Cardinality(Later(way, m.through)) <= l.pushed_octets
        /\ \A e \in Entry : \A j \in 1 .. Len(rng[e].events) :
             rng[e].events[j].seq <= m.through => rng[e].epoch <= m.epoch
    BY <1>1, <2>1 DEF LedgerInv
  <2>4. m.octets + Cardinality(Later(rem, m.through)) <= l.pushed_octets BY <1>7, <2>2, <2>3
  <2>5. \A e \in Entry : \A j \in 1 .. Len(left[e].events) :
          left[e].events = rng[e].events /\ left[e].epoch = rng[e].epoch
    OBVIOUS
  <2>6. \A e \in Entry : \A j \in 1 .. Len(left[e].events) :
          left[e].events[j].seq <= m.through => left[e].epoch <= m.epoch
    BY <2>3, <2>5
  <2> QED BY <2>1, <2>3, <2>4, <2>6
<1> QED BY <1>2, <1>5, <1>6, <1>8, <1>9 DEF LedgerInv

(* A batch is posted: what it holds is later than every mark.              *)
LEMMA LedgerPost ==
  ASSUME NEW front \in Seq(Event), NEW rest \in Seq(Event), NEW rng \in [Entry -> Held],
         NEW l \in Ledger, NEW published \in Nat,
         SeqInv(front \o rest, rng, l.pushed, published),
         LedgerInv(front \o rest, rng, l, published),
         NEW entry \in Entry, NEW next \in [Entry -> Held], next[entry].events = front,
         \A e \in Entry : e # entry => next[e] = rng[e],
         Way(rest, next) = Way(front \o rest, rng)
  PROVE  LedgerInv(rest, next, l, published + 1)
<1>1. PICK way : way = Way(front \o rest, rng) OBVIOUS
<1>2. PICK a \in Nat, b \in Nat : a = Len(front) /\ b = Len(rest) OBVIOUS
<1>3. Len(front \o rest) = a + b BY <1>2
<1>4. l.posted \in Nat /\ l.pushed \in Nat BY LedgerFields
<1>5. l.posted + (a + b) <= l.pushed /\ l.acked <= l.posted BY <1>3 DEF LedgerInv
<1>6. l.posted + Len(rest) <= l.pushed BY <1>2, <1>4, <1>5
<1>7. \A k \in 1 .. a : front[k].seq = l.pushed - (a + b) + k
  <2>1. ASSUME NEW k \in 1 .. a PROVE front[k].seq = l.pushed - (a + b) + k
    <3>1. k \in 1 .. Len(front \o rest) /\ (front \o rest)[k] = front[k] BY <1>2, <1>3
    <3> QED BY <1>3, <3>1 DEF SeqInv
  <2> QED BY <2>1
<1>8. ASSUME NEW k \in 1 .. Len(l.marks)
      PROVE /\ l.marks[k].epoch <= published + 1 /\ l.marks[k].through <= l.posted
            /\ l.marks[k].octets + Cardinality(Later(way, l.marks[k].through)) <= l.pushed_octets
            /\ \A e \in Entry : \A j \in 1 .. Len(next[e].events) :
                 next[e].events[j].seq <= l.marks[k].through => next[e].epoch <= l.marks[k].epoch
  <2>1. PICK m : m = l.marks[k] OBVIOUS
  <2>2. m.epoch \in Nat /\ m.through \in Nat BY <2>1, LedgerFields
  <2>3. /\ m.epoch <= published /\ m.through <= l.posted
        /\ m.octets + Cardinality(Later(way, m.through)) <= l.pushed_octets
        /\ \A e \in Entry : \A j \in 1 .. Len(rng[e].events) :
             rng[e].events[j].seq <= m.through => rng[e].epoch <= m.epoch
    BY <1>1, <2>1 DEF LedgerInv
  <2>4. ASSUME NEW e \in Entry, NEW j \in 1 .. Len(next[e].events), next[e].events[j].seq <= m.through
        PROVE  next[e].epoch <= m.epoch
    <3>1. CASE e = entry
      <4>1. j \in 1 .. a /\ next[e].events[j] = front[j] BY <1>2, <3>1
      <4>2. front[j].seq = l.pushed - (a + b) + j BY <1>7, <4>1
      <4>3. front[j].seq <= m.through BY <2>4, <4>1
      <4> QED BY <1>4, <1>5, <2>2, <2>3, <4>1, <4>2, <4>3, SMTT(20)
    <3>2. CASE e # entry
      <4>1. next[e] = rng[e] BY <3>2
      <4> QED BY <2>3, <2>4, <4>1
    <3> QED BY <3>1, <3>2
  <2>5. m.epoch <= published + 1 BY <2>2, <2>3
  <2> QED BY <2>1, <2>3, <2>4, <2>5
<1>9. /\ l.acked <= l.posted /\ \A x \in way : l.acked < x.seq
      /\ l.acked_octets + Cardinality(Later(way, l.acked)) <= l.pushed_octets
  BY <1>1 DEF LedgerInv
<1>10. Way(rest, next) = way BY <1>1
<1> QED BY <1>6, <1>8, <1>9, <1>10 DEF LedgerInv

(* A mark for what was posted since the last one.                          *)
LEMMA LedgerMark ==
  ASSUME NEW queue \in Seq(Event), NEW rng \in [Entry -> Held], NEW l \in Ledger,
         NEW next \in Ledger, NEW published \in Nat,
         SeqInv(queue, rng, l.pushed, published), LedgerInv(queue, rng, l, published),
         next.posted = l.pushed - Len(queue), l.posted <= next.posted,
         next.pushed = l.pushed, next.pushed_octets = l.pushed_octets,
         next.acked = l.acked, next.acked_octets = l.acked_octets,
         NEW m \in Mark, next.marks = Append(l.marks, m),
         m.epoch = published, m.through = next.posted,
         m.octets = l.pushed_octets - OctetsOf(queue)
  PROVE  LedgerInv(queue, rng, next, published)
<1>1. PICK way : way = Way(queue, rng) OBVIOUS
<1>2. /\ l.posted \in Nat /\ l.pushed \in Nat /\ next.posted \in Nat /\ l.pushed_octets \in Nat
      /\ l.acked \in Nat /\ l.marks \in Seq(Mark)
  BY LedgerFields
<1>3. next.posted + Len(queue) <= next.pushed /\ next.acked <= next.posted
  <2>1. l.acked <= l.posted BY DEF LedgerInv
  <2>2. Len(queue) \in Nat OBVIOUS
  <2> QED BY <1>2, <2>1, <2>2
<1>4. /\ \A x \in way : next.acked < x.seq
      /\ next.acked_octets + Cardinality(Later(way, next.acked)) <= next.pushed_octets
  BY <1>1 DEF LedgerInv
<1>5. Later(way, next.posted) \subseteq Messages(Range(queue))
  <2>1. ASSUME NEW x \in way, x.kind = "message", x.seq > next.posted PROVE x \in Range(queue)
    <3>1. CASE \E k \in 1 .. Len(queue) : queue[k] = x BY <3>1, Members
    <3>2. CASE \E e \in Entry : \E k \in 1 .. Len(rng[e].events) : rng[e].events[k] = x
      <4>1. x.seq <= l.pushed - Len(queue) BY <3>2 DEF SeqInv
      <4>2. x \in Event BY <1>1, WayFacts
      <4>3. x.seq \in Nat BY <4>2, EventFields
      <4> QED BY <1>2, <2>1, <4>1, <4>3
    <3>3. \/ \E k \in 1 .. Len(queue) : queue[k] = x
          \/ \E e \in Entry : \E k \in 1 .. Len(rng[e].events) : rng[e].events[k] = x
      <4>1. x \in Way(queue, rng) BY <1>1
      <4> QED BY <4>1, WayFacts
    <3> QED BY <3>1, <3>2, <3>3
  <2> QED BY <2>1 DEF Later, Messages
<1>6. m.octets + Cardinality(Later(way, next.posted)) <= l.pushed_octets
  <2>1. OctetsOf(queue) \in Nat /\ IsFiniteSet(Messages(Range(queue)))
        /\ Cardinality(Messages(Range(queue))) <= OctetsOf(queue)
    BY OctetsCover
  <2>2. /\ Cardinality(Later(way, next.posted)) \in Nat /\ Cardinality(Messages(Range(queue))) \in Nat
        /\ Cardinality(Later(way, next.posted)) <= Cardinality(Messages(Range(queue)))
    BY <1>5, <2>1, PartCard
  <2> QED BY <1>2, <2>1, <2>2
<1>7. \A e \in Entry : \A j \in 1 .. Len(rng[e].events) : rng[e].epoch <= published BY DEF SeqInv
<1>8. ASSUME NEW k \in 1 .. Len(next.marks)
      PROVE /\ next.marks[k].epoch <= published /\ next.marks[k].through <= next.posted
            /\ next.marks[k].octets + Cardinality(Later(way, next.marks[k].through))
                 <= next.pushed_octets
            /\ \A e \in Entry : \A j \in 1 .. Len(rng[e].events) :
                 rng[e].events[j].seq <= next.marks[k].through => rng[e].epoch <= next.marks[k].epoch
  <2>1. PICK s \in Seq(Mark) : s = l.marks BY <1>2
  <2>2. next.marks = Append(s, m) BY <2>1
  <2>3. Len(next.marks) = Len(s) + 1 BY <2>2
  <2>4. CASE k = Len(s) + 1
    <3>1. next.marks[k] = m BY <2>2, <2>4
    <3>2. next.posted <= next.posted /\ published <= published BY <1>2
    <3> QED BY <1>6, <1>7, <3>1, <3>2
  <2>5. CASE k # Len(s) + 1
    <3>1. k \in 1 .. Len(s) BY <2>3, <2>5
    <3>2. next.marks[k] = s[k] BY <2>2, <3>1
    <3>3. PICK u : u = s[k] OBVIOUS
    <3>4. u.through \in Nat BY <2>1, <3>1, <3>3, LedgerFields
    <3>5. /\ u.epoch <= published /\ u.through <= l.posted
          /\ u.octets + Cardinality(Later(way, u.through)) <= l.pushed_octets
          /\ \A e \in Entry : \A j \in 1 .. Len(rng[e].events) :
               rng[e].events[j].seq <= u.through => rng[e].epoch <= u.epoch
      BY <1>1, <2>1, <3>1, <3>3 DEF LedgerInv
    <3>6. u.through <= next.posted BY <1>2, <3>4, <3>5
    <3> QED BY <3>2, <3>3, <3>5, <3>6
  <2> QED BY <2>4, <2>5
<1> QED BY <1>1, <1>3, <1>4, <1>8 DEF LedgerInv

(* The epochs of marks are numbers.                                        *)
LEMMA EpochsFacts ==
  ASSUME NEW s \in Seq(Mark)
  PROVE  /\ Epochs(s) \in Seq(Nat) /\ Len(Epochs(s)) = Len(s)
         /\ \A k \in 1 .. Len(s) : Epochs(s)[k] = s[k].epoch
<1>1. DOMAIN s = 1 .. Len(s) /\ Len(s) \in Nat OBVIOUS
<1>2. \A k \in 1 .. Len(s) : s[k] \in Mark OBVIOUS
<1>3. \A k \in 1 .. Len(s) : s[k].epoch \in Nat BY <1>2 DEF Mark
<1>4. PICK t : t = Epochs(s) OBVIOUS
<1>5. t = [k \in 1 .. Len(s) |-> s[k].epoch] BY <1>1, <1>4 DEF Epochs
<1>6. t \in [1 .. Len(s) -> Nat] BY <1>3, <1>5
<1>7. t \in Seq(Nat) /\ Len(t) = Len(s) BY <1>1, <1>6, IsASeq
<1> QED BY <1>4, <1>5, <1>7

(* The marks up to a floor below which no batch is held.                   *)
LEMMA LedgerFloor ==
  ASSUME NEW queue \in Seq(Event), NEW rng \in [Entry -> Held], NEW l \in Ledger,
         NEW published \in Nat, NEW floor \in Nat,
         SeqInv(queue, rng, l.pushed, published), LedgerInv(queue, rng, l, published),
         \A e \in Entry : rng[e].events # <<>> => floor < rng[e].epoch
  PROVE  /\ Floored(l, floor) \in Ledger
         /\ LedgerInv(queue, rng, Floored(l, floor), published)
         /\ Floored(l, floor).pushed = l.pushed /\ Floored(l, floor).pushed_octets = l.pushed_octets
<1>1. PICK ms \in Seq(Mark) : ms = l.marks BY LedgerFields
<1>2. PICK n : n = Passed(Epochs(ms), floor) OBVIOUS
<1>3. PICK ns \in Seq(Nat) : /\ ns = Epochs(ms) /\ Len(ns) = Len(ms)
                             /\ \A k \in 1 .. Len(ms) : ns[k] = ms[k].epoch
  BY EpochsFacts
<1>4. n \in 0 .. Len(ms) /\ \A k \in 1 .. n : ms[k].epoch <= floor
  <2>1. n \in 0 .. Len(ns) /\ \A k \in 1 .. n : ns[k] <= floor BY <1>2, <1>3, PassedFacts
  <2> QED BY <1>3, <2>1, SMTT(20)
<1>5. PICK t \in Ledger : t = Floored(l, floor)
  <2>1. CASE n = 0 BY <1>1, <1>2, <2>1 DEF Floored
  <2>2. CASE n # 0
    <3>1. Floored(l, floor) = [l EXCEPT !.acked = l.marks[n].through, !.acked_octets = l.marks[n].octets,
                                        !.marks = Behind(@, n)]
      BY <1>1, <1>2, <2>2 DEF Floored
    <3>2. n \in 1 .. Len(ms) BY <1>4, <2>2
    <3>3. l.marks[n].through \in Nat /\ l.marks[n].octets \in Nat BY <1>1, <3>2, LedgerFields
    <3>4. Behind(ms, n) \in Seq(Mark) BY <1>4, Cut
    <3>5. PICK a \in Nat, b \in Nat, c \in Seq(Mark) :
            a = l.marks[n].through /\ b = l.marks[n].octets /\ c = Behind(l.marks, n)
      BY <1>1, <3>3, <3>4
    <3>6. [l EXCEPT !.acked = a, !.acked_octets = b, !.marks = c] \in Ledger BY DEF Ledger
    <3> QED BY <3>1, <3>5, <3>6
  <2> QED BY <2>1, <2>2
<1>6. CASE n = 0
  <2>1. t = l BY <1>1, <1>2, <1>5, <1>6 DEF Floored
  <2> QED BY <1>5, <2>1
<1>7. CASE n # 0
  <2>1. n \in 1 .. Len(ms) BY <1>4, <1>7
  <2>2. PICK m \in Mark : m = ms[n] BY <2>1
  <2>3. m.epoch \in Nat /\ m.through \in Nat /\ m.octets \in Nat BY DEF Mark
  <2>4. PICK c \in Seq(Mark) : c = Behind(ms, n) BY <1>4, Cut
  <2>5. t = [l EXCEPT !.acked = m.through, !.acked_octets = m.octets, !.marks = c]
    BY <1>1, <1>2, <1>5, <1>7, <2>2, <2>4 DEF Floored
  <2>6. /\ t.pushed = l.pushed /\ t.pushed_octets = l.pushed_octets /\ t.posted = l.posted
        /\ t.acked = m.through /\ t.acked_octets = m.octets /\ t.marks = c
    BY <2>5 DEF Ledger
  <2>7. PICK way : way = Way(queue, rng) OBVIOUS
  <2>8. \A k \in 1 .. Len(ms) :
          /\ ms[k].epoch <= published /\ ms[k].through <= l.posted
          /\ ms[k].octets + Cardinality(Later(way, ms[k].through)) <= l.pushed_octets
          /\ \A e \in Entry : \A j \in 1 .. Len(rng[e].events) :
               rng[e].events[j].seq <= ms[k].through => rng[e].epoch <= ms[k].epoch
    BY <1>1, <2>7 DEF LedgerInv
  <2>9. m.epoch <= floor BY <1>4, <2>1, <2>2
  <2>10. ASSUME NEW a \in way PROVE m.through < a.seq
    <3>1. a \in Event BY <2>7, WayFacts
    <3>2. a.seq \in Nat BY <3>1, EventFields
    <3>3. CASE \E k \in 1 .. Len(queue) : queue[k] = a
      <4>1. PICK k \in 1 .. Len(queue) : queue[k] = a BY <3>3
      <4>2. a.seq = l.pushed - Len(queue) + k BY <4>1 DEF SeqInv
      <4>3. l.posted + Len(queue) <= l.pushed BY DEF LedgerInv
      <4>4. m.through <= l.posted BY <2>1, <2>2, <2>8
      <4>5. l.pushed \in Nat /\ l.posted \in Nat /\ Len(queue) \in Nat BY LedgerFields
      <4> QED BY <2>3, <4>2, <4>3, <4>4, <4>5, SMTT(20)
    <3>4. CASE \E e \in Entry : \E k \in 1 .. Len(rng[e].events) : rng[e].events[k] = a
      <4>1. PICK e \in Entry : \E k \in 1 .. Len(rng[e].events) : rng[e].events[k] = a BY <3>4
      <4>2. floor < rng[e].epoch
        <5>1. rng[e].events # <<>> BY <4>1
        <5> QED BY <5>1
      <4>3. a.seq <= m.through => rng[e].epoch <= m.epoch BY <2>1, <2>2, <2>8, <4>1
      <4>4. rng[e].epoch \in Nat BY HeldFields
      <4> QED BY <2>3, <2>9, <3>2, <4>2, <4>3, <4>4
    <3>5. \/ \E k \in 1 .. Len(queue) : queue[k] = a
          \/ \E e \in Entry : \E k \in 1 .. Len(rng[e].events) : rng[e].events[k] = a
      <4>1. a \in Way(queue, rng) BY <2>7
      <4> QED BY <4>1, WayFacts
    <3> QED BY <3>3, <3>4, <3>5
  <2>11. t.posted + Len(queue) <= t.pushed BY <2>6 DEF LedgerInv
  <2>12. t.acked <= t.posted BY <2>1, <2>2, <2>6, <2>8
  <2>13. t.acked_octets + Cardinality(Later(way, t.acked)) <= t.pushed_octets
    BY <2>1, <2>2, <2>6, <2>8
  <2>14. ASSUME NEW k \in 1 .. Len(t.marks)
         PROVE /\ t.marks[k].epoch <= published /\ t.marks[k].through <= t.posted
               /\ t.marks[k].octets + Cardinality(Later(way, t.marks[k].through)) <= t.pushed_octets
               /\ \A e \in Entry : \A j \in 1 .. Len(rng[e].events) :
                    rng[e].events[j].seq <= t.marks[k].through => rng[e].epoch <= t.marks[k].epoch
    <3>1. Len(c) = Len(ms) - n /\ \A j \in 1 .. Len(ms) - n : c[j] = ms[n + j] BY <1>4, <2>4, Cut
    <3>2. k \in 1 .. Len(ms) - n BY <2>6, <3>1
    <3>3. n + k \in 1 .. Len(ms) BY <1>4, <3>2
    <3>4. t.marks[k] = ms[n + k] BY <2>6, <3>1, <3>2
    <3> QED BY <2>6, <2>8, <3>3, <3>4
  <2>15. \A a \in way : t.acked < a.seq BY <2>6, <2>10
  <2>16. LedgerInv(queue, rng, t, published) BY <2>7, <2>11, <2>12, <2>13, <2>14, <2>15 DEF LedgerInv
  <2> QED BY <1>5, <2>6, <2>16
<1> QED BY <1>6, <1>7

-----------------------------------------------------------------------------
(* What a client makes the core hold.                                      *)

(* One more member.                                                        *)
LEMMA OneMore ==
  ASSUME NEW S, IsFiniteSet(S), NEW x, NEW T, T \subseteq S \cup {x}
  PROVE  IsFiniteSet(T) /\ Cardinality(T) \in Nat /\ Cardinality(S) \in Nat
         /\ Cardinality(T) <= Cardinality(S) + 1
<1>1. IsFiniteSet({x}) /\ Cardinality({x}) = 1 BY FS_Singleton
<1>2. PICK U : U = S \cup {x} OBVIOUS
<1>3. IsFiniteSet(U) /\ Cardinality(U) <= Cardinality(S) + Cardinality({x}) BY <1>1, <1>2, JoinCard
<1>4. IsFiniteSet(T) /\ Cardinality(T) <= Cardinality(U) BY <1>2, <1>3, PartCard
<1>5. Cardinality(T) \in Nat /\ Cardinality(S) \in Nat /\ Cardinality(U) \in Nat
  BY <1>3, <1>4, FS_CardinalityType
<1> QED BY <1>1, <1>3, <1>4, <1>5

(* One member less.                                                        *)
LEMMA OneLess ==
  ASSUME NEW S, IsFiniteSet(S), NEW x \in S, NEW T, T \subseteq S, x \notin T
  PROVE  Cardinality(T) \in Nat /\ Cardinality(S) \in Nat /\ Cardinality(T) + 1 <= Cardinality(S)
<1>1. IsFiniteSet(S \ {x}) /\ Cardinality(S \ {x}) = Cardinality(S) - 1 BY FS_RemoveElement
<1>2. T \subseteq S \ {x} OBVIOUS
<1>3. Cardinality(T) <= Cardinality(S \ {x}) /\ Cardinality(T) \in Nat /\ Cardinality(S \ {x}) \in Nat
  BY <1>1, <1>2, PartCard
<1>4. Cardinality(S) \in Nat BY FS_CardinalityType
<1> QED BY <1>1, <1>3, <1>4

(* The readers are connections.                                            *)
LEMMA ReadersFinite ==
  ASSUME NEW cn
  PROVE  /\ IsFiniteSet(Readers(cn)) /\ Cardinality(Readers(cn)) \in Nat /\ Cardinality(Peer) \in Nat
         /\ Cardinality(Readers(cn)) <= Cardinality(Peer)
<1>1. Readers(cn) \subseteq Peer /\ IsFiniteSet(Peer) BY FlowAssumption DEF Readers
<1> QED BY <1>1, PartCard

(* What the bound says of one connection.                                  *)
Bounded(way, p, c) ==
  /\ p.life = "served" =>
       \A a \in way : a.conn = c => \E k \in 1 .. Len(p.sequences) : p.sequences[k] = a.seq
  /\ \A j, k \in 1 .. Len(p.held) : ByClient(p.held[j]) /\ ByClient(p.held[k]) => j = k
  /\ Cardinality(FromClient(way, c)) + (IF Holding(p) THEN 1 ELSE 0) <= MaxPending

(* The bound is what it says of each and the messages of all.              *)
LEMMA BoundParts ==
  ASSUME NEW way, NEW cn
  PROVE  BoundInv(way, cn) <=>
           /\ \A c \in Peer : Bounded(way, cn[c], c)
           /\ Cardinality(Messages(way)) + Cardinality(Readers(cn)) <= HalfBudget + Cardinality(Peer)
BY DEF BoundInv, Bounded

(* Fewer events are on the way.                                            *)
LEMMA BoundShrink ==
  ASSUME NEW way, IsFiniteSet(way), NEW left, left \subseteq way, NEW cn, BoundInv(way, cn)
  PROVE  BoundInv(left, cn)
<1>1. ASSUME NEW c \in Peer PROVE Bounded(left, cn[c], c)
  <2>1. Bounded(way, cn[c], c) BY BoundParts
  <2>2. FromClient(left, c) \subseteq FromClient(way, c) /\ FromClient(way, c) \subseteq way
    BY DEF FromClient
  <2>3. IsFiniteSet(FromClient(way, c)) BY <2>2, PartCard
  <2>4. PICK x \in Nat, y \in Nat :
          /\ x = Cardinality(FromClient(left, c)) /\ y = Cardinality(FromClient(way, c)) /\ x <= y
    BY <2>2, <2>3, PartCard
  <2>5. PICK z \in Nat : z = (IF Holding(cn[c]) THEN 1 ELSE 0) OBVIOUS
  <2>6. y + z <= MaxPending BY <2>1, <2>4, <2>5 DEF Bounded
  <2>7. x + z <= MaxPending BY <2>4, <2>5, <2>6, FlowAssumption
  <2> QED BY <2>1, <2>4, <2>5, <2>7 DEF Bounded
<1>2. Messages(left) \subseteq Messages(way) /\ Messages(way) \subseteq way BY DEF Messages
<1>3. IsFiniteSet(Messages(way)) BY <1>2, PartCard
<1>4. PICK x \in Nat, y \in Nat :
        /\ x = Cardinality(Messages(left)) /\ y = Cardinality(Messages(way)) /\ x <= y
  BY <1>2, <1>3, PartCard
<1>5. PICK z \in Nat, w \in Nat : z = Cardinality(Readers(cn)) /\ w = Cardinality(Peer)
  BY ReadersFinite
<1>6. y + z <= HalfBudget + w BY <1>4, <1>5 DEF BoundInv
<1>7. x + z <= HalfBudget + w BY <1>4, <1>5, <1>6, FlowAssumption
<1> QED BY <1>1, <1>4, <1>5, <1>7, BoundParts

(* Events of connections that are over, none by a client, join the way.    *)
LEMMA BoundPost ==
  ASSUME NEW way, NEW over \in Seq(Event), NEW cn, BoundInv(way, cn),
         \A k \in 1 .. Len(over) : over[k].kind = "close" /\ cn[over[k].conn].life # "served"
  PROVE  BoundInv(way \cup Range(over), cn)
<1>1. \A x \in Range(over) : x.kind = "close" /\ cn[x.conn].life # "served" BY Members
<1>2. \A c \in Peer : FromClient(way \cup Range(over), c) = FromClient(way, c)
  BY <1>1 DEF FromClient, ByClient
<1>3. Messages(way \cup Range(over)) = Messages(way) BY <1>1 DEF Messages
<1>4. ASSUME NEW c \in Peer PROVE Bounded(way \cup Range(over), cn[c], c)
  <2>1. Bounded(way, cn[c], c) BY BoundParts
  <2>2. ASSUME cn[c].life = "served", NEW a \in way \cup Range(over), a.conn = c
        PROVE  \E k \in 1 .. Len(cn[c].sequences) : cn[c].sequences[k] = a.seq
    <3>1. a \in way BY <1>1, <2>2
    <3> QED BY <2>1, <2>2, <3>1 DEF Bounded
  <2>3. FromClient(way \cup Range(over), c) = FromClient(way, c) BY <1>2
  <2> QED BY <2>1, <2>2, <2>3 DEF Bounded
<1>5. Cardinality(Messages(way)) + Cardinality(Readers(cn)) <= HalfBudget + Cardinality(Peer)
  BY DEF BoundInv
<1> QED BY <1>3, <1>4, <1>5, BoundParts

(* A connection that is bounded as it was.                                 *)
SameBound(p, q) == q.life = p.life /\ q.held = p.held /\ q.sequences = p.sequences


(* Some connections change.                                                *)
LEMMA BoundConn ==
  ASSUME NEW way, IsFiniteSet(way), NEW cn, NEW next, BoundInv(way, cn), NEW D \in SUBSET Peer,
         \A d \in Peer \ D : SameBound(cn[d], next[d]),
         \A d \in D : Bounded(way, next[d], d),
         Readers(next) \subseteq Readers(cn) \/ Cardinality(Messages(way)) <= HalfBudget
  PROVE  BoundInv(way, next)
<1> USE DEF SameBound
<1>1. ASSUME NEW c \in Peer PROVE Bounded(way, next[c], c)
  <2>1. CASE c \in D BY <2>1
  <2>2. CASE c \notin D
    <3>1. Bounded(way, cn[c], c) BY BoundParts
    <3>2. next[c].life = cn[c].life /\ next[c].held = cn[c].held /\ next[c].sequences = cn[c].sequences
      BY <2>2
    <3>3. Holding(next[c]) <=> Holding(cn[c]) BY <3>2 DEF Holding
    <3> QED BY <3>1, <3>2, <3>3 DEF Bounded
  <2> QED BY <2>1, <2>2
<1>2. Messages(way) \subseteq way BY DEF Messages
<1>3. Cardinality(Messages(way)) \in Nat BY <1>2, PartCard
<1>4. PICK m \in Nat, x \in Nat, y \in Nat, w \in Nat :
        /\ m = Cardinality(Messages(way)) /\ x = Cardinality(Readers(cn))
        /\ y = Cardinality(Readers(next)) /\ w = Cardinality(Peer) /\ y <= w
  BY <1>3, ReadersFinite
<1>5. m + y <= HalfBudget + w
  <2>1. CASE Readers(next) \subseteq Readers(cn)
    <3>1. y <= x BY <1>4, <2>1, ReadersFinite, PartCard
    <3>2. m + x <= HalfBudget + w BY <1>4 DEF BoundInv
    <3> QED BY <1>4, <3>1, <3>2, FlowAssumption
  <2>2. CASE Cardinality(Messages(way)) <= HalfBudget BY <1>4, <2>2, FlowAssumption
  <2> QED BY <2>1, <2>2
<1> QED BY <1>1, <1>4, <1>5, BoundParts

(* A connection that handed over the first n of what it held.              *)
Hands(p, q, n, from) ==
  /\ q.life = p.life /\ q.held = Behind(p.held, n) /\ (Reads(q) => Reads(p))
  /\ q.sequences = p.sequences \o [k \in 1 .. n |-> from + k]


(* Events of a connection are pushed from what it holds.                   *)
LEMMA BoundPush ==
  ASSUME NEW way, IsFiniteSet(way), NEW cn \in [Peer -> Connection],
         NEW next \in [Peer -> Connection], BoundInv(way, cn),
         NEW c \in Peer, NEW n \in 0 .. Len(cn[c].held), NEW from \in Nat,
         \A k \in 1 .. Len(cn[c].held) : cn[c].held[k].conn = c,
         Reads(cn[c]) => ~Holding(cn[c]), Hands(cn[c], next[c], n, from),
         \A d \in Peer : d # c => next[d] = cn[d],
         NEW all, all = way \cup Range(Pushing(cn[c].held, n, from))
  PROVE  BoundInv(all, next)
<1> USE DEF Hands
<1>1. PICK h \in Seq(Event) : h = cn[c].held BY ConFields
<1>2. n \in 0 .. Len(h) /\ \A k \in 1 .. Len(h) : h[k].conn = c BY <1>1
<1>3. PICK over \in Seq(Event) : over = Pushing(h, n, from) BY <1>2, PushingFacts
<1>4. Len(over) = n /\ \A k \in 1 .. n : over[k].conn = h[k].conn /\ over[k].kind = h[k].kind
                                          /\ over[k].seq = from + k
  BY <1>2, <1>3, PushingFacts
<1>5. PICK t \in Seq(Event) : t = Behind(h, n) BY <1>2, Cut
<1>6. Len(t) = Len(h) - n /\ \A k \in 1 .. Len(h) - n : t[k] = h[n + k] BY <1>2, <1>5, Cut
<1>7. PICK more : more = way \cup Range(over) OBVIOUS
<1>8. \A x \in Range(over) : \E k \in 1 .. n : k \in 1 .. Len(h) /\ x = over[k]
  <2>1. ASSUME NEW x \in Range(over) PROVE \E k \in 1 .. n : k \in 1 .. Len(h) /\ x = over[k]
    <3>1. PICK k \in 1 .. n : over[k] = x BY <1>4, Members
    <3>2. k \in 1 .. Len(h) BY <1>2
    <3> QED BY <3>1, <3>2
  <2> QED BY <2>1
<1>9. \A x \in Range(over) : x.conn = c BY <1>2, <1>4, <1>8, ZenonT(30)
<1>10. \A j, k \in 1 .. Len(h) : ByClient(h[j]) /\ ByClient(h[k]) => j = k BY <1>1 DEF BoundInv
<1>11. next[c].held = t BY <1>1, <1>5
<1>12. \A k \in 1 .. Len(t) : n + k \in 1 .. Len(h) /\ t[k] = h[n + k] /\ n + k \notin 1 .. n
  <2>1. ASSUME NEW k \in 1 .. Len(t)
        PROVE  n + k \in 1 .. Len(h) /\ t[k] = h[n + k] /\ n + k \notin 1 .. n
    <3>1. n + k \in 1 .. Len(h) /\ n + k \notin 1 .. n BY <1>2, <1>6
    <3> QED BY <1>6, <3>1
  <2> QED BY <2>1
<1>13. \A d \in Peer : d # c => Bounded(more, next[d], d)
  <2>1. ASSUME NEW d \in Peer, d # c PROVE Bounded(more, next[d], d)
    <3>1. Bounded(way, cn[d], d) /\ next[d] = cn[d] BY <2>1, BoundParts
    <3>2. FromClient(more, d) = FromClient(way, d) BY <1>7, <1>9, <2>1 DEF FromClient
    <3>3. \A a \in more : a.conn = d => a \in way BY <1>7, <1>9, <2>1
    <3> QED BY <3>1, <3>2, <3>3 DEF Bounded
  <2> QED BY <2>1
<1>14. PICK q \in Seq(Nat) : q = cn[c].sequences BY ConFields
<1>15. PICK s \in Seq(Nat) : s = [k \in 1 .. n |-> from + k]
  <2>1. [k \in 1 .. n |-> from + k] \in [1 .. n -> Nat] /\ n \in Nat OBVIOUS
  <2>2. [k \in 1 .. n |-> from + k] \in Seq(Nat) BY <2>1, IsASeq
  <2> QED BY <2>2, Zenon
<1>16. Len(s) = n /\ \A k \in 1 .. n : s[k] = from + k BY <1>15
<1>17. PICK u \in Seq(Nat) : u = q \o s
  <2>1. q \o s \in Seq(Nat) OBVIOUS
  <2> QED BY <2>1, Zenon
<1>18. next[c].sequences = u BY <1>14, <1>15, <1>17
<1>19. /\ \A k \in 1 .. Len(q) : k \in 1 .. Len(u) /\ u[k] = q[k]
       /\ \A k \in 1 .. n : Len(q) + k \in 1 .. Len(u) /\ u[Len(q) + k] = from + k
  <2>1. Len(u) = Len(q) + n
    <3>1. Len(q \o s) = Len(q) + Len(s) OBVIOUS
    <3> QED BY <1>16, <1>17, <3>1
  <2>2. \A k \in 1 .. Len(q) : k \in 1 .. Len(u) /\ u[k] = q[k] BY <1>17, <2>1
  <2>3. \A k \in 1 .. n : Len(q) + k \in 1 .. Len(u) /\ u[Len(q) + k] = s[k] BY <1>16, <1>17, <2>1
  <2> QED BY <1>16, <2>2, <2>3
<1>20. ASSUME next[c].life = "served", NEW a \in more, a.conn = c
       PROVE  \E k \in 1 .. Len(u) : u[k] = a.seq
  <2>1. CASE a \in way
    <3>1. Bounded(way, cn[c], c) /\ cn[c].life = "served" BY <1>20, BoundParts
    <3>2. \E k \in 1 .. Len(q) : q[k] = a.seq BY <1>14, <1>20, <2>1, <3>1 DEF Bounded
    <3> QED BY <1>19, <3>2
  <2>2. CASE a \in Range(over)
    <3>1. PICK k \in 1 .. n : a = over[k] BY <1>8, <2>2
    <3>2. a.seq = from + k BY <1>4, <3>1
    <3> QED BY <1>19, <3>2
  <2> QED BY <1>7, <1>20, <2>1, <2>2
<1>21. \A j, k \in 1 .. Len(t) : ByClient(t[j]) /\ ByClient(t[k]) => j = k
  <2>1. ASSUME NEW j \in 1 .. Len(t), NEW k \in 1 .. Len(t), ByClient(t[j]), ByClient(t[k])
        PROVE  j = k
    <3>1. n + j = n + k BY <1>10, <1>12, <2>1
    <3> QED BY <3>1
  <2> QED BY <2>1
<1>22. FromClient(way, c) \subseteq way /\ Messages(way) \subseteq way BY DEF FromClient, Messages
<1>23. IsFiniteSet(FromClient(way, c)) /\ IsFiniteSet(Messages(way)) BY <1>22, PartCard
<1>24. Cardinality(FromClient(more, c)) + (IF Holding(next[c]) THEN 1 ELSE 0) <= MaxPending
  <2>1. Bounded(way, cn[c], c) BY BoundParts
  <2>2. CASE \E i \in 1 .. n : ByClient(h[i])
    <3>1. PICK i \in 1 .. n : ByClient(h[i]) BY <2>2
    <3>2. i \in 1 .. Len(h) BY <1>2
    <3>3. Holding(cn[c]) BY <1>1, <3>1, <3>2 DEF Holding
    <3>4. ~Holding(next[c])
      <4>1. ASSUME NEW k \in 1 .. Len(t), ByClient(t[k]) PROVE FALSE
        <5>1. n + k = i BY <1>10, <1>12, <3>1, <3>2, <4>1
        <5> QED BY <1>12, <5>1
      <4> QED BY <1>11, <4>1 DEF Holding
    <3>5. FromClient(more, c) \subseteq FromClient(way, c) \cup {over[i]}
      <4>1. ASSUME NEW x \in Range(over), ByClient(x) PROVE x = over[i]
        <5>1. PICK k \in 1 .. n : k \in 1 .. Len(h) /\ x = over[k] BY <1>8
        <5>2. ByClient(h[k]) BY <1>4, <4>1, <5>1 DEF ByClient
        <5>3. k = i BY <1>10, <3>1, <3>2, <5>1, <5>2
        <5> QED BY <5>1, <5>3
      <4> QED BY <1>7, <4>1 DEF FromClient
    <3>6. PICK x \in Nat, y \in Nat :
            x = Cardinality(FromClient(way, c)) /\ y = Cardinality(FromClient(more, c)) /\ y <= x + 1
      BY <1>23, <3>5, OneMore
    <3>7. x + 1 <= MaxPending BY <2>1, <3>3, <3>6 DEF Bounded
    <3>8. y + 0 <= MaxPending BY <3>6, <3>7, FlowAssumption
    <3> QED BY <3>4, <3>6, <3>8
  <2>3. CASE ~(\E i \in 1 .. n : ByClient(h[i]))
    <3>1. FromClient(more, c) = FromClient(way, c)
      <4>1. ASSUME NEW x \in Range(over) PROVE ~ByClient(x)
        <5>1. PICK k \in 1 .. n : x = over[k] BY <1>8
        <5> QED BY <1>4, <2>3, <5>1 DEF ByClient
      <4> QED BY <1>7, <4>1 DEF FromClient
    <3>2. Holding(next[c]) => Holding(cn[c]) BY <1>1, <1>11, <1>12 DEF Holding
    <3>3. PICK x \in Nat : x = Cardinality(FromClient(way, c)) BY <1>23, FS_CardinalityType
    <3>4. x + (IF Holding(cn[c]) THEN 1 ELSE 0) <= MaxPending BY <2>1, <3>3 DEF Bounded
    <3>5. CASE Holding(next[c]) BY <3>1, <3>2, <3>3, <3>4, <3>5
    <3>6. CASE ~Holding(next[c])
      <4>1. x + 0 <= MaxPending
        <5>1. CASE Holding(cn[c])
          <6>1. x + 1 <= MaxPending BY <3>4, <5>1
          <6> QED BY <3>3, <6>1, FlowAssumption
        <5>2. CASE ~Holding(cn[c]) BY <3>4, <5>2
        <5> QED BY <5>1, <5>2
      <4> QED BY <3>1, <3>3, <3>6, <4>1
    <3> QED BY <3>5, <3>6
  <2> QED BY <2>2, <2>3
<1>25. Bounded(more, next[c], c) BY <1>11, <1>18, <1>20, <1>21, <1>24 DEF Bounded
<1>26. ASSUME NEW d \in Peer, d \in Readers(next) PROVE d \in Readers(cn)
  <2>1. CASE d # c
    <3>1. next[d] = cn[d] BY <2>1
    <3> QED BY <1>26, <3>1 DEF Readers
  <2>2. CASE d = c
    <3>1. HoldingMessage(next[c]) => HoldingMessage(cn[c]) BY <1>1, <1>11, <1>12 DEF HoldingMessage
    <3> QED BY <1>26, <2>2, <3>1 DEF Readers
  <2> QED BY <2>1, <2>2
<1>27. Readers(next) \subseteq Readers(cn) BY <1>26 DEF Readers
<1>28. PICK m \in Nat, r \in Nat, w \in Nat, e \in Nat :
         /\ m = Cardinality(Messages(way)) /\ r = Cardinality(Readers(cn)) /\ w = Cardinality(Peer)
         /\ e = Cardinality(Readers(next)) /\ e <= r
  <2>1. Cardinality(Messages(way)) \in Nat BY <1>23, FS_CardinalityType
  <2>2. Cardinality(Readers(next)) <= Cardinality(Readers(cn)) BY <1>27, ReadersFinite, PartCard
  <2> QED BY <2>1, <2>2, ReadersFinite
<1>29. m + r <= HalfBudget + w BY <1>28 DEF BoundInv
<1>30. Cardinality(Messages(more)) + Cardinality(Readers(next)) <= HalfBudget + Cardinality(Peer)
  <2>1. CASE \E i \in 1 .. n : h[i].kind = "message"
    <3>1. PICK i \in 1 .. n : h[i].kind = "message" BY <2>1
    <3>2. i \in 1 .. Len(h) /\ ByClient(h[i]) BY <1>2, <3>1 DEF ByClient
    <3>3. HoldingMessage(cn[c]) /\ Holding(cn[c]) BY <1>1, <3>1, <3>2 DEF HoldingMessage, Holding
    <3>4. c \in Readers(cn) BY <3>3 DEF Readers
    <3>5. ~HoldingMessage(next[c])
      <4>1. ASSUME NEW k \in 1 .. Len(t), t[k].kind = "message" PROVE FALSE
        <5>1. ByClient(h[n + k]) BY <1>12, <4>1 DEF ByClient
        <5>2. n + k = i BY <1>10, <1>12, <3>2, <5>1
        <5> QED BY <1>12, <5>2
      <4> QED BY <1>11, <4>1 DEF HoldingMessage
    <3>6. c \notin Readers(next) BY <3>3, <3>5 DEF Readers
    <3>7. e + 1 <= r BY <1>27, <1>28, <3>4, <3>6, ReadersFinite, OneLess
    <3>8. Messages(more) \subseteq Messages(way) \cup {over[i]}
      <4>1. ASSUME NEW x \in Range(over), x.kind = "message" PROVE x = over[i]
        <5>1. PICK k \in 1 .. n : k \in 1 .. Len(h) /\ x = over[k] BY <1>8
        <5>2. ByClient(h[k]) BY <1>4, <4>1, <5>1 DEF ByClient
        <5>3. k = i BY <1>10, <3>2, <5>1, <5>2
        <5> QED BY <5>1, <5>3
      <4> QED BY <1>7, <4>1 DEF Messages
    <3>9. PICK y \in Nat : y = Cardinality(Messages(more)) /\ y <= m + 1
      <4>1. PICK v : v = over[i] OBVIOUS
      <4>2. Messages(more) \subseteq Messages(way) \cup {v} BY <3>8, <4>1
      <4>3. Cardinality(Messages(more)) \in Nat
            /\ Cardinality(Messages(more)) <= Cardinality(Messages(way)) + 1
        BY <1>23, <4>2, OneMore
      <4> QED BY <1>28, <4>3
    <3>10. y + e <= HalfBudget + w
      <4>1. PICK b \in Nat : b = HalfBudget BY FlowAssumption
      <4>2. m + r <= b + w BY <1>29, <4>1
      <4>3. y + e <= b + w BY <3>7, <3>9, <4>2
      <4> QED BY <4>1, <4>3
    <3> QED BY <1>28, <3>9, <3>10
  <2>2. CASE ~(\E i \in 1 .. n : h[i].kind = "message")
    <3>1. Messages(more) = Messages(way)
      <4>1. ASSUME NEW x \in Range(over) PROVE x.kind # "message"
        <5>1. PICK k \in 1 .. n : x = over[k] BY <1>8
        <5> QED BY <1>4, <2>2, <5>1
      <4> QED BY <1>7, <4>1 DEF Messages
    <3>2. m + e <= HalfBudget + w
      <4>1. PICK b \in Nat : b = HalfBudget BY FlowAssumption
      <4>2. m + r <= b + w /\ e <= r BY <1>28, <1>29, <4>1, Zenon
      <4>3. m + e <= b + w BY <4>2, SMTT(20)
      <4> QED BY <4>1, <4>3
    <3> QED BY <1>28, <3>1, <3>2
  <2> QED BY <2>1, <2>2
<1>31. BoundInv(more, next) BY <1>13, <1>25, <1>30, BoundParts
<1> QED BY <1>1, <1>3, <1>7, <1>31

(* A connection's events on the way are no more than its numbers.          *)
LEMMA BySequences ==
  ASSUME NEW way, IsFiniteSet(way), NEW s \in Seq(Nat), NEW c,
         \A a, b \in way : a.seq = b.seq => a = b,
         \A a \in way : a.conn = c => \E k \in 1 .. Len(s) : s[k] = a.seq
  PROVE  Cardinality(FromClient(way, c)) \in Nat /\ Cardinality(FromClient(way, c)) <= Len(s)
<1>1. PICK F : F = FromClient(way, c) OBVIOUS
<1>2. \A a \in F : a \in way /\ a.conn = c BY <1>1 DEF FromClient
<1>3. PICK K : K = {k \in 1 .. Len(s) : \E a \in F : a.seq = s[k]} OBVIOUS
<1>4. IsFiniteSet(1 .. Len(s)) /\ Cardinality(1 .. Len(s)) = Len(s)
  <2>1. 1 \in Int /\ Len(s) \in Int /\ Len(s) \in Nat OBVIOUS
  <2>2. PICK b \in Nat : b = Len(s) BY <2>1
  <2>3. IsFiniteSet(1 .. b) /\ Cardinality(1 .. b) = b BY <2>1, FS_Interval, SMTT(20)
  <2> QED BY <2>2, <2>3
<1>5. K \subseteq 1 .. Len(s) BY <1>3
<1>6. IsFiniteSet(K) /\ Cardinality(K) \in Nat /\ Cardinality(K) <= Len(s) BY <1>4, <1>5, PartCard
<1>7. PICK f : f = [k \in K |-> CHOOSE a \in F : a.seq = s[k]] OBVIOUS
<1>8. \A k \in K : f[k] \in F /\ f[k].seq = s[k] BY <1>3, <1>7
<1>9. \A a \in F : \E k \in K : f[k] = a
  <2>1. ASSUME NEW a \in F PROVE \E k \in K : f[k] = a
    <3>1. PICK k \in 1 .. Len(s) : s[k] = a.seq BY <1>2
    <3>2. k \in K BY <1>3, <3>1
    <3>3. f[k] \in F /\ f[k].seq = a.seq BY <1>8, <3>1, <3>2
    <3>4. f[k] = a BY <1>2, <3>3
    <3> QED BY <3>2, <3>4
  <2> QED BY <2>1
<1>10. f \in Surjection(K, F) BY <1>7, <1>8, <1>9 DEF Surjection
<1>11. IsFiniteSet(F) /\ Cardinality(F) <= Cardinality(K) BY <1>6, <1>10, FS_Surjection
<1>12. Cardinality(F) \in Nat BY <1>11, FS_CardinalityType
<1>13. Len(s) \in Nat OBVIOUS
<1> QED BY <1>1, <1>6, <1>11, <1>12, <1>13

-----------------------------------------------------------------------------
(* Batches, entries and the floor.                                         *)

(* Entries that are freed are empty, and the others stay.                  *)
LEMMA UnfreeFacts ==
  ASSUME NEW rng \in [Entry -> Held], NEW S
  PROVE  /\ Unfree(rng, S) \in [Entry -> Held]
         /\ \A e \in Entry : e \in S => Unfree(rng, S)[e].events = <<>>
         /\ \A e \in Entry : e \notin S => Unfree(rng, S)[e] = rng[e]
<1>1. FreeEntry \in Held /\ FreeEntry.events = <<>>
  <2>1. <<>> \in Seq(Event) BY EmptySeq
  <2> QED BY <2>1 DEF FreeEntry, Held, BatchKind
<1>2. \A e \in Entry : Unfree(rng, S)[e] = IF e \in S THEN FreeEntry ELSE rng[e] BY DEF Unfree
<1>3. Unfree(rng, S) = [e \in Entry |-> IF e \in S THEN FreeEntry ELSE rng[e]] BY DEF Unfree
<1> QED BY <1>1, <1>2, <1>3

(* The fields of what is in flight and of what the target has queued.      *)
LEMMA SentFields ==
  ASSUME NEW unacked \in Seq(Sent), NEW k \in 1 .. Len(unacked)
  PROVE  unacked[k].epoch \in Nat /\ unacked[k].entry \in Entry
<1>1. unacked[k] \in Sent OBVIOUS
<1> QED BY <1>1 DEF Sent
(* A batch the target has queued names an entry and an epoch.              *)
LEMMA PostedFields ==
  ASSUME NEW queue \in Seq(Posted), NEW k \in 1 .. Len(queue)
  PROVE  queue[k].epoch \in Nat /\ queue[k].entry \in Entry
<1>1. queue[k] \in Posted OBVIOUS
<1> QED BY <1>1 DEF Posted

(* A batch goes to an entry that is not in flight.                         *)
LEMMA RingPost ==
  ASSUME NEW unacked \in Seq(Sent), NEW rng \in [Entry -> Held], NEW published \in Nat,
         NEW acked \in Nat, NEW queue \in Seq(Posted), NEW ack \in Nat,
         RingInv(unacked, rng, published, acked, queue, ack, FALSE),
         NEW entry \in Entry, \A k \in 1 .. Len(unacked) : unacked[k].entry # entry,
         NEW next \in [Entry -> Held], next[entry].epoch = published + 1,
         \A e \in Entry : e # entry => next[e] = rng[e],
         NEW s \in Sent, s.epoch = published + 1, s.entry = entry,
         NEW b \in Posted, b.epoch = published + 1, b.entry = entry, b.kind = next[entry].kind
  PROVE  /\ rng[entry].events = <<>>
         /\ RingInv(Append(unacked, s), next, published + 1, acked, Append(queue, b), ack, FALSE)
<1>1. rng[entry].events = <<>> BY DEF RingInv
<1>2. PICK u \in Seq(Sent) : u = Append(unacked, s)
  <2>1. Append(unacked, s) \in Seq(Sent) OBVIOUS
  <2> QED BY <2>1, Zenon
<1>3. Len(u) = Len(unacked) + 1 /\ u[Len(u)] = s /\ \A k \in 1 .. Len(unacked) : u[k] = unacked[k]
  BY <1>2
<1>4. PICK q \in Seq(Posted) : q = Append(queue, b)
  <2>1. Append(queue, b) \in Seq(Posted) OBVIOUS
  <2> QED BY <2>1, Zenon
<1>5. Len(q) = Len(queue) + 1 /\ q[Len(q)] = b /\ \A k \in 1 .. Len(queue) : q[k] = queue[k]
  BY <1>4
<1>6. \A k \in 1 .. Len(u) : k = Len(u) \/ k \in 1 .. Len(unacked) BY <1>3
<1>7. \A k \in 1 .. Len(q) : k = Len(q) \/ k \in 1 .. Len(queue) BY <1>5
<1>8. acked <= published + 1 /\ ack <= published /\ ack <= published + 1 BY DEF RingInv
<1>9. \A k \in 1 .. Len(unacked) : unacked[k].epoch <= published /\ unacked[k].epoch \in Nat
  BY SentFields DEF RingInv
<1>10. \A k \in 1 .. Len(queue) :
         queue[k].epoch <= published /\ ack < queue[k].epoch /\ queue[k].epoch \in Nat
  BY PostedFields DEF RingInv
<1>11. \A j, k \in 1 .. Len(u) : j < k => u[j].epoch < u[k].epoch
  <2>1. ASSUME NEW j \in 1 .. Len(u), NEW k \in 1 .. Len(u), j < k PROVE u[j].epoch < u[k].epoch
    <3>1. j \in 1 .. Len(unacked) BY <1>3, <2>1
    <3>2. CASE k = Len(u) BY <1>3, <1>9, <3>1, <3>2, SMTT(20)
    <3>3. CASE k \in 1 .. Len(unacked) BY <1>3, <2>1, <3>1, <3>3 DEF RingInv
    <3> QED BY <1>6, <3>2, <3>3
  <2> QED BY <2>1
<1>12. \A k \in 1 .. Len(u) : u[k].epoch <= published + 1
  <2>1. ASSUME NEW k \in 1 .. Len(u) PROVE u[k].epoch <= published + 1
    <3>1. CASE k = Len(u) BY <1>3, <3>1
    <3>2. CASE k \in 1 .. Len(unacked) BY <1>3, <1>9, <3>2
    <3> QED BY <1>6, <3>1, <3>2
  <2> QED BY <2>1
<1>13. \A j, k \in 1 .. Len(q) : j < k => q[j].epoch < q[k].epoch
  <2>1. ASSUME NEW j \in 1 .. Len(q), NEW k \in 1 .. Len(q), j < k PROVE q[j].epoch < q[k].epoch
    <3>1. j \in 1 .. Len(queue) BY <1>5, <2>1
    <3>2. CASE k = Len(q) BY <1>5, <1>10, <3>1, <3>2
    <3>3. CASE k \in 1 .. Len(queue) BY <1>5, <2>1, <3>1, <3>3 DEF RingInv
    <3> QED BY <1>7, <3>2, <3>3
  <2> QED BY <2>1
<1>14. \A k \in 1 .. Len(q) : q[k].epoch <= published + 1 /\ ack < q[k].epoch
  <2>1. ASSUME NEW k \in 1 .. Len(q) PROVE q[k].epoch <= published + 1 /\ ack < q[k].epoch
    <3>1. CASE k = Len(q) BY <1>5, <1>8, <3>1
    <3>2. CASE k \in 1 .. Len(queue) BY <1>5, <1>10, <3>2, SMTT(20)
    <3> QED BY <1>7, <3>1, <3>2
  <2> QED BY <2>1
<1>15. ASSUME NEW e \in Entry, next[e].events # <<>>
       PROVE  /\ \E k \in 1 .. Len(q) :
                   q[k].entry = e /\ q[k].epoch = next[e].epoch /\ q[k].kind = next[e].kind
              /\ acked < next[e].epoch /\ \E k \in 1 .. Len(u) : u[k].entry = e
  <2>1. CASE e = entry
    <3>1. Len(q) \in 1 .. Len(q) /\ Len(u) \in 1 .. Len(u) BY <1>3, <1>5
    <3>2. acked < published + 1 BY DEF RingInv
    <3> QED BY <1>3, <1>5, <2>1, <3>1, <3>2
  <2>2. CASE e # entry
    <3>1. next[e] = rng[e] BY <2>2
    <3>2. \E k \in 1 .. Len(queue) :
            queue[k].entry = e /\ queue[k].epoch = rng[e].epoch /\ queue[k].kind = rng[e].kind
      BY <1>15, <3>1 DEF RingInv
    <3>3. acked < rng[e].epoch /\ \E k \in 1 .. Len(unacked) : unacked[k].entry = e
      BY <1>15, <3>1 DEF RingInv
    <3>4. \A k \in 1 .. Len(queue) : k \in 1 .. Len(q) /\ q[k] = queue[k] BY <1>5
    <3>5. \A k \in 1 .. Len(unacked) : k \in 1 .. Len(u) /\ u[k] = unacked[k] BY <1>3
    <3> QED BY <3>1, <3>2, <3>3, <3>4, <3>5
  <2> QED BY <2>1, <2>2
<1>16. ASSUME NEW k \in 1 .. Len(u) PROVE next[u[k].entry].epoch = u[k].epoch
  <2>1. CASE k = Len(u) BY <1>3, <2>1
  <2>2. CASE k \in 1 .. Len(unacked)
    <3>1. u[k] = unacked[k] /\ unacked[k].entry # entry /\ unacked[k].entry \in Entry
      BY <1>3, <2>2, SentFields
    <3>2. rng[unacked[k].entry].epoch = unacked[k].epoch BY <2>2 DEF RingInv
    <3> QED BY <3>1, <3>2
  <2> QED BY <1>6, <2>1, <2>2
<1>17. RingInv(u, next, published + 1, acked, q, ack, FALSE)
  BY <1>8, <1>11, <1>12, <1>13, <1>14, <1>15, <1>16 DEF RingInv
<1> QED BY <1>1, <1>2, <1>4, <1>17

(* The entries of the first n batches in flight.                           *)
Entries(unacked, n, S) == \A e : e \in S <=> \E k \in 1 .. n : unacked[k].entry = e

(* The batches up to the floor leave; they were taken.                     *)
LEMMA RingAcks ==
  ASSUME NEW unacked \in Seq(Sent), NEW rng \in [Entry -> Held], NEW published \in Nat,
         NEW acked \in Nat, NEW queue \in Seq(Posted), NEW ack \in Nat,
         RingInv(unacked, rng, published, acked, queue, ack, FALSE),
         NEW n \in 0 .. Len(unacked), \A k \in 1 .. n : unacked[k].epoch <= acked,
         NEW S, Entries(unacked, n, S),
         NEW left, left = Unfree(rng, S)
  PROVE  /\ RingInv(Behind(unacked, n), left, published, acked, queue, ack, FALSE)
         /\ \A e \in Entry : left[e].events = rng[e].events
         /\ \A e \in Entry : left[e].events # <<>> => left[e].epoch = rng[e].epoch
<1>2. /\ left \in [Entry -> Held] /\ \A e \in Entry : e \in S => left[e].events = <<>>
      /\ \A e \in Entry : e \notin S => left[e] = rng[e]
  BY UnfreeFacts
<1>3. \A k \in 1 .. Len(unacked) : unacked[k].entry \in Entry /\ unacked[k].epoch \in Nat BY SentFields
<1>4. \A k \in 1 .. n : k \in 1 .. Len(unacked) OBVIOUS
<1>5. \A e \in Entry : e \in S => rng[e].events = <<>>
  <2>1. ASSUME NEW e \in Entry, e \in S, rng[e].events # <<>> PROVE FALSE
    <3>1. PICK k \in 1 .. n : unacked[k].entry = e BY <2>1 DEF Entries
    <3>2. rng[e].epoch = unacked[k].epoch /\ acked < rng[e].epoch BY <1>4, <2>1, <3>1 DEF RingInv
    <3>3. unacked[k].epoch <= acked /\ unacked[k].epoch \in Nat BY <1>3, <1>4
    <3> QED BY <3>2, <3>3
  <2> QED BY <2>1
<1>6. \A e \in Entry : left[e].events = rng[e].events BY <1>2, <1>5
<1>7. \A e \in Entry : left[e].events # <<>> => left[e] = rng[e] BY <1>2
<1>8. PICK u \in Seq(Sent) : u = Behind(unacked, n) BY Cut
<1>9. Len(u) = Len(unacked) - n /\ \A k \in 1 .. Len(unacked) - n : u[k] = unacked[n + k] BY <1>8, Cut
<1>10. \A k \in 1 .. Len(u) : n + k \in 1 .. Len(unacked) /\ u[k] = unacked[n + k]
  <2>1. ASSUME NEW k \in 1 .. Len(u) PROVE n + k \in 1 .. Len(unacked) /\ u[k] = unacked[n + k]
    <3>1. n + k \in 1 .. Len(unacked) BY <1>9
    <3> QED BY <1>9, <3>1
  <2> QED BY <2>1
<1>11. \A j, k \in 1 .. Len(u) : j < k => u[j].epoch < u[k].epoch
  <2>1. ASSUME NEW j \in 1 .. Len(u), NEW k \in 1 .. Len(u), j < k PROVE u[j].epoch < u[k].epoch
    <3>1. n + j < n + k BY <2>1
    <3>2. \A i, l \in 1 .. Len(unacked) : i < l => unacked[i].epoch < unacked[l].epoch
      BY Zenon DEF RingInv
    <3>3. n + j \in 1 .. Len(unacked) /\ n + k \in 1 .. Len(unacked) BY <1>10
    <3>4. unacked[n + j].epoch < unacked[n + k].epoch BY <3>1, <3>2, <3>3, Zenon
    <3> QED BY <1>10, <3>4, Zenon
  <2> QED BY <2>1
<1>12. ASSUME NEW k \in 1 .. Len(u) PROVE u[k].epoch <= published /\ left[u[k].entry].epoch = u[k].epoch
  <2>1. n + k \in 1 .. Len(unacked) /\ u[k] = unacked[n + k] BY <1>10
  <2>2. u[k].epoch <= published /\ rng[u[k].entry].epoch = u[k].epoch BY <2>1 DEF RingInv
  <2>3. u[k].entry \notin S
    <3>1. ASSUME NEW j \in 1 .. n, unacked[j].entry = u[k].entry PROVE FALSE
      <4>1. rng[unacked[j].entry].epoch = unacked[j].epoch BY <1>4 DEF RingInv
      <4>2. j < n + k /\ j \in 1 .. Len(unacked) BY <1>4, <2>1
      <4>3. unacked[j].epoch < unacked[n + k].epoch BY <2>1, <4>2 DEF RingInv
      <4>4. unacked[j].epoch \in Nat /\ unacked[j].epoch = unacked[n + k].epoch
        BY <1>3, <2>1, <2>2, <3>1, <4>1, <4>2
      <4> QED BY <4>3, <4>4
    <3> QED BY <3>1 DEF Entries
  <2>4. u[k].entry \in Entry BY <1>3, <2>1
  <2> QED BY <1>2, <2>2, <2>3, <2>4
<1>13. ASSUME NEW e \in Entry, left[e].events # <<>>
       PROVE  /\ \E k \in 1 .. Len(queue) :
                   queue[k].entry = e /\ queue[k].epoch = left[e].epoch /\ queue[k].kind = left[e].kind
              /\ acked < left[e].epoch /\ \E k \in 1 .. Len(u) : u[k].entry = e
  <2>1. left[e] = rng[e] BY <1>7, <1>13
  <2>2. \E k \in 1 .. Len(queue) :
          queue[k].entry = e /\ queue[k].epoch = rng[e].epoch /\ queue[k].kind = rng[e].kind
    BY <1>13, <2>1 DEF RingInv
  <2>3. acked < rng[e].epoch /\ \E k \in 1 .. Len(unacked) : unacked[k].entry = e
    BY <1>13, <2>1 DEF RingInv
  <2>4. PICK j \in 1 .. Len(unacked) : unacked[j].entry = e BY <2>3
  <2>5. e \notin S BY <1>2, <1>13
  <2>6. j \notin 1 .. n BY <2>4, <2>5 DEF Entries
  <2>7. j - n \in 1 .. Len(u) /\ n + (j - n) = j BY <1>9, <2>6
  <2>8. u[j - n] = unacked[j] BY <1>10, <2>7
  <2> QED BY <2>1, <2>2, <2>3, <2>4, <2>7, <2>8
<1>14. /\ acked <= published /\ ack <= published
       /\ \A j, k \in 1 .. Len(queue) : j < k => queue[j].epoch < queue[k].epoch
       /\ \A k \in 1 .. Len(queue) : queue[k].epoch <= published /\ ack < queue[k].epoch
  BY DEF RingInv
<1>15. RingInv(u, left, published, acked, queue, ack, FALSE)
  BY <1>11, <1>12, <1>13, <1>14 DEF RingInv
<1>16. \A e \in Entry : left[e].events # <<>> => left[e].epoch = rng[e].epoch BY <1>7
<1> QED BY <1>6, <1>8, <1>15, <1>16

(* The target is gone: nothing is held and the floor is at what was posted.*)
LEMMA RingLose ==
  ASSUME NEW unacked \in Seq(Sent), NEW rng \in [Entry -> Held], NEW published \in Nat,
         NEW acked \in Nat, NEW queue \in Seq(Posted), NEW ack \in Nat,
         RingInv(unacked, rng, published, acked, queue, ack, FALSE),
         NEW S, Entries(unacked, Len(unacked), S),
         NEW left, left = Unfree(rng, S)
  PROVE  /\ left \in [Entry -> Held] /\ \A e \in Entry : left[e].events = <<>>
         /\ RingInv(<<>>, left, published, published, queue, ack, FALSE)
<1>2. /\ left \in [Entry -> Held] /\ \A e \in Entry : e \in S => left[e].events = <<>>
      /\ \A e \in Entry : e \notin S => left[e] = rng[e]
  BY UnfreeFacts
<1>3. \A e \in Entry : e \notin S => rng[e].events = <<>>
  <2>1. ASSUME NEW e \in Entry, rng[e].events # <<>> PROVE e \in S
    <3>1. PICK k \in 1 .. Len(unacked) : unacked[k].entry = e BY <2>1 DEF RingInv
    <3> QED BY <3>1 DEF Entries
  <2> QED BY <2>1
<1>4. \A e \in Entry : left[e].events = <<>> BY <1>2, <1>3
<1>5. \A k \in 1 .. Len(<<>>) : FALSE OBVIOUS
<1>6. /\ \A j, k \in 1 .. Len(queue) : j < k => queue[j].epoch < queue[k].epoch
      /\ \A k \in 1 .. Len(queue) : queue[k].epoch <= published /\ ack < queue[k].epoch
      /\ ack <= published
  BY DEF RingInv
<1>7. published <= published OBVIOUS
<1>8. RingInv(<<>>, left, published, published, queue, ack, FALSE)
  BY <1>4, <1>5, <1>6, <1>7 DEF RingInv
<1> QED BY <1>2, <1>4, <1>8

(* The host takes the oldest batch: the one whose epoch it will            *)
(* acknowledge, or one of an earlier target.                               *)
LEMMA RingTake ==
  ASSUME NEW unacked \in Seq(Sent), NEW rng \in [Entry -> Held], NEW published \in Nat,
         NEW acked \in Nat, NEW queue \in Seq(Posted), NEW ack \in Nat, NEW off,
         RingInv(unacked, rng, published, acked, queue, ack, off), queue # <<>>,
         NEW left \in [Entry -> Held], NEW later \in {0, Head(queue).epoch},
         \A e \in Entry : left[e].epoch = rng[e].epoch /\ left[e].kind = rng[e].kind,
         \A e \in Entry : left[e].events = <<>> \/ left[e].events = rng[e].events,
         \A e \in Entry : Head(queue).entry = e /\ Head(queue).epoch = rng[e].epoch
                          /\ Head(queue).kind = rng[e].kind => left[e].events = <<>>
  PROVE  RingInv(unacked, left, published, acked, Tail(queue), later, off)
<1>1. PICK t \in Seq(Posted) : t = Tail(queue)
  <2>1. Tail(queue) \in Seq(Posted) OBVIOUS
  <2> QED BY <2>1, Zenon
<1>2. Len(t) = Len(queue) - 1 /\ \A k \in 1 .. Len(t) : k + 1 \in 1 .. Len(queue) /\ t[k] = queue[k + 1]
  BY <1>1
<1>3. Head(queue) = queue[1] /\ 1 \in 1 .. Len(queue) OBVIOUS
<1>4. \A k \in 1 .. Len(queue) :
        queue[k].epoch <= published /\ ack < queue[k].epoch /\ queue[k].epoch \in Nat
  BY PostedFields DEF RingInv
<1>5. \A j, k \in 1 .. Len(t) : j < k => t[j].epoch < t[k].epoch
  <2>1. ASSUME NEW j \in 1 .. Len(t), NEW k \in 1 .. Len(t), j < k PROVE t[j].epoch < t[k].epoch
    <3>1. j + 1 < k + 1 BY <2>1
    <3>2. \A i, l \in 1 .. Len(queue) : i < l => queue[i].epoch < queue[l].epoch
      BY Zenon DEF RingInv
    <3>3. j + 1 \in 1 .. Len(queue) /\ k + 1 \in 1 .. Len(queue) BY <1>2
    <3>4. queue[j + 1].epoch < queue[k + 1].epoch BY <3>1, <3>2, <3>3, Zenon
    <3> QED BY <1>2, <3>4, Zenon
  <2> QED BY <2>1
<1>6. \A k \in 1 .. Len(t) : t[k].epoch <= published /\ later < t[k].epoch
  <2>1. ASSUME NEW k \in 1 .. Len(t) PROVE t[k].epoch <= published /\ later < t[k].epoch
    <3>1. k + 1 \in 1 .. Len(queue) /\ t[k] = queue[k + 1] /\ 1 < k + 1 BY <1>2
    <3>2. queue[1].epoch < queue[k + 1].epoch BY <1>3, <3>1 DEF RingInv
    <3>3. queue[k + 1].epoch <= published /\ queue[k + 1].epoch \in Nat /\ 0 < queue[k + 1].epoch
      BY <1>4, <3>1
    <3> QED BY <1>3, <3>1, <3>2, <3>3
  <2> QED BY <2>1
<1>7. ASSUME NEW e \in Entry, left[e].events # <<>>
      PROVE  \E k \in 1 .. Len(t) :
               t[k].entry = e /\ t[k].epoch = left[e].epoch /\ t[k].kind = left[e].kind
  <2>1. rng[e].events # <<>> BY <1>7
  <2>2. PICK k \in 1 .. Len(queue) :
          queue[k].entry = e /\ queue[k].epoch = rng[e].epoch /\ queue[k].kind = rng[e].kind
    BY <2>1 DEF RingInv
  <2>3. k # 1 BY <1>3, <1>7, <2>2
  <2>4. PICK j \in 1 .. Len(t) : k = j + 1
    <3>1. k - 1 \in 1 .. Len(t) /\ k = (k - 1) + 1 BY <1>2, <2>3
    <3> QED BY <3>1
  <2>5. t[j] = queue[k] BY <1>2, <2>4
  <2> QED BY <2>2, <2>5
<1>8. /\ acked <= published
      /\ \A j, k \in 1 .. Len(unacked) : j < k => unacked[j].epoch < unacked[k].epoch
      /\ \A k \in 1 .. Len(unacked) : unacked[k].epoch <= published
  BY DEF RingInv
<1>9. ~off => \A k \in 1 .. Len(unacked) : left[unacked[k].entry].epoch = unacked[k].epoch
  BY SentFields DEF RingInv
<1>10. ~off => \A e \in Entry : left[e].events # <<>> =>
         acked < left[e].epoch /\ \E k \in 1 .. Len(unacked) : unacked[k].entry = e
  BY DEF RingInv
<1>11. later <= published BY <1>3, <1>4
<1>12. RingInv(unacked, left, published, acked, t, later, off)
  BY <1>11, <1>5, <1>6, <1>7, <1>8, <1>9, <1>10 DEF RingInv
<1> QED BY <1>1, <1>12

(* The host acknowledges a batch it took.                                  *)
LEMMA RingAck ==
  ASSUME NEW unacked \in Seq(Sent), NEW rng \in [Entry -> Held], NEW published \in Nat,
         NEW acked \in Nat, NEW queue \in Seq(Posted), NEW ack \in Nat, NEW off,
         RingInv(unacked, rng, published, acked, queue, ack, off),
         NEW floor \in Nat, floor = acked \/ (floor = ack /\ ack <= published)
  PROVE  RingInv(unacked, rng, published, floor, queue, 0, off)
<1>1. floor <= published /\ 0 <= published BY DEF RingInv
<1>2. \A k \in 1 .. Len(queue) :
        queue[k].epoch <= published /\ ack < queue[k].epoch /\ queue[k].epoch \in Nat
  BY PostedFields DEF RingInv
<1>3. \A k \in 1 .. Len(queue) : queue[k].epoch <= published /\ 0 < queue[k].epoch
  <2>1. ASSUME NEW k \in 1 .. Len(queue) PROVE queue[k].epoch <= published /\ 0 < queue[k].epoch
    BY <1>2
  <2> QED BY <2>1
<1>4. \A e \in Entry : rng[e].events # <<>> => ack < rng[e].epoch BY <1>2 DEF RingInv
<1>5. ~off => \A e \in Entry : rng[e].events # <<>> =>
         floor < rng[e].epoch /\ \E k \in 1 .. Len(unacked) : unacked[k].entry = e
  BY <1>4 DEF RingInv
<1> QED BY <1>1, <1>3, <1>5 DEF RingInv

-----------------------------------------------------------------------------
(* The operations on the records.                                          *)

(* The fields of a dispatcher, and what replacing its queue leaves alone.  *)
LEMMA DispFields ==
  ASSUME NEW d \in Dispatcher
  PROVE  /\ d.events \in Seq(Event) /\ d.ready \in Nat /\ d.unacked \in Seq(Sent) /\ d.target \in Nat
         /\ d.full \in BOOLEAN /\ d.retry \in {"none", "set", "due"} /\ d.prefer \in BOOLEAN
         /\ d.draining \in BOOLEAN /\ d.connections \in Nat /\ Len(d.events) \in Nat
BY DEF Dispatcher

(* Every field but the queue.                                              *)
SameBut(d, e) ==
  /\ e.ready = d.ready /\ e.unacked = d.unacked /\ e.target = d.target /\ e.full = d.full
  /\ e.retry = d.retry /\ e.prefer = d.prefer /\ e.draining = d.draining
  /\ e.connections = d.connections

(* Replacing the queue of a dispatcher.                                    *)
LEMMA DispPush ==
  ASSUME NEW d \in Dispatcher, NEW s \in Seq(Event), NEW e, e = [d EXCEPT !.events = s]
  PROVE  e \in Dispatcher /\ e.events = s /\ SameBut(d, e)
<1>1. e \in Dispatcher BY DEF Dispatcher
<1>2. e.events = s BY DEF Dispatcher
<1>3. SameBut(d, e) BY DEF Dispatcher, SameBut
<1> QED BY <1>1, <1>2, <1>3

(* Taking events into the ledger.                                          *)
TookOpen(l, over, b) == [took(l, over) EXCEPT !.open = @ /\ b]
Counts(l, over, m) ==
  /\ m \in Ledger /\ m.pushed = l.pushed + Len(over)
  /\ m.pushed_octets = l.pushed_octets + OctetsOf(over) /\ m.posted = l.posted
  /\ m.marks = l.marks /\ m.acked = l.acked /\ m.acked_octets = l.acked_octets
(* What that changes.                                                      *)
LEMMA TookFacts ==
  ASSUME NEW l \in Ledger, NEW over \in Seq(Event), NEW b \in BOOLEAN
  PROVE  Counts(l, over, TookOpen(l, over, b))
<1> DEFINE m == TookOpen(l, over, b)
<1>1. PICK x \in Nat : x = l.pushed + Len(over)
  <2>1. l.pushed + Len(over) \in Nat BY DEF Ledger
  <2> QED BY <2>1
<1>2. PICK y \in Nat : y = l.pushed_octets + OctetsOf(over)
  <2>1. l.pushed_octets \in Nat /\ OctetsOf(over) \in Nat BY LedgerFields, OctetsCover
  <2>2. l.pushed_octets + OctetsOf(over) \in Nat BY <2>1
  <2> QED BY <2>2
<1>3. PICK t : t = [l EXCEPT !.pushed = x, !.pushed_octets = y] OBVIOUS
<1>4. t = took(l, over) BY <1>1, <1>2, <1>3 DEF took
<1>5. t \in Ledger /\ t.pushed = x /\ t.pushed_octets = y /\ t.posted = l.posted /\ t.marks = l.marks
      /\ t.acked = l.acked /\ t.acked_octets = l.acked_octets /\ t.open \in BOOLEAN
  BY <1>3 DEF Ledger
<1>6. PICK o \in BOOLEAN : o = (t.open /\ b) OBVIOUS
<1>7. m = [t EXCEPT !.open = o] BY <1>4, <1>6 DEF TookOpen
<1>8. m \in Ledger /\ m.pushed = t.pushed /\ m.pushed_octets = t.pushed_octets /\ m.posted = t.posted
      /\ m.marks = t.marks /\ m.acked = t.acked /\ m.acked_octets = t.acked_octets
  BY <1>5, <1>7 DEF Ledger
<1> QED BY <1>1, <1>2, <1>5, <1>8 DEF Counts

(* The queue's bound is a number.                                          *)
LEMMA QueueBoundNat == QueueBound \in Nat
<1>1. Queued \in Nat /\ Batch \in Nat BY FlowAssumption
<1>2. \A x, y \in Nat : x * y \in Nat OBVIOUS
<1> QED BY <1>1, <1>2 DEF QueueBound

(* Pushing none is pushing nothing.                                        *)
LEMMA PushNone ==
  ASSUME NEW q \in Seq(Event), NEW ev \in Seq(Event), NEW from \in Nat
  PROVE  Pushing(ev, 0, from) = <<>> /\ q \o Pushing(ev, 0, from) = q /\ Behind(ev, 0) = ev
         /\ Range(Pushing(ev, 0, from)) = {} /\ OctetsOf(Pushing(ev, 0, from)) = 0
<1>1. 0 \in 0 .. Len(ev) OBVIOUS
<1>2. Pushing(ev, 0, from) \in Seq(Event) /\ Len(Pushing(ev, 0, from)) = 0 BY <1>1, PushingFacts
<1>3. Pushing(ev, 0, from) = <<>> BY <1>2, EmptySeq
<1>4. q \o <<>> = q OBVIOUS
<1>5. Behind(ev, 0) = ev BY DEF Behind
<1>6. Range(<<>>) = {} BY DEF Range
<1>7. OctetsOf(<<>>) = 0
  <2>1. {k \in DOMAIN <<>> : <<>>[k].kind = "message"} = {} OBVIOUS
  <2> QED BY <2>1, FS_EmptySet DEF OctetsOf
<1> QED BY <1>3, <1>4, <1>5, <1>6, <1>7

(* What replacing the events and the numbers of a connection leaves alone. *)
SameTask(p, q) ==
  q.life = p.life /\ q.said = p.said /\ q.wait = p.wait /\ q.task = p.task /\ q.woken = p.woken

(* What a flush does: nothing but drop with no target, or the first n.     *)
Handed(p, d, l, f, n) ==
  /\ f.d.events = d.events \o Pushing(p.held, n, l.pushed) /\ Len(d.events) + n <= QueueBound
  /\ f.l.pushed = l.pushed + n
  /\ f.l.pushed_octets = l.pushed_octets + OctetsOf(Pushing(p.held, n, l.pushed))
  /\ f.p.held = Behind(p.held, n)
  /\ f.p.sequences = p.sequences \o [k \in 1 .. n |-> l.pushed + k]
Flushed(p, d, l, f) ==
  /\ f.p \in Connection /\ f.d \in Dispatcher /\ f.l \in Ledger
  /\ SameBut(d, f.d) /\ SameTask(p, f.p)
  /\ f.l.posted = l.posted /\ f.l.marks = l.marks /\ f.l.acked = l.acked
  /\ f.l.acked_octets = l.acked_octets
  /\ Drops(p, d) => f.d = d /\ f.l = l /\ f.p.held = <<>> /\ f.p.sequences = p.sequences
  /\ ~Drops(p, d) => \E n \in 0 .. Len(p.held) : Handed(p, d, l, f, n)

(* Replacing the events and the numbers of a connection.                   *)
WithEvents(p, h, s) == [p EXCEPT !.held = h, !.sequences = s]
HasEvents(p, h, s, q) == q \in Connection /\ q.held = h /\ q.sequences = s /\ SameTask(p, q)
(* What that leaves.                                                       *)
LEMMA ConPush ==
  ASSUME NEW p \in Connection, NEW h \in Seq(Event), NEW s \in Seq(Nat)
  PROVE  HasEvents(p, h, s, WithEvents(p, h, s))
<1> DEFINE q == WithEvents(p, h, s)
<1>1. q \in Connection BY DEF Connection, WithEvents
<1>2. q.held = h /\ q.sequences = s BY DEF Connection, WithEvents
<1>3. SameTask(p, q) BY DEF Connection, SameTask, WithEvents
<1> QED BY <1>1, <1>2, <1>3 DEF HasEvents

(* Numbers that follow one another.                                        *)
LEMMA Numbers ==
  ASSUME NEW s \in Seq(Nat), NEW n \in Nat, NEW from \in Nat
  PROVE  s \o [k \in 1 .. n |-> from + k] \in Seq(Nat)
<1>1. PICK t : t = [k \in 1 .. n |-> from + k] OBVIOUS
<1>2. t \in [1 .. n -> Nat] BY <1>1
<1>3. t \in Seq(Nat) BY <1>2, IsASeq
<1>4. s \o t \in Seq(Nat) BY <1>3
<1> QED BY <1>1, <1>4

(* Pending::flush.                                                         *)
LEMMA FlushFacts ==
  ASSUME NEW p \in Connection, NEW d \in Dispatcher, NEW l \in Ledger, Len(d.events) <= QueueBound,
         NEW f, f = flush(p, d, l)
  PROVE  Flushed(p, d, l, f) /\ f.took \in BOOLEAN
<1>1. PICK h \in Seq(Event) : h = p.held BY ConFields
<1>2. PICK s \in Seq(Nat) : s = p.sequences BY ConFields
<1>3. PICK q \in Seq(Event) : q = d.events BY DispFields
<1>4. PICK x \in Nat : x = l.pushed BY LedgerFields
<1>5. 0 \in 0 .. Len(h) /\ Len(q) \in Nat OBVIOUS
<1>6. SameTask(p, p) /\ SameBut(d, d) BY DEF SameTask, SameBut
<1>7. CASE h = <<>>
  <2>1. f = [p |-> p, d |-> d, l |-> l, took |-> FALSE] BY <1>1, <1>7 DEF flush
  <2>2. f.p = p /\ f.d = d /\ f.l = l /\ f.took = FALSE BY <2>1
  <2>3. ~Drops(p, d) BY <1>1, <1>7 DEF Drops
  <2>4. PICK none : none = Pushing(h, 0, x) OBVIOUS
  <2>5. q \o none = q /\ Behind(h, 0) = h /\ OctetsOf(none) = 0 BY <1>5, <2>4, PushNone
  <2>6. [k \in 1 .. 0 |-> x + k] = <<>> OBVIOUS
  <2>7. s \o <<>> = s OBVIOUS
  <2>8. Len(q) + 0 <= QueueBound BY <1>3
  <2>9. x + 0 = x /\ l.pushed_octets + 0 = l.pushed_octets BY LedgerFields
  <2>10. Handed(p, d, l, f, 0)
    BY <1>1, <1>2, <1>3, <1>4, <2>2, <2>4, <2>5, <2>6, <2>7, <2>8, <2>9, Zenon DEF Handed
  <2> QED BY <1>1, <1>5, <1>6, <2>2, <2>3, <2>10, Zenon DEF Flushed
<1>8. CASE h # <<>> /\ ~HasTarget(d)
  <2>1. f = [p |-> [p EXCEPT !.held = <<>>], d |-> d, l |-> l, took |-> FALSE] BY <1>1, <1>8 DEF flush
  <2>2. f.p = [p EXCEPT !.held = <<>>] /\ f.d = d /\ f.l = l /\ f.took = FALSE BY <2>1
  <2>3. Drops(p, d) BY <1>1, <1>8 DEF Drops
  <2>4. [p EXCEPT !.held = <<>>] = [p EXCEPT !.held = <<>>, !.sequences = s] BY <1>2 DEF Connection
  <2>5. <<>> \in Seq(Event) OBVIOUS
  <2>6. f.p \in Connection /\ f.p.held = <<>> /\ f.p.sequences = s /\ SameTask(p, f.p)
    <3>1. PICK fp : fp = f.p OBVIOUS
    <3>2. fp = WithEvents(p, <<>>, s) BY <2>2, <2>4, <3>1 DEF WithEvents
    <3>3. HasEvents(p, <<>>, s, WithEvents(p, <<>>, s)) BY <2>5, ConPush
    <3> QED BY <3>1, <3>2, <3>3, Zenon DEF HasEvents
  <2> QED BY <1>2, <1>6, <2>2, <2>3, <2>6, Zenon DEF Flushed
<1>9. CASE h # <<>> /\ HasTarget(d)
  <2>1. PICK n : n = Taking(p, d) OBVIOUS
  <2>2. n \in 0 .. Len(h) /\ Len(q) + n <= QueueBound
    <3>1. PICK bound \in Nat : bound = QueueBound BY QueueBoundNat
    <3>2. n = IF bound - Len(q) >= Len(h) THEN Len(h) ELSE bound - Len(q)
      BY <1>1, <1>3, <2>1, <3>1, Zenon DEF Taking, Room
    <3>3. Len(q) <= bound BY <1>3, <3>1
    <3>4. n \in 0 .. Len(h) /\ Len(q) + n <= bound BY <1>5, <3>2, <3>3
    <3> QED BY <3>1, <3>4
  <2>3. PICK over \in Seq(Event) : over = Pushing(h, n, x) BY <2>2, PushingFacts
  <2>4. Len(over) = n BY <2>2, <2>3, PushingFacts
  <2>5. over = Numbered(SubSeq(p.held, 1, n), l.pushed) BY <1>1, <1>4, <2>3 DEF Pushing
  <2>6. PICK b \in BOOLEAN : b = (n = Len(p.held)) OBVIOUS
  <2>7. f = [p |-> [p EXCEPT !.held = Behind(@, n),
                              !.sequences = @ \o [k \in 1 .. n |-> l.pushed + k]],
             d |-> [d EXCEPT !.events = @ \o over],
             l |-> [took(l, over) EXCEPT !.open = @ /\ n = Len(p.held)],
             took |-> n > 0]
    BY <1>1, <1>9, <2>1, <2>5, Zenon DEF flush
  <2>8. /\ f.p = [p EXCEPT !.held = Behind(@, n), !.sequences = @ \o [k \in 1 .. n |-> l.pushed + k]]
        /\ f.d = [d EXCEPT !.events = @ \o over]
        /\ f.l = [took(l, over) EXCEPT !.open = @ /\ n = Len(p.held)]
        /\ f.took = (n > 0)
    BY <2>7
  <2>9. PICK left \in Seq(Event) : left = Behind(h, n) BY <2>2, Cut
  <2>10. PICK t \in Seq(Nat) : t = s \o [k \in 1 .. n |-> x + k]
    <3>1. n \in Nat BY <2>2
    <3>2. s \o [k \in 1 .. n |-> x + k] \in Seq(Nat) BY <3>1, Numbers
    <3> QED BY <3>2, Zenon
  <2>11. f.p = [p EXCEPT !.held = left, !.sequences = t] BY <1>1, <1>2, <1>4, <2>8, <2>9, <2>10
  <2>12. f.p \in Connection /\ f.p.held = left /\ f.p.sequences = t /\ SameTask(p, f.p)
    <3>1. PICK fp : fp = f.p OBVIOUS
    <3>2. fp = WithEvents(p, left, t) BY <2>11, <3>1, Zenon DEF WithEvents
    <3>3. HasEvents(p, left, t, WithEvents(p, left, t)) BY ConPush
    <3> QED BY <3>1, <3>2, <3>3, Zenon DEF HasEvents
  <2>13. PICK qo \in Seq(Event) : qo = q \o over
    <3>1. q \o over \in Seq(Event) OBVIOUS
    <3> QED BY <3>1, Zenon
  <2>14. f.d = [d EXCEPT !.events = qo] BY <1>3, <2>8, <2>13
  <2>15. f.d \in Dispatcher /\ f.d.events = qo /\ SameBut(d, f.d) BY <2>14, DispPush
  <2>16. f.l = TookOpen(l, over, b) BY <2>6, <2>8 DEF TookOpen
  <2>17. /\ f.l \in Ledger /\ f.l.pushed = l.pushed + Len(over)
         /\ f.l.pushed_octets = l.pushed_octets + OctetsOf(over) /\ f.l.posted = l.posted
         /\ f.l.marks = l.marks /\ f.l.acked = l.acked /\ f.l.acked_octets = l.acked_octets
    <3>1. Counts(l, over, TookOpen(l, over, b)) BY TookFacts, Zenon
    <3> QED BY <2>16, <3>1, Zenon DEF Counts
  <2>18. Handed(p, d, l, f, n)
    BY <1>1, <1>2, <1>3, <1>4, <2>2, <2>3, <2>4, <2>9, <2>10, <2>12, <2>13, <2>15, <2>17, Zenon DEF Handed
  <2>19. ~Drops(p, d) BY <1>9 DEF Drops
  <2>20. f.took \in BOOLEAN BY <2>8
  <2> QED BY <1>1, <2>2, <2>12, <2>15, <2>17, <2>18, <2>19, <2>20, Zenon DEF Flushed
<1> QED BY <1>7, <1>8, <1>9

(* Everything on the way was numbered.                                     *)
LEMMA SeqBelow ==
  ASSUME NEW queue \in Seq(Event), NEW rng \in [Entry -> Held], NEW pushed \in Nat,
         NEW published \in Nat, SeqInv(queue, rng, pushed, published), NEW a \in Way(queue, rng)
  PROVE  a.seq <= pushed
<1>1. CASE \E k \in 1 .. Len(queue) : queue[k] = a
  <2>1. PICK k \in 1 .. Len(queue) : queue[k] = a BY <1>1
  <2>2. a.seq = pushed - Len(queue) + k BY <2>1 DEF SeqInv
  <2> QED BY <2>2
<1>2. CASE \E e \in Entry : \E k \in 1 .. Len(rng[e].events) : rng[e].events[k] = a
  <2>1. PICK e \in Entry : \E k \in 1 .. Len(rng[e].events) : rng[e].events[k] = a BY <1>2
  <2>2. a.seq <= pushed - Len(queue) BY <2>1 DEF SeqInv
  <2>3. a.seq \in Nat BY WayFacts, EventFields
  <2> QED BY <2>2, <2>3
<1> QED BY <1>1, <1>2, WayFacts

(* A connection that is served has no close event waiting.                 *)
LEMMA NotClosing ==
  ASSUME NEW way, NEW r \in Seq(Event), NEW cn, NEW last, NEW gone,
         OrderInv(way, r, cn, last, gone), NEW c, cn[c].life # "over"
  PROVE  \A k \in 1 .. Len(r) : r[k].conn # c
BY DEF OrderInv, Closing

(* More connections may have lost events.                                  *)
LEMMA OrderMore ==
  ASSUME NEW way, way \subseteq Event, NEW r \in Seq(Event), NEW cn \in [Peer -> Connection],
         NEW last \in [Peer -> Nat], NEW gone, NEW more, OrderInv(way, r, cn, last, gone),
         gone \subseteq more
  PROVE  OrderInv(way, r, cn, last, more)
BY OrderShrink

(* What is on the way keeps its shape when a connection's task hands over  *)
(* what it holds, or drops it for want of a target.                        *)
LEMMA FlushKeeps ==
  ASSUME NEW d \in Dispatcher, NEW rng \in [Entry -> Held], NEW l \in Ledger, NEW r \in Seq(Event),
         NEW cn \in [Peer -> Connection], NEW last \in [Peer -> Nat], NEW gone,
         NEW published \in Nat, NEW off, Flow(d, rng, l, r, cn, last, gone, published, off),
         NEW c \in Peer, cn[c].life = "served", Reads(cn[c]) => ~Holding(cn[c]),
         NEW f, Flushed(cn[c], d, l, f), NEW next \in [Peer -> Connection], next[c] = f.p,
         \A x \in Peer : x # c => next[x] = cn[x],
         NEW more, gone \subseteq more, Drops(cn[c], d) => c \in more
  PROVE  Flow(f.d, rng, f.l, r, next, last, more, published, off)
<1>1. f.p \in Connection /\ f.d \in Dispatcher /\ f.l \in Ledger BY DEF Flushed
<1>2. next \in [Peer -> Connection] /\ next[c] = f.p /\ \A x \in Peer : x # c => next[x] = cn[x]
  BY <1>1
<1>3. PICK queue \in Seq(Event) : queue = d.events BY DispFields
<1>4. PICK way : way = Way(queue, rng) OBVIOUS
<1>5. way \subseteq Event /\ IsFiniteSet(way) BY <1>4, WayFacts
<1>6. /\ SeqInv(queue, rng, l.pushed, published) /\ OrderInv(way, r, cn, last, gone)
      /\ ~off => LedgerInv(queue, rng, l, published)
      /\ ~off => BoundInv(way, cn)
  BY <1>3, <1>4, Zenon DEF Flow
<1>7. SameTask(cn[c], f.p) /\ next[c].life = "served" /\ next[c].said = cn[c].said
      /\ next[c].task = cn[c].task /\ next[c].wait = cn[c].wait
  BY <1>2 DEF Flushed, SameTask
<1>8. \A k \in 1 .. Len(r) : r[k].conn # c BY <1>6, NotClosing
<1>9. l.pushed \in Nat BY LedgerFields
<1>10. cn[c] \in Connection /\ cn[c].held \in Seq(Event) /\ cn[c].said \in Nat BY ConFields
<1>11. \A k \in 1 .. Len(cn[c].held) : cn[c].held[k].conn = c BY <1>6 DEF OrderInv, HeldOrder
<1>12. CASE Drops(cn[c], d)
  <2>1. f.d = d /\ f.l = l /\ next[c].held = <<>> /\ next[c].sequences = cn[c].sequences
    BY <1>2, <1>12 DEF Flushed
  <2>2. c \in more BY <1>12
  <2>3. OrderInv(way, r, next, last, more)
    <3>1. Gone(next[c]) = cn[c].said BY <1>7, <1>10, <2>1, GoneEmpty
    <3>2. Gone(cn[c]) <= cn[c].said BY <1>10 DEF Gone
    <3>3. \A k \in 1 .. Len(next[c].held) : FALSE BY <2>1
    <3>4. PICK D : D = {c} OBVIOUS
    <3>5. D \in SUBSET Peer /\ gone \subseteq more /\ \A k \in 1 .. Len(r) : r[k].conn \notin D
      BY <1>8, <2>2, <3>4
    <3>6. \A x \in Peer \ D : SameOrder(cn[x], next[x]) BY <1>2, <3>4 DEF SameOrder
    <3>7. \A x \in D : Moves(cn[x], next[x], x, more)
      BY <1>7, <2>2, <3>1, <3>2, <3>3, <3>4 DEF Moves
    <3> QED BY <1>2, <1>5, <1>6, <3>5, <3>6, <3>7, OrderConn
  <2>4. ASSUME ~off PROVE BoundInv(way, next)
    <3>1. Bounded(way, cn[c], c) BY <1>6, <2>4, BoundParts
    <3>2. \A k \in 1 .. Len(next[c].held) : FALSE BY <2>1
    <3>3. ~Holding(next[c]) /\ ~HoldingMessage(next[c]) BY <3>2 DEF Holding, HoldingMessage
    <3>4. FromClient(way, c) \subseteq way BY DEF FromClient
    <3>5. Cardinality(FromClient(way, c)) \in Nat BY <1>5, <3>4, PartCard
    <3>6. MaxPending \in Nat BY FlowAssumption
    <3>7. Cardinality(FromClient(way, c)) + 0 <= MaxPending
      <4>1. PICK y \in Nat : y = Cardinality(FromClient(way, c)) BY <3>5
      <4>2. y + 0 <= MaxPending \/ y + 1 <= MaxPending BY <3>1, <4>1 DEF Bounded
      <4> QED BY <3>6, <4>1, <4>2
    <3>8. Bounded(way, next[c], c) BY <1>7, <2>1, <3>1, <3>2, <3>3, <3>7 DEF Bounded
    <3>9. Readers(next) \subseteq Readers(cn)
      <4>1. ASSUME NEW x \in Readers(next) PROVE x \in Readers(cn)
        <5>1. CASE x = c BY <1>7, <3>3, <4>1, <5>1 DEF Readers, Reads
        <5>2. CASE x # c BY <1>2, <4>1, <5>2 DEF Readers
        <5> QED BY <5>1, <5>2
      <4> QED BY <4>1
    <3>10. PICK D : D = {c} OBVIOUS
    <3>11. D \in SUBSET Peer /\ \A x \in D : Bounded(way, next[x], x) BY <3>8, <3>10
    <3>12. \A x \in Peer \ D : SameBound(cn[x], next[x]) BY <1>2, <3>10 DEF SameBound
    <3>13. BoundInv(way, cn) BY <1>6, <2>4
    <3> QED BY <1>5, <3>9, <3>11, <3>12, <3>13, BoundConn
  <2>5. Flow(d, rng, l, r, next, last, more, published, off)
    BY <1>3, <1>4, <1>6, <2>3, <2>4, Zenon DEF Flow
  <2> QED BY <1>2, <2>1, <2>5
<1>13. OrderInv(way, r, cn, last, more) BY <1>5, <1>6, OrderMore
<1>14. CASE ~Drops(cn[c], d)
  <2>1. PICK n \in 0 .. Len(cn[c].held) : Handed(cn[c], d, l, f, n) BY <1>14 DEF Flushed
  <2>2. PICK over \in Seq(Event) : over = Pushing(cn[c].held, n, l.pushed) BY <1>9, <1>10, PushingFacts
  <2>3. Len(over) = n /\ \A k \in 1 .. Len(over) : over[k].seq = l.pushed + k
    <3>1. PICK h \in Seq(Event) : h = cn[c].held BY <1>10
    <3>2. PICK x \in Nat : x = l.pushed BY <1>9
    <3>3. n \in 0 .. Len(h) /\ over = Pushing(h, n, x) BY <2>2, <3>1, <3>2
    <3>4. Len(over) = n /\ \A k \in 1 .. n : over[k].seq = x + k BY <3>3, PushingFacts
    <3> QED BY <3>2, <3>4
  <2>4. /\ f.d.events = queue \o over /\ Len(queue) + Len(over) <= QueueBound
        /\ f.l.pushed = l.pushed + Len(over)
        /\ f.l.pushed_octets = l.pushed_octets + OctetsOf(over)
        /\ next[c].held = Behind(cn[c].held, n)
        /\ next[c].sequences = cn[c].sequences \o [k \in 1 .. n |-> l.pushed + k]
    BY <1>2, <1>3, <2>1, <2>2, <2>3, Zenon DEF Handed
  <2>5. SeqInv(queue \o over, rng, l.pushed + Len(over), published) BY <1>6, <1>9, <2>3, <2>4, SeqPush
  <2>6. Way(queue \o over, rng) = way \cup Range(over) BY <1>4, WayPush, ZenonT(30)
  <2>7. \A a \in way : a.seq <= l.pushed BY <1>4, <1>6, <1>9, SeqBelow
  <2>8. OrderInv(way \cup Range(over), r, next, last, more)
    BY <1>2, <1>5, <1>7, <1>13, <1>9, <2>2, <2>4, <2>7, OrderPush
  <2>9. ASSUME ~off PROVE LedgerInv(queue \o over, rng, f.l, published)
    <3>1. LedgerInv(queue, rng, l, published) BY <1>6, <2>9
    <3>2. f.l.posted = l.posted /\ f.l.marks = l.marks /\ f.l.acked = l.acked
          /\ f.l.acked_octets = l.acked_octets
      BY DEF Flushed
    <3>3. PICK m \in Ledger : m = f.l BY <1>1
    <3>4. LedgerInv(queue \o over, rng, m, published) BY <2>3, <2>4, <3>1, <3>2, <3>3, LedgerPush
    <3> QED BY <3>3, <3>4
  <2>10. ASSUME ~off PROVE BoundInv(way \cup Range(over), next)
    <3>1. BoundInv(way, cn) BY <1>6, <2>10
    <3>2. Reads(next[c]) => Reads(cn[c]) BY <1>7 DEF Reads
    <3>3. Hands(cn[c], next[c], n, l.pushed) BY <1>7, <2>4, <3>2 DEF Hands
    <3>4. \A x \in Peer : x # c => next[x] = cn[x] BY <1>2
    <3>5. PICK x \in Nat : x = l.pushed BY <1>9
    <3>6. Hands(cn[c], next[c], n, x) BY <3>3, <3>5
    <3>7. PICK all : all = way \cup Range(Pushing(cn[c].held, n, x)) OBVIOUS
    <3>8. BoundInv(all, next) BY <1>2, <1>5, <1>11, <3>1, <3>4, <3>6, <3>7, BoundPush
    <3> QED BY <2>2, <3>5, <3>7, <3>8
  <2>11. Flow(f.d, rng, f.l, r, next, last, more, published, off)
    BY <2>4, <2>5, <2>6, <2>8, <2>9, <2>10 DEF Flow
  <2> QED BY <1>2, <2>11
<1> QED BY <1>12, <1>14

(* What posting the close events that wait does.                           *)
Closed(r, d, l, f, n) ==
  /\ f.d.events = d.events \o Pushing(r, n, l.pushed) /\ Len(d.events) + n <= QueueBound
  /\ f.l.pushed = l.pushed + n
  /\ f.l.pushed_octets = l.pushed_octets + OctetsOf(Pushing(r, n, l.pushed))
  /\ f.r = Behind(r, n) /\ f.took = (n > 0)
Posting(r, d, l, f) ==
  /\ f.r \in Seq(Event) /\ f.d \in Dispatcher /\ f.l \in Ledger /\ SameBut(d, f.d)
  /\ f.l.posted = l.posted /\ f.l.marks = l.marks /\ f.l.acked = l.acked
  /\ f.l.acked_octets = l.acked_octets
  /\ ~HasTarget(d) => f.r = <<>> /\ f.d = d /\ f.l = l /\ f.took = FALSE
  /\ HasTarget(d) => \E n \in 0 .. Len(r) : Closed(r, d, l, f, n)

(* Local::post_refused.                                                    *)
LEMMA PostRefusedFacts ==
  ASSUME NEW r \in Seq(Event), NEW d \in Dispatcher, NEW l \in Ledger, Len(d.events) <= QueueBound,
         NEW f, f = PostRefused(r, d, l)
  PROVE  Posting(r, d, l, f)
<1>1. PICK q \in Seq(Event) : q = d.events BY DispFields
<1>2. PICK x \in Nat : x = l.pushed BY LedgerFields
<1>3. SameBut(d, d) BY DEF SameBut
<1>4. Len(q) \in Nat /\ Len(r) \in Nat OBVIOUS
<1>5. CASE ~HasTarget(d)
  <2>1. f = [r |-> <<>>, d |-> d, l |-> l, took |-> FALSE] BY <1>5 DEF PostRefused
  <2>2. f.r = <<>> /\ f.d = d /\ f.l = l /\ f.took = FALSE BY <2>1
  <2>3. <<>> \in Seq(Event) OBVIOUS
  <2> QED BY <1>3, <1>5, <2>2, <2>3, Zenon DEF Posting
<1>6. CASE HasTarget(d)
  <2>1. PICK n : n = IF Room(d) >= Len(r) THEN Len(r) ELSE Room(d) OBVIOUS
  <2>2. n \in 0 .. Len(r) /\ Len(q) + n <= QueueBound
    <3>1. PICK bound \in Nat : bound = QueueBound BY QueueBoundNat
    <3>2. n = IF bound - Len(q) >= Len(r) THEN Len(r) ELSE bound - Len(q)
      BY <1>1, <2>1, <3>1, Zenon DEF Room
    <3>3. Len(q) <= bound BY <1>1, <3>1
    <3>4. n \in 0 .. Len(r) /\ Len(q) + n <= bound BY <1>4, <3>2, <3>3
    <3> QED BY <3>1, <3>4
  <2>3. PICK over \in Seq(Event) : over = Pushing(r, n, x) BY <2>2, PushingFacts
  <2>4. Len(over) = n BY <2>2, <2>3, PushingFacts
  <2>5. over = Numbered(SubSeq(r, 1, n), l.pushed) BY <1>2, <2>3 DEF Pushing
  <2>6. PICK b \in BOOLEAN : b = (n = Len(r)) OBVIOUS
  <2>7. f = [r |-> Behind(r, n), d |-> [d EXCEPT !.events = @ \o over],
             l |-> [took(l, over) EXCEPT !.open = @ /\ n = Len(r)], took |-> n > 0]
    BY <1>6, <2>1, <2>5, Zenon DEF PostRefused
  <2>8. /\ f.r = Behind(r, n)
        /\ f.d = [d EXCEPT !.events = @ \o over]
        /\ f.l = [took(l, over) EXCEPT !.open = @ /\ n = Len(r)]
        /\ f.took = (n > 0)
    BY <2>7
  <2>9. f.r \in Seq(Event) BY <2>2, <2>8, Cut
  <2>10. PICK qo \in Seq(Event) : qo = q \o over
    <3>1. q \o over \in Seq(Event) OBVIOUS
    <3> QED BY <3>1, Zenon
  <2>11. f.d = [d EXCEPT !.events = qo] BY <1>1, <2>8, <2>10
  <2>12. f.d \in Dispatcher /\ f.d.events = qo /\ SameBut(d, f.d) BY <2>11, DispPush
  <2>13. f.l = TookOpen(l, over, b) BY <2>6, <2>8 DEF TookOpen
  <2>14. /\ f.l \in Ledger /\ f.l.pushed = l.pushed + Len(over)
         /\ f.l.pushed_octets = l.pushed_octets + OctetsOf(over) /\ f.l.posted = l.posted
         /\ f.l.marks = l.marks /\ f.l.acked = l.acked /\ f.l.acked_octets = l.acked_octets
    <3>1. Counts(l, over, TookOpen(l, over, b)) BY TookFacts, Zenon
    <3> QED BY <2>13, <3>1, Zenon DEF Counts
  <2>15. Closed(r, d, l, f, n)
    BY <1>1, <1>2, <2>2, <2>3, <2>4, <2>8, <2>10, <2>12, <2>14, Zenon DEF Closed
  <2> QED BY <1>6, <2>2, <2>9, <2>12, <2>14, <2>15, Zenon DEF Posting
<1> QED BY <1>5, <1>6

(* Posting the close events that wait keeps what is on the way in shape.   *)
LEMMA PostKeeps ==
  ASSUME NEW d \in Dispatcher, NEW rng \in [Entry -> Held], NEW l \in Ledger, NEW r \in Seq(Event),
         NEW cn \in [Peer -> Connection], NEW last \in [Peer -> Nat], NEW gone,
         NEW published \in Nat, NEW off, Flow(d, rng, l, r, cn, last, gone, published, off),
         NEW f, Posting(r, d, l, f), NEW more, gone \subseteq more,
         ~HasTarget(d) => \A k \in 1 .. Len(r) : r[k].conn \in more
  PROVE  Flow(f.d, rng, f.l, f.r, cn, last, more, published, off)
<1>1. f.d \in Dispatcher /\ f.l \in Ledger BY DEF Posting
<1>2. PICK queue \in Seq(Event) : queue = d.events BY DispFields
<1>3. PICK way : way = Way(queue, rng) OBVIOUS
<1>4. way \subseteq Event /\ IsFiniteSet(way) BY <1>3, WayFacts
<1>5. /\ SeqInv(queue, rng, l.pushed, published) /\ OrderInv(way, r, cn, last, gone)
      /\ ~off => LedgerInv(queue, rng, l, published)
      /\ ~off => BoundInv(way, cn)
  BY <1>2, <1>3, Zenon DEF Flow
<1>6. PICK x \in Nat : x = l.pushed BY LedgerFields
<1>7. CASE ~HasTarget(d)
  <2>1. f.r = <<>> /\ f.d = d /\ f.l = l BY <1>7 DEF Posting
  <2>2. OrderInv(way, <<>>, cn, last, more) BY <1>5, <1>7, OrderForget
  <2>3. Flow(d, rng, l, <<>>, cn, last, more, published, off) BY <1>2, <1>3, <1>5, <2>2, Zenon DEF Flow
  <2> QED BY <2>1, <2>3
<1>8. CASE HasTarget(d)
  <2>1. PICK n \in 0 .. Len(r) : Closed(r, d, l, f, n) BY <1>8 DEF Posting
  <2>2. PICK over \in Seq(Event) : over = Pushing(r, n, x) BY PushingFacts
  <2>3. Len(over) = n /\ \A k \in 1 .. n : /\ over[k].seq = x + k /\ over[k].conn = r[k].conn
                                           /\ over[k].kind = r[k].kind
    BY <2>2, PushingFacts
  <2>4. /\ f.d.events = queue \o over /\ Len(queue) + Len(over) <= QueueBound
        /\ f.l.pushed = l.pushed + Len(over)
        /\ f.l.pushed_octets = l.pushed_octets + OctetsOf(over)
        /\ f.r = Behind(r, n)
    BY <1>2, <1>6, <2>1, <2>2, <2>3, Zenon DEF Closed
  <2>5. SeqInv(queue \o over, rng, x + Len(over), published) BY <1>5, <1>6, <2>3, <2>4, SeqPush
  <2>6. Way(queue \o over, rng) = way \cup Range(over) BY <1>3, WayPush
  <2>7. \A a \in way : a.seq <= x BY <1>3, <1>5, <1>6, SeqBelow
  <2>8. OrderInv(way, r, cn, last, more) BY <1>4, <1>5, OrderMore
  <2>9. OrderInv(way \cup Range(over), f.r, cn, last, more)
    <3>1. OrderInv(way \cup Range(Pushing(r, n, x)), Behind(r, n), cn, last, more)
      BY <1>4, <2>7, <2>8, OrderPost, Zenon
    <3> QED BY <2>2, <2>4, <3>1, Zenon
  <2>10. ASSUME ~off PROVE LedgerInv(queue \o over, rng, f.l, published)
    <3>1. LedgerInv(queue, rng, l, published) BY <1>5, <2>10
    <3>2. f.l.posted = l.posted /\ f.l.marks = l.marks /\ f.l.acked = l.acked
          /\ f.l.acked_octets = l.acked_octets
      BY DEF Posting
    <3>3. PICK m \in Ledger : m = f.l BY <1>1
    <3>4. \A k \in 1 .. Len(over) : over[k].seq = l.pushed + k BY <1>6, <2>3
    <3>5. LedgerInv(queue \o over, rng, m, published) BY <2>4, <3>1, <3>2, <3>3, <3>4, LedgerPush
    <3> QED BY <3>3, <3>5
  <2>11. ASSUME ~off PROVE BoundInv(way \cup Range(over), cn)
    <3>1. BoundInv(way, cn) BY <1>5, <2>11
    <3>2. \A k \in 1 .. Len(over) : over[k].kind = "close" /\ cn[over[k].conn].life # "served"
      <4>1. ASSUME NEW k \in 1 .. Len(over)
            PROVE  over[k].kind = "close" /\ cn[over[k].conn].life # "served"
        <5>1. k \in 1 .. Len(r) BY <2>3
        <5>2. r[k].kind = "close" /\ cn[r[k].conn].life = "over" BY <1>5, <5>1 DEF OrderInv, Closing
        <5> QED BY <2>3, <5>2
      <4> QED BY <4>1
    <3> QED BY <3>1, <3>2, BoundPost
  <2>12. Flow(f.d, rng, f.l, f.r, cn, last, more, published, off)
    BY <1>6, <2>4, <2>5, <2>6, <2>9, <2>10, <2>11 DEF Flow
  <2> QED BY <2>12
<1> QED BY <1>7, <1>8
-----------------------------------------------------------------------------
(***************************************************************************)
(* Every step of the connection tasks, of the dispatcher's turn, of time   *)
(* and of the host keeps the invariant, and what the properties of the way *)
(* of events say follows from it.                                          *)
(***************************************************************************)

(* Flow speaks of the queue and of what the ledger counts.                 *)
SameLedger(l, m) ==
  /\ m.pushed = l.pushed /\ m.pushed_octets = l.pushed_octets /\ m.posted = l.posted
  /\ m.marks = l.marks /\ m.acked = l.acked /\ m.acked_octets = l.acked_octets

(* The rest of the dispatcher and of the ledger may change.                *)
LEMMA FlowRest ==
  ASSUME NEW d, NEW e, NEW rng, NEW l, NEW m, NEW r, NEW cn, NEW last, NEW gone, NEW published,
         NEW off, Flow(d, rng, l, r, cn, last, gone, published, off), e.events = d.events,
         SameLedger(l, m)
  PROVE  Flow(e, rng, m, r, cn, last, gone, published, off)
<1>1. ASSUME ~off PROVE LedgerInv(e.events, rng, m, published)
  <2>1. LedgerInv(d.events, rng, l, published) BY <1>1 DEF Flow
  <2> QED BY <2>1 DEF LedgerInv, SameLedger
<1>2. SeqInv(e.events, rng, m.pushed, published) BY DEF Flow, SameLedger
<1>3. OrderInv(Way(e.events, rng), r, cn, last, gone) BY DEF Flow
<1>4. ~off => BoundInv(Way(e.events, rng), cn) BY DEF Flow
<1> QED BY <1>1, <1>2, <1>3, <1>4, Zenon DEF Flow

(* Connections change, nothing on the way does.                            *)
LEMMA FlowConn ==
  ASSUME NEW d \in Dispatcher, NEW rng \in [Entry -> Held], NEW l, NEW r \in Seq(Event),
         NEW cn \in [Peer -> Connection], NEW next \in [Peer -> Connection],
         NEW last \in [Peer -> Nat], NEW gone, NEW more, gone \subseteq more, NEW published, NEW off,
         Flow(d, rng, l, r, cn, last, gone, published, off),
         NEW D \in SUBSET Peer, \A k \in 1 .. Len(r) : r[k].conn \notin D,
         \A x \in Peer \ D : SameOrder(cn[x], next[x]) /\ SameBound(cn[x], next[x]),
         \A x \in D : Moves(cn[x], next[x], x, more),
         ~off => \A x \in D : Bounded(Way(d.events, rng), next[x], x),
         ~off => \/ Readers(next) \subseteq Readers(cn)
                 \/ Cardinality(Messages(Way(d.events, rng))) <= HalfBudget
  PROVE  Flow(d, rng, l, r, next, last, more, published, off)
<1>1. PICK way : way = Way(d.events, rng) OBVIOUS
<1>2. way \subseteq Event /\ IsFiniteSet(way) BY <1>1, DispFields, WayFacts
<1>3. OrderInv(way, r, cn, last, gone) BY <1>1 DEF Flow
<1>4. OrderInv(way, r, next, last, more) BY <1>2, <1>3, OrderConn
<1>5. ASSUME ~off PROVE BoundInv(way, next)
  <2>1. BoundInv(way, cn) BY <1>1, <1>5 DEF Flow
  <2>2. \A x \in D : Bounded(way, next[x], x) BY <1>1, <1>5
  <2>3. Readers(next) \subseteq Readers(cn) \/ Cardinality(Messages(way)) <= HalfBudget BY <1>1, <1>5
  <2>4. \A x \in Peer \ D : SameBound(cn[x], next[x]) OBVIOUS
  <2> QED BY <1>2, <2>1, <2>2, <2>3, <2>4, BoundConn
<1> QED BY <1>1, <1>4, <1>5, Zenon DEF Flow

(* One connection changes.                                                 *)
LEMMA FlowOne ==
  ASSUME NEW d \in Dispatcher, NEW rng \in [Entry -> Held], NEW l, NEW r \in Seq(Event),
         NEW cn \in [Peer -> Connection], NEW next \in [Peer -> Connection],
         NEW last \in [Peer -> Nat], NEW gone, NEW more, gone \subseteq more, NEW published, NEW off,
         Flow(d, rng, l, r, cn, last, gone, published, off),
         NEW c \in Peer, cn[c].life # "over", \A x \in Peer : x # c => next[x] = cn[x],
         Moves(cn[c], next[c], c, more),
         ~off => Bounded(Way(d.events, rng), next[c], c),
         ~off => \/ (Reads(next[c]) \/ HoldingMessage(next[c])) => (Reads(cn[c]) \/ HoldingMessage(cn[c]))
                 \/ Cardinality(Messages(Way(d.events, rng))) <= HalfBudget
  PROVE  Flow(d, rng, l, r, next, last, more, published, off)
<1>1. PICK D : D = {c} OBVIOUS
<1>2. OrderInv(Way(d.events, rng), r, cn, last, gone) BY DEF Flow
<1>3. \A k \in 1 .. Len(r) : r[k].conn \notin D BY <1>1, <1>2, NotClosing
<1>4. \A x \in Peer \ D : SameOrder(cn[x], next[x]) /\ SameBound(cn[x], next[x])
  BY <1>1 DEF SameOrder, SameBound
<1>5. \A x \in D : Moves(cn[x], next[x], x, more) BY <1>1
<1>6. ~off => \A x \in D : Bounded(Way(d.events, rng), next[x], x) BY <1>1
<1>7. ((Reads(next[c]) \/ HoldingMessage(next[c])) => (Reads(cn[c]) \/ HoldingMessage(cn[c])))
        => Readers(next) \subseteq Readers(cn)
  <2>1. ASSUME (Reads(next[c]) \/ HoldingMessage(next[c])) => (Reads(cn[c]) \/ HoldingMessage(cn[c])),
               NEW x \in Readers(next)
        PROVE  x \in Readers(cn)
    <3>1. CASE x = c BY <2>1, <3>1 DEF Readers
    <3>2. CASE x # c BY <2>1, <3>2 DEF Readers
    <3> QED BY <3>1, <3>2
  <2> QED BY <2>1
<1>8. D \in SUBSET Peer BY <1>1
<1>9. ~off => \/ Readers(next) \subseteq Readers(cn)
              \/ Cardinality(Messages(Way(d.events, rng))) <= HalfBudget
  BY <1>7
<1> QED BY <1>3, <1>4, <1>5, <1>6, <1>8, <1>9, FlowConn

(* The connections the dispatcher waits for.                               *)
LEMMA CountedFacts ==
  ASSUME NEW cn, NEW next, NEW c \in Peer, \A x \in Peer : x # c => next[x].life = cn[x].life
  PROVE  /\ Cardinality(Counted(cn)) \in Nat
         /\ (c \in Counted(next) <=> c \in Counted(cn)) => Counted(next) = Counted(cn)
         /\ c \in Counted(next) /\ c \notin Counted(cn) =>
              Cardinality(Counted(next)) = Cardinality(Counted(cn)) + 1
         /\ c \notin Counted(next) /\ c \in Counted(cn) =>
              Cardinality(Counted(cn)) # 0
              /\ Cardinality(Counted(next)) = Cardinality(Counted(cn)) - 1
<1>1. \A S : S \subseteq Peer => IsFiniteSet(S) /\ Cardinality(S) \in Nat
  BY FlowAssumption, FS_Subset, FS_CardinalityType
<1>2. Counted(cn) \subseteq Peer /\ Counted(next) \subseteq Peer BY DEF Counted
<1>3. \A x \in Peer : x # c => (x \in Counted(next) <=> x \in Counted(cn)) BY DEF Counted
<1>4. (c \in Counted(next) <=> c \in Counted(cn)) => Counted(next) = Counted(cn) BY <1>2, <1>3
<1>5. ASSUME c \in Counted(next), c \notin Counted(cn)
      PROVE  Cardinality(Counted(next)) = Cardinality(Counted(cn)) + 1
  <2>1. Counted(next) = Counted(cn) \cup {c} BY <1>2, <1>3, <1>5
  <2> QED BY <1>1, <1>2, <1>5, <2>1, FS_AddElement
<1>6. ASSUME c \notin Counted(next), c \in Counted(cn)
      PROVE  Cardinality(Counted(cn)) # 0
             /\ Cardinality(Counted(next)) = Cardinality(Counted(cn)) - 1
  <2>1. Counted(next) = Counted(cn) \ {c} BY <1>2, <1>3, <1>6
  <2>2. Cardinality(Counted(cn) \ {c}) = Cardinality(Counted(cn)) - 1
    BY <1>1, <1>2, <1>6, FS_RemoveElement
  <2>3. Cardinality(Counted(cn)) # 0 BY <1>1, <1>2, <1>6, FS_EmptySet
  <2> QED BY <2>1, <2>2, <2>3
<1> QED BY <1>1, <1>2, <1>4, <1>5, <1>6

-----------------------------------------------------------------------------
(* The steps of a connection's task.                                       *)

(* The types of the state.                                                 *)
LEMMA StateTypes ==
  ASSUME FlowInv
  PROVE  /\ disp \in Dispatcher /\ ring \in [Entry -> Held] /\ led \in Ledger
         /\ refused \in Seq(Event) /\ con \in [Peer -> Connection]
         /\ intake.published \in Nat /\ intake.acked \in Nat
         /\ host.queue \in Seq(Posted) /\ host.ack \in Nat /\ host.last \in [Peer -> Nat]
         /\ Len(disp.events) <= QueueBound
         /\ Flow(disp, ring, led, refused, con, host.last, lost, intake.published, failed)
<1>1. disp \in Dispatcher /\ ring \in [Entry -> Held] /\ led \in Ledger
      /\ refused \in Seq(Event) /\ con \in [Peer -> Connection] /\ intake \in Inbox /\ host \in Hosts
  BY DEF FlowInv, FlowType
<1>2. intake.published \in Nat /\ intake.acked \in Nat BY <1>1 DEF Inbox
<1>3. host.queue \in Seq(Posted) /\ host.ack \in Nat /\ host.last \in [Peer -> Nat] BY <1>1 DEF Hosts
<1>4. Flow(disp, ring, led, refused, con, host.last, lost, intake.published, failed) BY DEF FlowInv
<1>5. Len(disp.events) <= QueueBound BY <1>4 DEF Flow, SeqInv
<1> QED BY <1>1, <1>2, <1>3, <1>4, <1>5

(* A step of a task that is not over keeps the invariant when what is on   *)
(* the way stays in shape.                                                 *)
LEMMA TaskKeeps ==
  ASSUME FlowInv, NEW c \in Peer, con[c].life \notin {"none", "over"},
         UNCHANGED <<ring, intake, run, shutdown, failed, host>>,
         disp' \in Dispatcher, led' \in Ledger, refused' \in Seq(Event), con' \in [Peer -> Connection],
         disp'.unacked = disp.unacked, disp'.draining = disp.draining,
         ~failed => disp'.connections = Cardinality(Counted(con')),
         \A x \in Peer : x # c => con'[x] = con[x],
         Reads(con'[c]) => con'[c].held = <<>> /\ Len(con'[c].sequences) < MaxPending,
         Flow(disp', ring, led', refused', con', host.last, lost', intake.published, failed)
  PROVE  FlowInv'
<1>1. FlowType' BY DEF FlowInv, FlowType
<1>2. RingInv(disp.unacked, ring, intake.published, intake.acked, host.queue, host.ack, failed)'
  BY DEF FlowInv
<1>3. ReadsInv(con')
  <2>1. ASSUME NEW x \in Peer, Reads(con'[x])
        PROVE  con'[x].held = <<>> /\ Len(con'[x].sequences) < MaxPending
    <3>1. CASE x = c BY <2>1, <3>1
    <3>2. CASE x # c BY <2>1, <3>2 DEF FlowInv, ReadsInv
    <3> QED BY <3>1, <3>2
  <2> QED BY <2>1 DEF ReadsInv
<1>4. LifeInv'
  <2>1. ~(run = "done" /\ ~failed) BY DEF FlowInv, LifeInv, DrainedEmpty
  <2>2. failed => run = "done" BY DEF FlowInv, LifeInv
  <2>3. disp.draining => shutdown BY DEF FlowInv, LifeInv
  <2> QED BY <2>1, <2>2, <2>3 DEF LifeInv
<1>5. Flow(disp', ring', led', refused', con', host'.last, lost', intake'.published, failed')
  OBVIOUS
<1> QED BY <1>1, <1>2, <1>3, <1>4, <1>5 DEF FlowInv

(* A connection that is not counted before and after, or is both.          *)
LEMMA CountKept ==
  ASSUME FlowInv, NEW c \in Peer, ~failed, \A x \in Peer : x # c => con'[x] = con[x],
         con'[c].life \in {"claimed", "served"} <=> con[c].life \in {"claimed", "served"}
  PROVE  disp.connections = Cardinality(Counted(con'))
<1>1. disp.connections = Cardinality(Counted(con)) BY DEF FlowInv, LifeInv
<1>2. c \in Counted(con') <=> c \in Counted(con) BY DEF Counted
<1>3. Counted(con') = Counted(con) BY <1>2, CountedFacts
<1> QED BY <1>1, <1>3

(* A connection that never spoke goes on to another part of its life.      *)
LEMMA LifeMoves ==
  ASSUME FlowInv, NEW c \in Peer, con[c].life \notin {"served", "over"},
         NEW life \in {"leased", "orphan", "claimed", "over"},
         con' = [con EXCEPT ![c].life = life]
  PROVE  /\ con' \in [Peer -> Connection] /\ con'[c].life = life
         /\ \A x \in Peer : x # c => con'[x] = con[x]
         /\ Reads(con'[c]) => con'[c].held = <<>> /\ Len(con'[c].sequences) < MaxPending
         /\ Flow(disp, ring, led, refused, con', host.last, lost, intake.published, failed)
<1>1. PICK p : p = con[c] OBVIOUS
<1>2. p \in Connection /\ p.life \notin {"served", "over"} BY <1>1, StateTypes
<1>3. PICK q : q = [p EXCEPT !.life = life] OBVIOUS
<1>4. q \in Connection /\ q.life = life /\ q.said = p.said /\ q.held = p.held
      /\ q.sequences = p.sequences /\ q.wait = p.wait /\ q.task = p.task
  BY <1>2, <1>3 DEF Connection
<1>5. con' = [con EXCEPT ![c] = q] BY <1>1, <1>3
<1>6. con \in [Peer -> Connection] /\ con' \in [Peer -> Connection] /\ con'[c] = q
      /\ \A x \in Peer : x # c => con'[x] = con[x]
  BY <1>4, <1>5, StateTypes
<1>7. OrderInv(Way(disp.events, ring), refused, con, host.last, lost) BY DEF FlowInv, Flow
<1>8. p.held = <<>> /\ p.said = 0 BY <1>1, <1>2, <1>7 DEF OrderInv, HeldOrder
<1>9. Gone(p) = 0 /\ Gone(q) = 0 BY <1>4, <1>8, GoneEmpty
<1>10. \A k \in 1 .. Len(q.held) : FALSE BY <1>4, <1>8
<1>11. Moves(p, q, c, lost) BY <1>4, <1>8, <1>9, <1>10 DEF Moves
<1>12. ~failed => Bounded(Way(disp.events, ring), q, c)
  <2>1. ASSUME ~failed PROVE Bounded(Way(disp.events, ring), q, c)
    <3>1. Bounded(Way(disp.events, ring), p, c) BY <1>1, <2>1, BoundParts DEF FlowInv, Flow
    <3>2. ~Holding(p) /\ ~Holding(q) BY <1>4, <1>8, <1>10 DEF Holding
    <3> QED BY <1>4, <1>10, <3>1, <3>2 DEF Bounded
  <2> QED BY <2>1
<1>13. (Reads(q) <=> Reads(p)) /\ (HoldingMessage(q) <=> HoldingMessage(p))
  BY <1>4 DEF Reads, HoldingMessage
<1>14. Flow(disp, ring, led, refused, con', host.last, lost, intake.published, failed)
  BY <1>1, <1>2, <1>6, <1>11, <1>12, <1>13, StateTypes, FlowOne
<1>15. Reads(q) => q.held = <<>> /\ Len(q.sequences) < MaxPending
  BY <1>1, <1>4, <1>13 DEF FlowInv, ReadsInv
<1> QED BY <1>4, <1>6, <1>14, <1>15

(* A request that reserves a connection is admitted.                       *)
LEMMA LeaseKeeps ==
  ASSUME FlowInv, NEW c \in Peer, Lease(c) PROVE FlowInv'
<1>1. con[c].life = "none" /\ con' = [con EXCEPT ![c].life = "leased"] BY DEF Lease, Only
<1>2. /\ con' \in [Peer -> Connection] /\ con'[c].life = "leased"
      /\ \A x \in Peer : x # c => con'[x] = con[x]
      /\ Reads(con'[c]) => con'[c].held = <<>> /\ Len(con'[c].sequences) < MaxPending
      /\ Flow(disp, ring, led, refused, con', host.last, lost, intake.published, failed)
  BY <1>1, LifeMoves
<1>3. UNCHANGED <<disp, ring, intake, led, refused, run, shutdown, failed, host, lost>> BY DEF Lease
<1>4. Flow(disp', ring', led', refused', con', host'.last, lost', intake'.published, failed')
  BY <1>2, <1>3
<1>5. ReadsInv(con')
  <2>1. ASSUME NEW x \in Peer, Reads(con'[x])
        PROVE  con'[x].held = <<>> /\ Len(con'[x].sequences) < MaxPending
    <3>1. CASE x = c BY <1>2, <2>1, <3>1
    <3>2. CASE x # c BY <1>2, <2>1, <3>2 DEF FlowInv, ReadsInv
    <3> QED BY <3>1, <3>2
  <2> QED BY <2>1 DEF ReadsInv
<1>6. LifeInv'
  <2>1. ~failed /\ ~disp.draining BY DEF Lease, Admits
  <2>2. disp.connections = Cardinality(Counted(con')) BY <1>1, <1>2, <2>1, CountKept
  <2>3. (run = "done" /\ ~failed => disp.draining) /\ (failed => run = "done") BY DEF FlowInv, LifeInv
  <2> QED BY <1>3, <2>1, <2>2, <2>3 DEF LifeInv
<1>7. FlowType' BY <1>2, <1>3 DEF FlowInv, FlowType
<1>8. RingInv(disp.unacked, ring, intake.published, intake.acked, host.queue, host.ack, failed)'
  BY <1>3 DEF FlowInv
<1> QED BY <1>4, <1>5, <1>6, <1>7, <1>8 DEF FlowInv

(* A lease ends without its action.                                        *)
LEMMA LeaseEndsKeeps ==
  ASSUME FlowInv, NEW c \in Peer, LeaseEnds(c) PROVE FlowInv'
<1>1. PICK life \in {"orphan", "over"} : life = IF failed THEN "over" ELSE "orphan" OBVIOUS
<1>2. con[c].life = "leased" /\ con' = [con EXCEPT ![c].life = life] BY <1>1 DEF LeaseEnds, Only
<1>3. /\ con' \in [Peer -> Connection] /\ con'[c].life = life
      /\ \A x \in Peer : x # c => con'[x] = con[x]
      /\ Reads(con'[c]) => con'[c].held = <<>> /\ Len(con'[c].sequences) < MaxPending
      /\ Flow(disp, ring, led, refused, con', host.last, lost, intake.published, failed)
  BY <1>2, LifeMoves
<1>4. UNCHANGED <<disp, ring, intake, led, refused, run, shutdown, failed, host, lost>>
  BY DEF LeaseEnds
<1>5. ~failed => disp.connections = Cardinality(Counted(con')) BY <1>2, <1>3, CountKept
<1> QED BY <1>2, <1>3, <1>4, <1>5, StateTypes, TaskKeeps

(* A dispatcher's count of connections.                                    *)
LEMMA CountSet ==
  ASSUME NEW d \in Dispatcher, NEW n \in Nat, NEW e, e = [d EXCEPT !.connections = n]
  PROVE  e \in Dispatcher /\ e.connections = n /\ e.events = d.events /\ e.unacked = d.unacked
         /\ e.draining = d.draining /\ e.target = d.target
BY DEF Dispatcher

(* An action claims the connection it reserved.                            *)
LEMMA ClaimKeeps ==
  ASSUME FlowInv, NEW c \in Peer, Claim(c) PROVE FlowInv'
<1>1. PICK life \in {"claimed", "over"} : life = IF failed THEN "over" ELSE "claimed" OBVIOUS
<1>2. con[c].life = "leased" /\ con' = [con EXCEPT ![c].life = life] BY <1>1 DEF Claim, Only
<1>3. /\ con' \in [Peer -> Connection] /\ con'[c].life = life
      /\ \A x \in Peer : x # c => con'[x] = con[x]
      /\ Reads(con'[c]) => con'[c].held = <<>> /\ Len(con'[c].sequences) < MaxPending
      /\ Flow(disp, ring, led, refused, con', host.last, lost, intake.published, failed)
  BY <1>2, LifeMoves
<1>4. UNCHANGED <<ring, intake, led, refused, run, shutdown, failed, host, lost>> BY DEF Claim
<1>5. CASE failed
  <2>1. disp' = disp BY <1>5 DEF Claim
  <2> QED BY <1>2, <1>3, <1>4, <1>5, <2>1, StateTypes, TaskKeeps
<1>6. CASE ~failed
  <2>1. disp' = [disp EXCEPT !.connections = disp.connections + 1] BY <1>6 DEF Claim
  <2>2. disp.connections \in Nat /\ disp.connections = Cardinality(Counted(con))
    BY <1>6, StateTypes, DispFields DEF FlowInv, LifeInv
  <2>3. disp.connections + 1 \in Nat BY <2>2
  <2>4. disp' \in Dispatcher /\ disp'.connections = disp.connections + 1
        /\ disp'.events = disp.events /\ disp'.unacked = disp.unacked /\ disp'.draining = disp.draining
    BY <2>1, <2>3, StateTypes, CountSet
  <2>5. c \in Counted(con') /\ c \notin Counted(con) BY <1>1, <1>2, <1>3, <1>6 DEF Counted
  <2>6. Cardinality(Counted(con')) = Cardinality(Counted(con)) + 1 BY <1>3, <2>5, CountedFacts
  <2>7. disp'.connections = Cardinality(Counted(con')) BY <2>2, <2>4, <2>6
  <2>8. SameLedger(led, led') BY <1>4 DEF SameLedger
  <2>9. Flow(disp', ring, led', refused, con', host.last, lost, intake.published, failed)
    BY <1>3, <2>4, <2>8, FlowRest
  <2> QED BY <1>2, <1>3, <1>4, <2>4, <2>7, <2>9, StateTypes, TaskKeeps
<1> QED BY <1>5, <1>6

(* A connection that never spoke ends with its close event; one that keeps *)
(* everything but perhaps its waker.                                       *)
Ends(p, q) ==
  /\ p.life \notin {"served", "over"} /\ q.life = "over" /\ q.said = 1 /\ q.held = <<>>
  /\ Reads(q) => Reads(p)
Stays(p, q) ==
  SameOrder(p, q) /\ SameBound(p, q) /\ q.task = p.task /\ q.wait = p.wait

(* What holds nothing is bounded by what is on the way.                    *)
LEMMA BoundedOver ==
  ASSUME NEW way, IsFiniteSet(way), NEW p, NEW q, NEW c, Bounded(way, p, c),
         q.life # "served", q.held = <<>>
  PROVE  Bounded(way, q, c)
<1>1. \A k \in 1 .. Len(q.held) : FALSE OBVIOUS
<1>2. ~Holding(q) BY <1>1 DEF Holding
<1>3. FromClient(way, c) \subseteq way BY DEF FromClient
<1>4. PICK y \in Nat : y = Cardinality(FromClient(way, c)) BY <1>3, PartCard
<1>5. MaxPending \in Nat BY FlowAssumption
<1>6. y + 0 <= MaxPending \/ y + 1 <= MaxPending BY <1>4 DEF Bounded
<1>7. y + 0 <= MaxPending BY <1>5, <1>6
<1> QED BY <1>1, <1>2, <1>4, <1>7 DEF Bounded

(* Who reads, when these connections end and the others stay.              *)
LEMMA EndReaders ==
  ASSUME NEW cn, NEW next, NEW D \in SUBSET Peer,
         \A x \in D : Ends(cn[x], next[x]), \A x \in Peer \ D : Stays(cn[x], next[x])
  PROVE  Readers(next) \subseteq Readers(cn)
<1>1. ASSUME NEW x \in Readers(next) PROVE x \in Readers(cn)
  <2>1. x \in Peer /\ (Reads(next[x]) \/ HoldingMessage(next[x])) BY DEF Readers
  <2>2. CASE x \in D
    <3>1. next[x].held = <<>> /\ (Reads(next[x]) => Reads(cn[x])) BY <2>2 DEF Ends
    <3>2. \A k \in 1 .. Len(next[x].held) : FALSE BY <3>1
    <3>3. ~HoldingMessage(next[x]) BY <3>2 DEF HoldingMessage
    <3> QED BY <2>1, <3>1, <3>3 DEF Readers
  <2>3. CASE x \notin D
    <3>1. Stays(cn[x], next[x]) BY <2>1, <2>3
    <3>2. (Reads(next[x]) <=> Reads(cn[x])) /\ (HoldingMessage(next[x]) <=> HoldingMessage(cn[x]))
      BY <3>1 DEF Stays, SameOrder, Reads, HoldingMessage
    <3> QED BY <2>1, <3>2 DEF Readers
  <2> QED BY <2>2, <2>3
<1> QED BY <1>1

(* Connections that never started end, and their close events wait.        *)
LEMMA FlowRefuse ==
  ASSUME NEW d \in Dispatcher, NEW rng \in [Entry -> Held], NEW l, NEW r \in Seq(Event),
         NEW cn \in [Peer -> Connection], NEW next \in [Peer -> Connection],
         NEW last \in [Peer -> Nat], NEW gone, NEW published, NEW off,
         Flow(d, rng, l, r, cn, last, gone, published, off), NEW D \in SUBSET Peer,
         \A x \in D : Ends(cn[x], next[x]), \A x \in Peer \ D : Stays(cn[x], next[x]),
         NEW ev \in Seq(Event),
         \A k \in 1 .. Len(ev) :
           /\ ev[k].kind = "close" /\ ev[k].n = 1 /\ ev[k].conn \in D
           /\ \A j \in 1 .. Len(ev) : j # k => ev[j].conn # ev[k].conn,
         \A x \in D : \E k \in 1 .. Len(ev) : ev[k].conn = x
  PROVE  Flow(d, rng, l, r \o ev, next, last, gone, published, off)
<1>1. PICK way : way = Way(d.events, rng) OBVIOUS
<1>2. way \subseteq Event /\ IsFiniteSet(way) BY <1>1, DispFields, WayFacts
<1>3. OrderInv(way, r, cn, last, gone) BY <1>1 DEF Flow
<1>4. \A k \in 1 .. Len(ev) :
        /\ ev[k].kind = "close" /\ ev[k].n = 1
        /\ cn[ev[k].conn].life \notin {"served", "over"}
        /\ next[ev[k].conn].said = 1 /\ next[ev[k].conn].life = "over"
        /\ next[ev[k].conn].held = <<>>
        /\ \A j \in 1 .. Len(ev) : j # k => ev[j].conn # ev[k].conn
  BY DEF Ends
<1>5. \A x \in Peer : (\A k \in 1 .. Len(ev) : ev[k].conn # x) =>
        next[x].said = cn[x].said /\ next[x].held = cn[x].held /\ next[x].life = cn[x].life
  BY DEF Stays, SameOrder
<1>6. OrderInv(way, r \o ev, next, last, gone) BY <1>2, <1>3, <1>4, <1>5, OrderRefuse
<1>7. ASSUME ~off PROVE BoundInv(way, next)
  <2>1. BoundInv(way, cn) BY <1>1, <1>7 DEF Flow
  <2>2. \A x \in D : Bounded(way, cn[x], x) BY <2>1, BoundParts
  <2>3. \A x \in D : Bounded(way, next[x], x)
    <3>1. ASSUME NEW x \in D PROVE Bounded(way, next[x], x)
      <4>1. next[x].life # "served" /\ next[x].held = <<>> BY DEF Ends
      <4> QED BY <1>2, <2>2, <4>1, BoundedOver
    <3> QED BY <3>1
  <2>4. \A x \in Peer \ D : SameBound(cn[x], next[x]) BY DEF Stays
  <2>5. Readers(next) \subseteq Readers(cn) BY EndReaders
  <2> QED BY <1>2, <2>1, <2>3, <2>4, <2>5, BoundConn
<1> QED BY <1>1, <1>6, <1>7, Zenon DEF Flow

(* Without a target their close events are lost.                           *)
LEMMA FlowEnd ==
  ASSUME NEW d \in Dispatcher, NEW rng \in [Entry -> Held], NEW l, NEW r \in Seq(Event),
         NEW cn \in [Peer -> Connection], NEW next \in [Peer -> Connection],
         NEW last \in [Peer -> Nat], NEW gone, NEW more, gone \subseteq more, NEW published, NEW off,
         Flow(d, rng, l, r, cn, last, gone, published, off), NEW D \in SUBSET Peer, D \subseteq more,
         \A x \in D : Ends(cn[x], next[x]), \A x \in Peer \ D : Stays(cn[x], next[x])
  PROVE  Flow(d, rng, l, r, next, last, more, published, off)
<1>1. PICK way : way = Way(d.events, rng) OBVIOUS
<1>2. way \subseteq Event /\ IsFiniteSet(way) BY <1>1, DispFields, WayFacts
<1>3. OrderInv(way, r, cn, last, gone) BY <1>1 DEF Flow
<1>4. \A k \in 1 .. Len(r) : r[k].conn \notin D
  <2>1. \A x \in D : cn[x].life # "over" BY DEF Ends
  <2> QED BY <1>3, <2>1, NotClosing
<1>5. \A x \in D : Moves(cn[x], next[x], x, more)
  <2>1. ASSUME NEW x \in D PROVE Moves(cn[x], next[x], x, more)
    <3>1. cn[x].held = <<>> /\ cn[x].said = 0 BY <1>3 DEF OrderInv, HeldOrder, Ends
    <3>2. next[x].held = <<>> /\ next[x].said = 1 /\ next[x].life = "over" BY DEF Ends
    <3>3. Gone(cn[x]) = 0 /\ Gone(next[x]) = 1 BY <3>1, <3>2, GoneEmpty
    <3>4. \A k \in 1 .. Len(next[x].held) : FALSE BY <3>2
    <3> QED BY <3>2, <3>3, <3>4 DEF Moves
  <2> QED BY <2>1
<1>6. ~off => \A x \in D : Bounded(way, next[x], x)
  <2>1. ASSUME ~off, NEW x \in D PROVE Bounded(way, next[x], x)
    <3>1. BoundInv(way, cn) BY <1>1, <2>1 DEF Flow
    <3>2. Bounded(way, cn[x], x) BY <3>1, BoundParts
    <3>3. next[x].life # "served" /\ next[x].held = <<>> BY DEF Ends
    <3> QED BY <1>2, <3>2, <3>3, BoundedOver
  <2> QED BY <2>1
<1>7. \A x \in Peer \ D : SameOrder(cn[x], next[x]) /\ SameBound(cn[x], next[x]) BY DEF Stays
<1>8. Readers(next) \subseteq Readers(cn) BY EndReaders
<1> QED BY <1>1, <1>4, <1>5, <1>6, <1>7, <1>8, FlowConn

(* Dispatcher::connection_closed.                                          *)
LEMMA ClosedFacts ==
  ASSUME NEW d \in Dispatcher, NEW e, e = closed(d)
  PROVE  /\ e \in Dispatcher /\ e.events = d.events /\ e.unacked = d.unacked
         /\ e.draining = d.draining
         /\ d.connections # 0 => e.connections = d.connections - 1
<1>1. PICK n : n = IF d.connections = 0 THEN 0 ELSE d.connections - 1 OBVIOUS
<1>2. d.connections \in Nat BY DispFields
<1>3. n \in Nat /\ (d.connections # 0 => n = d.connections - 1) BY <1>1, <1>2
<1>4. e = [d EXCEPT !.connections = n] BY <1>1 DEF closed
<1> QED BY <1>3, <1>4, CountSet

(* A counted connection ends.                                              *)
LEMMA CountEnds ==
  ASSUME FlowInv, NEW c \in Peer, ~failed, \A x \in Peer : x # c => con'[x] = con[x],
         con[c].life \in {"claimed", "served"}, con'[c].life = "over",
         NEW d \in Dispatcher, d.connections = disp.connections
  PROVE  closed(d).connections = Cardinality(Counted(con'))
<1>1. disp.connections = Cardinality(Counted(con)) BY DEF FlowInv, LifeInv
<1>2. c \in Counted(con) /\ c \notin Counted(con') BY DEF Counted
<1>3. Cardinality(Counted(con)) # 0 /\ Cardinality(Counted(con')) = Cardinality(Counted(con)) - 1
  BY <1>2, CountedFacts
<1>4. PICK e : e = closed(d) OBVIOUS
<1>5. e.connections = d.connections - 1 BY <1>1, <1>3, <1>4, ClosedFacts
<1> QED BY <1>1, <1>3, <1>4, <1>5

(* The close event of a connection that said nothing.                      *)
LEMMA CloseEventFacts ==
  ASSUME NEW c \in Peer, con[c].said = 0
  PROVE  /\ CloseEvent(c) \in Event /\ CloseEvent(c).conn = c /\ CloseEvent(c).n = 1
         /\ CloseEvent(c).kind = "close"
BY DEF CloseEvent, Event, EventKind

(* A claim is dropped, or is past its deadline.                            *)
LEMMA DropClaimKeeps ==
  ASSUME FlowInv, NEW c \in Peer, DropClaim(c) PROVE FlowInv'
<1>1. PICK p : p = con[c] OBVIOUS
<1>2. p \in Connection /\ p.life = "claimed" BY <1>1, StateTypes DEF DropClaim, Only
<1>3. OrderInv(Way(disp.events, ring), refused, con, host.last, lost) BY DEF FlowInv, Flow
<1>4. p.held = <<>> /\ p.said = 0 BY <1>1, <1>2, <1>3 DEF OrderInv, HeldOrder
<1>5. PICK q : q = [p EXCEPT !.life = "over", !.said = 1] OBVIOUS
<1>6. q \in Connection /\ q.life = "over" /\ q.said = 1 /\ q.held = p.held
      /\ q.sequences = p.sequences /\ q.wait = p.wait /\ q.task = p.task
  BY <1>2, <1>5 DEF Connection
<1>7. con' = [con EXCEPT ![c] = q]
  <2>1. con' = [con EXCEPT ![c].life = "over", ![c].said = @ + 1] BY DEF DropClaim
  <2>2. con' = [con EXCEPT ![c] = [p EXCEPT !.life = "over", !.said = p.said + 1]]
    BY <1>1, <1>2, <2>1, StateTypes DEF Connection
  <2>3. p.said + 1 = 1 BY <1>4
  <2> QED BY <1>5, <2>2, <2>3
<1>8. con \in [Peer -> Connection] /\ con' \in [Peer -> Connection] /\ con'[c] = q
      /\ \A x \in Peer : x # c => con'[x] = con[x]
  BY <1>6, <1>7, StateTypes
<1>9. PICK D : D = {c} OBVIOUS
<1>10. D \in SUBSET Peer /\ \A x \in D : Ends(con[x], con'[x])
  <2>1. Ends(p, q) BY <1>2, <1>4, <1>6 DEF Ends, Reads
  <2> QED BY <1>1, <1>8, <1>9, <2>1
<1>11. \A x \in Peer \ D : Stays(con[x], con'[x]) BY <1>8, <1>9 DEF Stays, SameOrder, SameBound
<1>12. PICK ev : ev = Closes(<<c>>) OBVIOUS
<1>13. ev \in Seq(Event) /\ Len(ev) = 1 /\ ev[1] = CloseEvent(c)
  <2>1. ev = [k \in 1 .. 1 |-> CloseEvent(c)] BY <1>12 DEF Closes
  <2>2. CloseEvent(c) \in Event BY <1>1, <1>4, CloseEventFacts
  <2>3. ev \in [1 .. 1 -> Event] BY <2>1, <2>2
  <2> QED BY <2>1, <2>3, IsASeq
<1>14. PICK f : f = ReportClosed(Closes(<<c>>), refused, disp, led) OBVIOUS
<1>15. UNCHANGED <<ring, intake, run, shutdown, failed, host>> /\ refused' = f.r
       /\ disp' = closed(f.d) /\ led' = f.l
  BY <1>14 DEF DropClaim
<1>16. Reads(q) => q.held = <<>> /\ Len(q.sequences) < MaxPending
  BY <1>1, <1>4, <1>6 DEF FlowInv, ReadsInv, Reads
<1>17. /\ f.d \in Dispatcher /\ SameBut(disp, f.d) /\ f.l \in Ledger /\ f.r \in Seq(Event)
       /\ Flow(f.d, ring, f.l, f.r, con', host.last, lost', intake.published, failed)
  <2>1. CASE ~HasTarget(disp)
    <3>1. f = [r |-> refused, d |-> disp, l |-> led, took |-> FALSE]
      BY <1>14, <2>1 DEF ReportClosed
    <3>2. f.r = refused /\ f.d = disp /\ f.l = led BY <3>1
    <3>3. lost' = lost \cup {c} BY <2>1 DEF DropClaim
    <3>4. lost \subseteq lost' /\ D \subseteq lost' BY <1>9, <3>3
    <3>5. Flow(disp, ring, led, refused, con', host.last, lost', intake.published, failed)
      BY <1>8, <1>10, <1>11, <3>4, StateTypes, FlowEnd
    <3>6. SameBut(disp, disp) BY DEF SameBut
    <3> QED BY <3>2, <3>5, <3>6, StateTypes
  <2>2. CASE HasTarget(disp)
    <3>1. PICK r \in Seq(Event) : r = refused \o ev
      <4>1. refused \o ev \in Seq(Event) BY <1>13, StateTypes
      <4> QED BY <4>1, Zenon
    <3>2. f = PostRefused(r, disp, led) BY <1>12, <1>14, <2>2, <3>1 DEF ReportClosed
    <3>3. Posting(r, disp, led, f) BY <3>2, StateTypes, PostRefusedFacts
    <3>4. lost' = lost BY <2>2 DEF DropClaim
    <3>5. \A k \in 1 .. Len(ev) :
            /\ ev[k].kind = "close" /\ ev[k].n = 1 /\ ev[k].conn \in D
            /\ \A j \in 1 .. Len(ev) : j # k => ev[j].conn # ev[k].conn
      BY <1>1, <1>4, <1>9, <1>13, CloseEventFacts
    <3>6. \A x \in D : \E k \in 1 .. Len(ev) : ev[k].conn = x
      <4>1. 1 \in 1 .. Len(ev) /\ ev[1].conn = c BY <1>1, <1>4, <1>13, CloseEventFacts
      <4> QED BY <1>9, <4>1
    <3>7. Flow(disp, ring, led, refused \o ev, con', host.last, lost, intake.published, failed)
      BY <1>8, <1>10, <1>11, <1>13, <3>5, <3>6, StateTypes, FlowRefuse, ZenonT(30)
    <3>8. Flow(disp, ring, led, r, con', host.last, lost, intake.published, failed) BY <3>1, <3>7
    <3>9. Flow(f.d, ring, f.l, f.r, con', host.last, lost, intake.published, failed)
      BY <1>8, <2>2, <3>3, <3>8, StateTypes, PostKeeps
    <3> QED BY <3>3, <3>4, <3>9 DEF Posting
  <2> QED BY <2>1, <2>2
<1>18. /\ disp' \in Dispatcher /\ disp'.events = f.d.events /\ disp'.unacked = disp.unacked
       /\ disp'.draining = disp.draining
  BY <1>15, <1>17, ClosedFacts DEF SameBut
<1>19. ~failed => disp'.connections = Cardinality(Counted(con'))
  BY <1>1, <1>2, <1>6, <1>8, <1>15, <1>17, CountEnds DEF SameBut
<1>20. Flow(disp', ring, led', refused', con', host.last, lost', intake.published, failed)
  <2>1. SameLedger(f.l, f.l) BY DEF SameLedger
  <2> QED BY <1>15, <1>17, <1>18, <2>1, FlowRest
<1> QED BY <1>1, <1>2, <1>8, <1>15, <1>16, <1>17, <1>18, <1>19, <1>20, TaskKeeps

(* What a connection holds after it reported one more event.               *)
Says(c, p, kind, q) ==
  /\ q \in Connection /\ q.said = p.said + 1 /\ q.life = p.life /\ q.sequences = p.sequences
  /\ q.task = p.task /\ q.wait = p.wait /\ Gone(q) = Gone(p) /\ Len(q.held) = Len(p.held) + 1
  /\ q.held # <<>>
  /\ q.held[Len(q.held)].kind = kind /\ q.held[Len(q.held)].conn = c
  /\ q.held[Len(q.held)].n = Gone(q) + Len(q.held)
  /\ \A k \in 1 .. Len(p.held) : q.held[k] = p.held[k]
  /\ \A k \in 1 .. Len(q.held) : k = Len(q.held) \/ k \in 1 .. Len(p.held)

(* Pending::report, before its flush.                                      *)
LEMMA ReportedFacts ==
  ASSUME NEW c \in Peer, NEW p \in Connection, NEW kind \in EventKind
  PROVE  Says(c, p, kind, Reported(c, p, kind))
<1>1. PICK h \in Seq(Event) : h = p.held BY ConFields
<1>2. PICK s \in Nat : s = p.said BY ConFields
<1>3. PICK e : e = [conn |-> c, n |-> s + 1, kind |-> kind, seq |-> 0] OBVIOUS
<1>4. e \in Event /\ e.conn = c /\ e.n = s + 1 /\ e.kind = kind BY <1>3 DEF Event
<1>5. PICK g \in Seq(Event) : g = Append(h, e)
  <2>1. Append(h, e) \in Seq(Event) BY <1>4
  <2> QED BY <2>1, Zenon
<1>6. Len(g) = Len(h) + 1 /\ g[Len(g)] = e /\ \A k \in 1 .. Len(h) : g[k] = h[k] BY <1>4, <1>5
<1>7. s + 1 \in Nat OBVIOUS
<1>8. PICK q : q = [p EXCEPT !.said = s + 1, !.held = g] OBVIOUS
<1>9. q = Reported(c, p, kind) BY <1>1, <1>2, <1>3, <1>5, <1>8 DEF Reported
<1>10. q \in Connection /\ q.said = s + 1 /\ q.held = g /\ q.life = p.life
       /\ q.sequences = p.sequences /\ q.task = p.task /\ q.wait = p.wait
  BY <1>7, <1>8 DEF Connection
<1>11. Len(h) \in Nat /\ (s + 1) - (Len(h) + 1) = s - Len(h) OBVIOUS
<1>12. Gone(q) = s - Len(h) /\ Gone(p) = s - Len(h) BY <1>1, <1>2, <1>6, <1>10, <1>11 DEF Gone
<1>13. e.n = Gone(q) + Len(g) BY <1>4, <1>6, <1>11, <1>12
<1>14. g # <<>> BY <1>6, <1>11
<1>15. \A k \in 1 .. Len(g) : k = Len(g) \/ k \in 1 .. Len(h) BY <1>6, <1>11
<1>16. Says(c, p, kind, q)
  BY <1>1, <1>2, <1>4, <1>6, <1>10, <1>12, <1>13, <1>14, <1>15 DEF Says
<1> QED BY <1>9, <1>16

(* It goes on in order.                                                    *)
LEMMA SaysMoves ==
  ASSUME NEW c \in Peer, NEW b \in Connection, NEW p \in Connection, NEW kind, NEW q, NEW more,
         Says(c, p, kind, q), p.life = "served", p.said = b.said, p.held = b.held,
         \A k \in 1 .. Len(b.held) : b.held[k].conn = c /\ b.held[k].n = Gone(b) + k
  PROVE  Moves(b, q, c, more)
<1>1. Gone(p) = Gone(b) BY DEF Gone
<1>2. Gone(q) = Gone(b) /\ Gone(b) \in Int /\ q.life = "served" BY <1>1, ConFields DEF Says
<1>3. \A k \in 1 .. Len(q.held) : q.held[k].conn = c /\ q.held[k].n = Gone(q) + k
  <2>1. ASSUME NEW k \in 1 .. Len(q.held) PROVE q.held[k].conn = c /\ q.held[k].n = Gone(q) + k
    <3>1. CASE k = Len(q.held) BY <3>1 DEF Says
    <3>2. CASE k \in 1 .. Len(p.held) BY <1>2, <3>2 DEF Says
    <3> QED BY <3>1, <3>2 DEF Says
  <2> QED BY <2>1
<1> QED BY <1>2, <1>3 DEF Moves

(* An event its client did not cause leaves the bounds.                    *)
LEMMA SaysQuietly ==
  ASSUME NEW c \in Peer, NEW p \in Connection, NEW kind \in EventKind, kind \notin {"open", "message"},
         NEW q, Says(c, p, kind, q)
  PROVE  /\ Holding(q) <=> Holding(p)
         /\ HoldingMessage(q) <=> HoldingMessage(p)
         /\ \A way : Bounded(way, p, c) => Bounded(way, q, c)
<1>1. ~ByClient(q.held[Len(q.held)]) /\ q.held[Len(q.held)].kind # "message" BY DEF Says, ByClient
<1>2. Len(p.held) \in Nat /\ Len(q.held) = Len(p.held) + 1 BY ConFields DEF Says
<1>3. \A k \in 1 .. Len(p.held) : k \in 1 .. Len(q.held) /\ q.held[k] = p.held[k]
  <2>1. \A k \in 1 .. Len(p.held) : k \in 1 .. Len(q.held) BY <1>2
  <2> QED BY <2>1 DEF Says
<1>4. \A k \in 1 .. Len(q.held) : k = Len(q.held) \/ k \in 1 .. Len(p.held) BY DEF Says
<1>5. Holding(q) <=> Holding(p) BY <1>1, <1>3, <1>4 DEF Holding
<1>6. HoldingMessage(q) <=> HoldingMessage(p) BY <1>1, <1>3, <1>4 DEF HoldingMessage
<1>7. ASSUME NEW way, Bounded(way, p, c) PROVE Bounded(way, q, c)
  <2>1. \A j, k \in 1 .. Len(q.held) : ByClient(q.held[j]) /\ ByClient(q.held[k]) => j = k
    <3>1. ASSUME NEW j \in 1 .. Len(q.held), NEW k \in 1 .. Len(q.held),
                 ByClient(q.held[j]), ByClient(q.held[k])
          PROVE  j = k
      <4>1. j \in 1 .. Len(p.held) /\ k \in 1 .. Len(p.held) BY <1>1, <1>4, <3>1
      <4> QED BY <1>3, <1>7, <3>1, <4>1 DEF Bounded
    <3> QED BY <3>1
  <2>2. q.life = p.life /\ q.sequences = p.sequences BY DEF Says
  <2> QED BY <1>5, <1>7, <2>1, <2>2 DEF Bounded
<1> QED BY <1>5, <1>6, <1>7

(* The first event a connection holds, of its client.                      *)
LEMMA SaysFirst ==
  ASSUME NEW c \in Peer, NEW p \in Connection, p.held = <<>>, NEW kind, NEW q, Says(c, p, kind, q),
         NEW way, Cardinality(FromClient(way, c)) + 1 <= MaxPending,
         Cardinality(FromClient(way, c)) \in Nat,
         \A a \in way : a.conn = c => \E k \in 1 .. Len(p.sequences) : p.sequences[k] = a.seq
  PROVE  Bounded(way, q, c)
<1>1. Len(q.held) = 1
  <2>1. Len(<<>>) = 0 OBVIOUS
  <2> QED BY <2>1 DEF Says
<1>2. \A j, k \in 1 .. Len(q.held) : j = k BY <1>1
<1>3. PICK x \in Nat : x = Cardinality(FromClient(way, c)) OBVIOUS
<1>4. x + 1 <= MaxPending /\ MaxPending \in Nat BY <1>3, FlowAssumption
<1>5. x + (IF Holding(q) THEN 1 ELSE 0) <= MaxPending
  <2>1. CASE Holding(q) BY <1>4, <2>1
  <2>2. CASE ~Holding(q) BY <1>4, <2>2
  <2> QED BY <2>1, <2>2
<1>6. q.sequences = p.sequences BY DEF Says
<1> QED BY <1>2, <1>3, <1>5, <1>6 DEF Bounded

(* A task reports or settles: what it holds goes on to be handed over.     *)
LEMMA ServedFlush ==
  ASSUME FlowInv, NEW c \in Peer, NEW p \in Connection, con[c].life # "over", p.life = "served",
         Moves(con[c], p, c, lost),
         ~failed => Bounded(Way(disp.events, ring), p, c),
         ~failed => ((Reads(p) \/ HoldingMessage(p)) => (Reads(con[c]) \/ HoldingMessage(con[c]))),
         Reads(p) => ~Holding(p),
         NEW f, Flushed(p, disp, led, f), NEW cn \in [Peer -> Connection], cn[c] = f.p,
         \A x \in Peer : x # c => cn[x] = con[x],
         NEW more, lost \subseteq more, Drops(p, disp) => c \in more
  PROVE  Flow(f.d, ring, f.l, refused, cn, host.last, more, intake.published, failed)
<1>1. PICK mid : mid = [con EXCEPT ![c] = p] OBVIOUS
<1>2. con \in [Peer -> Connection] /\ mid \in [Peer -> Connection] /\ mid[c] = p
      /\ \A x \in Peer : x # c => mid[x] = con[x]
  BY <1>1, StateTypes
<1>3. Flow(disp, ring, led, refused, mid, host.last, lost, intake.published, failed)
  <2>1. ~failed => \/ (Reads(mid[c]) \/ HoldingMessage(mid[c]))
                        => (Reads(con[c]) \/ HoldingMessage(con[c]))
                   \/ Cardinality(Messages(Way(disp.events, ring))) <= HalfBudget
    BY <1>2
  <2>2. Moves(con[c], mid[c], c, lost) BY <1>2
  <2>3. ~failed => Bounded(Way(disp.events, ring), mid[c], c) BY <1>2
  <2> QED BY <1>2, <2>1, <2>2, <2>3, StateTypes, FlowOne
<1>4. mid[c].life = "served" /\ (Reads(mid[c]) => ~Holding(mid[c])) /\ Flushed(mid[c], disp, led, f)
      /\ (Drops(mid[c], disp) => c \in more)
  BY <1>2
<1>5. \A x \in Peer : x # c => cn[x] = mid[x] BY <1>2
<1> QED BY <1>2, <1>3, <1>4, <1>5, StateTypes, FlushKeeps

(* A task reports an event and goes on to settle.                          *)
LEMMA SaysKeeps ==
  ASSUME FlowInv, NEW c \in Peer, NEW p \in Connection, con[c].life \in {"claimed", "served"},
         p.life = "served", p.task # "wait", Moves(con[c], p, c, lost),
         ~failed => Bounded(Way(disp.events, ring), p, c),
         ~failed => (HoldingMessage(p) => (Reads(con[c]) \/ HoldingMessage(con[c]))),
         Apply(c, flush(p, disp, led)),
         lost' = IF Drops(p, disp) THEN lost \cup {c} ELSE lost,
         UNCHANGED <<ring, intake, refused, run, shutdown, failed, host>>
  PROVE  FlowInv'
<1>1. PICK f : f = flush(p, disp, led) OBVIOUS
<1>2. disp' = f.d /\ led' = f.l /\ con' = [con EXCEPT ![c] = f.p] BY <1>1 DEF Apply
<1>3. Flushed(p, disp, led, f) BY <1>1, StateTypes, FlushFacts
<1>4. f.p \in Connection /\ f.d \in Dispatcher /\ f.l \in Ledger /\ SameBut(disp, f.d)
      /\ f.p.life = "served" /\ f.p.task = p.task
  BY <1>3 DEF Flushed, SameTask
<1>5. con' \in [Peer -> Connection] /\ con'[c] = f.p /\ \A x \in Peer : x # c => con'[x] = con[x]
  BY <1>2, <1>4, StateTypes
<1>6. lost \subseteq lost' /\ (Drops(p, disp) => c \in lost') OBVIOUS
<1>7. ~Reads(p) /\ ~Reads(con'[c]) BY <1>4, <1>5 DEF Reads
<1>8. con[c].life # "over" OBVIOUS
<1>9. Flow(f.d, ring, f.l, refused, con', host.last, lost', intake.published, failed)
  BY <1>3, <1>5, <1>6, <1>7, <1>8, ServedFlush
<1>10. ~failed => disp'.connections = Cardinality(Counted(con'))
  BY <1>2, <1>4, <1>5, CountKept DEF SameBut
<1>11. disp'.unacked = disp.unacked /\ disp'.draining = disp.draining BY <1>2, <1>4 DEF SameBut
<1>12. Flow(disp', ring, led', refused', con', host.last, lost', intake.published, failed)
  BY <1>2, <1>9
<1>13. disp' \in Dispatcher /\ led' \in Ledger /\ refused' \in Seq(Event) BY <1>2, <1>4, StateTypes
<1> QED BY <1>5, <1>7, <1>10, <1>11, <1>12, <1>13, TaskKeeps

(* A connection none of whose events are gone has none on the way.         *)
LEMMA NoneOnTheWay ==
  ASSUME FlowInv, NEW c \in Peer, con[c].life \notin {"served", "over"}
  PROVE  /\ con[c].held = <<>> /\ con[c].said = 0 /\ Gone(con[c]) = 0
         /\ \A a \in Way(disp.events, ring) : a.conn # c
<1>1. OrderInv(Way(disp.events, ring), refused, con, host.last, lost) BY DEF FlowInv, Flow
<1>2. con[c].held = <<>> /\ con[c].said = 0 BY <1>1 DEF OrderInv, HeldOrder
<1>3. Gone(con[c]) = 0 BY <1>2, GoneEmpty
<1>4. ASSUME NEW a \in Way(disp.events, ring), a.conn = c PROVE FALSE
  <2>1. host.last[c] < a.n /\ a.n <= 0 BY <1>1, <1>3, <1>4 DEF OrderInv, WayBetween
  <2>2. a.n \in Nat /\ host.last[c] \in Nat BY StateTypes, DispFields, WayFacts, EventFields
  <2> QED BY <2>1, <2>2
<1> QED BY <1>2, <1>3, <1>4

(* The task starts and reports the connection open.                        *)
LEMMA ServeKeeps ==
  ASSUME FlowInv, NEW c \in Peer, Serve(c) PROVE FlowInv'
<1>1. con[c] \in Connection /\ con[c].life = "claimed" BY StateTypes DEF Serve, Only
<1>2. PICK b : b = [con[c] EXCEPT !.life = "served", !.task = "settle"] OBVIOUS
<1>3. b \in Connection /\ b.life = "served" /\ b.task = "settle" /\ b.held = con[c].held
      /\ b.said = con[c].said /\ b.sequences = con[c].sequences
  BY <1>1, <1>2 DEF Connection
<1>4. PICK p : p = Reported(c, b, "open") OBVIOUS
<1>5. Says(c, b, "open", p)
  <2>1. "open" \in EventKind BY DEF EventKind
  <2> QED BY <1>3, <1>4, <2>1, ReportedFacts
<1>6. p \in Connection /\ p.life = "served" /\ p.task = "settle" BY <1>3, <1>5 DEF Says
<1>7. con[c].held = <<>> /\ \A a \in Way(disp.events, ring) : a.conn # c BY <1>1, NoneOnTheWay
<1>8. \A k \in 1 .. Len(con[c].held) : FALSE BY <1>7
<1>9. Moves(con[c], p, c, lost) BY <1>1, <1>3, <1>5, <1>8, SaysMoves
<1>10. Bounded(Way(disp.events, ring), p, c)
  <2>1. FromClient(Way(disp.events, ring), c) = {} BY <1>7 DEF FromClient
  <2>2. Cardinality(FromClient(Way(disp.events, ring), c)) = 0 BY <2>1, FS_EmptySet
  <2>3. PICK m \in Nat \ {0} : m = MaxPending BY FlowAssumption
  <2>4. 0 + 1 <= m BY <2>3
  <2>5. b.held = <<>> BY <1>3, <1>7
  <2>6. \A a \in Way(disp.events, ring) :
          a.conn = c => \E k \in 1 .. Len(b.sequences) : b.sequences[k] = a.seq
    BY <1>7
  <2>7. Cardinality(FromClient(Way(disp.events, ring), c)) + 1 <= MaxPending
        /\ Cardinality(FromClient(Way(disp.events, ring), c)) \in Nat
    BY <2>2, <2>3, <2>4
  <2> QED BY <1>3, <1>5, <2>5, <2>6, <2>7, SaysFirst
<1>11. ~HoldingMessage(p)
  <2>1. Len(p.held) = 1
    <3>1. Len(<<>>) = 0 OBVIOUS
    <3> QED BY <1>3, <1>5, <1>7, <3>1 DEF Says
  <2>2. \A k \in 1 .. Len(p.held) : p.held[k].kind = "open" BY <1>5, <2>1 DEF Says
  <2> QED BY <2>2 DEF HoldingMessage
<1>12. Apply(c, flush(p, disp, led)) /\ lost' = IF Drops(p, disp) THEN lost \cup {c} ELSE lost
  BY <1>2, <1>4 DEF Serve
<1>13. UNCHANGED <<ring, intake, refused, run, shutdown, failed, host>> BY DEF Serve
<1> QED BY <1>1, <1>6, <1>9, <1>10, <1>11, <1>12, <1>13, SaysKeeps

(* The held events of a connection are its own, in order.                  *)
LEMMA HeldInOrder ==
  ASSUME FlowInv, NEW c \in Peer
  PROVE  \A k \in 1 .. Len(con[c].held) :
           con[c].held[k].conn = c /\ con[c].held[k].n = Gone(con[c]) + k
BY DEF FlowInv, Flow, OrderInv, HeldOrder

(* An event its client did not cause.                                      *)
LEMMA QuietKeeps ==
  ASSUME FlowInv, NEW c \in Peer, con[c].life = "served", NEW task \in {"settle", "end"},
         NEW kind \in {"drained", "close"}, NEW p,
         p = Reported(c, [con[c] EXCEPT !.task = task, !.wait = NoWait, !.woken = FALSE], kind),
         Apply(c, flush(p, disp, led)),
         lost' = IF Drops(p, disp) THEN lost \cup {c} ELSE lost,
         UNCHANGED <<ring, intake, refused, run, shutdown, failed, host>>
  PROVE  FlowInv'
<1>1. con[c] \in Connection BY StateTypes
<1>2. PICK b : b = [con[c] EXCEPT !.task = task, !.wait = NoWait, !.woken = FALSE] OBVIOUS
<1>3. b \in Connection /\ b.life = "served" /\ b.task = task /\ b.held = con[c].held
      /\ b.said = con[c].said /\ b.sequences = con[c].sequences
  BY <1>1, <1>2 DEF Connection, NoWait, Wait
<1>4. kind \in EventKind /\ kind \notin {"open", "message"} BY DEF EventKind
<1>5. Says(c, b, kind, p) BY <1>2, <1>3, <1>4, ReportedFacts
<1>6. p \in Connection /\ p.life = "served" /\ p.task = task BY <1>3, <1>5 DEF Says
<1>7. Moves(con[c], p, c, lost) BY <1>1, <1>3, <1>5, HeldInOrder, SaysMoves
<1>8. HoldingMessage(p) <=> HoldingMessage(con[c])
  <2>1. HoldingMessage(p) <=> HoldingMessage(b) BY <1>3, <1>4, <1>5, SaysQuietly
  <2> QED BY <1>3, <2>1 DEF HoldingMessage
<1>9. ~failed => Bounded(Way(disp.events, ring), p, c)
  <2>1. ASSUME ~failed PROVE Bounded(Way(disp.events, ring), p, c)
    <3>1. Bounded(Way(disp.events, ring), con[c], c) BY <2>1, BoundParts DEF FlowInv, Flow
    <3>2. Bounded(Way(disp.events, ring), b, c) BY <1>3, <3>1 DEF Bounded, Holding
    <3> QED BY <1>3, <1>4, <1>5, <3>2, SaysQuietly
  <2> QED BY <2>1
<1> QED BY <1>6, <1>7, <1>8, <1>9, SaysKeeps

(* The connection closes.                                                  *)
LEMMA EndKeeps ==
  ASSUME FlowInv, NEW c \in Peer, End(c) PROVE FlowInv'
<1>1. PICK p : p = Reported(c, [con[c] EXCEPT !.task = "end", !.wait = NoWait, !.woken = FALSE], "close")
  OBVIOUS
<1>2. con[c].life = "served" /\ Apply(c, flush(p, disp, led))
      /\ lost' = IF Drops(p, disp) THEN lost \cup {c} ELSE lost
  BY <1>1 DEF End, Only
<1>3. UNCHANGED <<ring, intake, refused, run, shutdown, failed, host>> BY DEF End
<1> QED BY <1>1, <1>2, <1>3, QuietKeeps

(* Numbers of events on the way are their own.                             *)
LEMMA WayUnique ==
  ASSUME FlowInv
  PROVE  \A a, b \in Way(disp.events, ring) : a.seq = b.seq => a = b
<1>1. disp.events \in Seq(Event) /\ led.pushed \in Nat BY StateTypes, DispFields, LedgerFields
<1>2. SeqInv(disp.events, ring, led.pushed, intake.published) BY DEF FlowInv, Flow
<1> QED BY <1>1, <1>2, StateTypes, SeqUnique

(* The client of a connection that is not paused sends a message.          *)
LEMMA MessageKeeps ==
  ASSUME FlowInv, NEW c \in Peer, Report(c, "message") PROVE FlowInv'
<1>1. con[c] \in Connection /\ con[c].life = "served" /\ con[c].task = "wait" /\ ~con[c].wait.paused
  BY StateTypes DEF Report, Only
<1>2. PICK b : b = [con[c] EXCEPT !.task = "settle", !.wait = NoWait, !.woken = FALSE] OBVIOUS
<1>3. b \in Connection /\ b.life = "served" /\ b.task = "settle" /\ b.held = con[c].held
      /\ b.said = con[c].said /\ b.sequences = con[c].sequences
  BY <1>1, <1>2 DEF Connection, NoWait, Wait
<1>4. PICK p : p = Reported(c, b, "message") OBVIOUS
<1>5. Says(c, b, "message", p)
  <2>1. "message" \in EventKind BY DEF EventKind
  <2> QED BY <1>3, <1>4, <2>1, ReportedFacts
<1>6. p \in Connection /\ p.life = "served" /\ p.task = "settle" BY <1>3, <1>5 DEF Says
<1>7. Reads(con[c]) BY <1>1 DEF Reads
<1>8. con[c].held = <<>> /\ Len(con[c].sequences) < MaxPending BY <1>7 DEF FlowInv, ReadsInv
<1>9. Moves(con[c], p, c, lost) BY <1>1, <1>3, <1>5, HeldInOrder, SaysMoves
<1>10. ~failed => Bounded(Way(disp.events, ring), p, c)
  <2>1. ASSUME ~failed PROVE Bounded(Way(disp.events, ring), p, c)
    <3>1. Bounded(Way(disp.events, ring), con[c], c) BY <2>1, BoundParts DEF FlowInv, Flow
    <3>2. PICK way : way = Way(disp.events, ring) OBVIOUS
    <3>3. IsFiniteSet(way) BY <3>2, StateTypes, DispFields, WayFacts
    <3>4. PICK s \in Seq(Nat) : s = con[c].sequences BY <1>1, ConFields
    <3>5. \A a \in way : a.conn = c => \E k \in 1 .. Len(s) : s[k] = a.seq
      BY <1>1, <3>1, <3>2, <3>4 DEF Bounded
    <3>6. \A a, z \in way : a.seq = z.seq => a = z BY <3>2, WayUnique
    <3>7. Cardinality(FromClient(way, c)) \in Nat /\ Cardinality(FromClient(way, c)) <= Len(s)
      BY <3>3, <3>5, <3>6, BySequences
    <3>8. PICK x \in Nat, y \in Nat, m \in Nat :
            x = Cardinality(FromClient(way, c)) /\ y = Len(s) /\ m = MaxPending
      <4>1. Len(s) \in Nat /\ MaxPending \in Nat BY FlowAssumption
      <4> QED BY <3>7, <4>1
    <3>9. x <= y /\ y < m BY <1>8, <3>4, <3>7, <3>8
    <3>10. x + 1 <= m BY <3>8, <3>9
    <3>11. Cardinality(FromClient(way, c)) + 1 <= MaxPending BY <3>8, <3>10
    <3>12. b.held = <<>> /\ b.sequences = s BY <1>3, <1>8, <3>4
    <3>13. Bounded(way, p, c) BY <1>3, <1>5, <3>5, <3>7, <3>11, <3>12, SaysFirst
    <3> QED BY <3>2, <3>13
  <2> QED BY <2>1
<1>11. Apply(c, flush(p, disp, led)) /\ lost' = IF Drops(p, disp) THEN lost \cup {c} ELSE lost
  BY <1>2, <1>4 DEF Report
<1>12. UNCHANGED <<ring, intake, refused, run, shutdown, failed, host>> BY DEF Report
<1> QED BY <1>1, <1>6, <1>7, <1>9, <1>10, <1>11, <1>12, SaysKeeps

(* A drained outbox is reported, paused or not.                            *)
LEMMA DrainedKeeps ==
  ASSUME FlowInv, NEW c \in Peer, Report(c, "drained") PROVE FlowInv'
<1>1. PICK p : p = Reported(c, [con[c] EXCEPT !.task = "settle", !.wait = NoWait, !.woken = FALSE],
                            "drained")
  OBVIOUS
<1>2. con[c].life = "served" /\ Apply(c, flush(p, disp, led))
      /\ lost' = IF Drops(p, disp) THEN lost \cup {c} ELSE lost
  BY <1>1 DEF Report, Only
<1>3. UNCHANGED <<ring, intake, refused, run, shutdown, failed, host>> BY DEF Report
<1> QED BY <1>1, <1>2, <1>3, QuietKeeps

(* What settling leaves of a connection.                                   *)
Settled(p, l, q) ==
  /\ q \in Connection /\ SameOrder(p, q) /\ q.task = p.task
  /\ \A k \in 1 .. Len(p.sequences) : p.sequences[k] > l.acked =>
       \E j \in 1 .. Len(q.sequences) : q.sequences[j] = p.sequences[k]
  /\ ~q.wait.paused => /\ q.held = <<>> /\ Len(q.sequences) < MaxPending
                       /\ outstanding(l) <= HalfBudget

(* Pending::settle drops the numbers up to the floor and decides whether   *)
(* the connection may read.                                                *)
LEMMA SettleFacts ==
  ASSUME NEW p \in Connection, NEW l \in Ledger
  PROVE  Settled(p, l, settle(p, l))
<1>1. PICK s \in Seq(Nat) : s = p.sequences BY ConFields
<1>2. PICK floor \in Nat : floor = l.acked BY LedgerFields
<1>3. PICK n : n = Passed(s, floor) OBVIOUS
<1>4. n \in 0 .. Len(s) /\ \A k \in 1 .. n : s[k] <= floor BY <1>3, PassedFacts
<1>5. PICK kept \in Seq(Nat) : kept = Behind(s, n) BY <1>4, Cut
<1>6. Len(kept) = Len(s) - n /\ \A k \in 1 .. Len(s) - n : kept[k] = s[n + k] BY <1>4, <1>5, Cut
<1>7. PICK room \in BOOLEAN : room = (p.held # <<>>) OBVIOUS
<1>8. PICK pause \in BOOLEAN : pause = (\/ room \/ outstanding(l) > HalfBudget
                                        \/ Len(kept) + Len(p.held) >= MaxPending)
  OBVIOUS
<1>9. PICK w : w = [paused |-> pause, since |-> floor, room |-> room] OBVIOUS
<1>10. w \in Wait /\ w.paused = pause BY <1>9 DEF Wait
<1>11. PICK q : q = [p EXCEPT !.sequences = kept, !.wait = w] OBVIOUS
<1>12. q = settle(p, l)
  BY <1>1, <1>2, <1>3, <1>5, <1>7, <1>8, <1>9, <1>11, Zenon DEF settle
<1>13. q \in Connection /\ q.sequences = kept /\ q.wait = w /\ q.held = p.held /\ q.said = p.said
       /\ q.life = p.life /\ q.task = p.task
  BY <1>10, <1>11 DEF Connection
<1>14. ASSUME NEW k \in 1 .. Len(s), s[k] > floor PROVE \E j \in 1 .. Len(kept) : kept[j] = s[k]
  <2>1. s[k] \in Nat OBVIOUS
  <2>2. k \notin 1 .. n BY <1>4, <1>14, <2>1
  <2>3. k - n \in 1 .. Len(s) - n /\ n + (k - n) = k BY <1>4, <2>2
  <2>4. kept[k - n] = s[k] BY <1>6, <2>3
  <2> QED BY <1>6, <2>3, <2>4
<1>15. ASSUME ~pause
       PROVE  p.held = <<>> /\ Len(kept) < MaxPending /\ outstanding(l) <= HalfBudget
  <2>1. ~room /\ ~(outstanding(l) > HalfBudget) /\ ~(Len(kept) + Len(p.held) >= MaxPending)
    BY <1>8, <1>15
  <2>2. p.held = <<>> BY <1>7, <2>1
  <2>3. Len(kept) \in Nat /\ Len(<<>>) = 0 OBVIOUS
  <2>4. MaxPending \in Nat /\ HalfBudget \in Nat BY FlowAssumption
  <2>5. ~(Len(kept) + 0 >= MaxPending) BY <2>1, <2>2, <2>3
  <2>6. Len(kept) < MaxPending BY <2>3, <2>4, <2>5
  <2>7. PICK x \in Int : x = outstanding(l)
    <3>1. l.pushed_octets \in Nat /\ l.acked_octets \in Nat BY LedgerFields
    <3>2. outstanding(l) \in Int BY <3>1 DEF outstanding
    <3> QED BY <3>2
  <2>8. x <= HalfBudget BY <2>1, <2>4, <2>7
  <2> QED BY <2>2, <2>6, <2>7, <2>8
<1>16. Settled(p, l, q)
  <2>1. SameOrder(p, q) BY <1>13 DEF SameOrder
  <2>2. \A k \in 1 .. Len(p.sequences) : p.sequences[k] > l.acked =>
          \E j \in 1 .. Len(q.sequences) : q.sequences[j] = p.sequences[k]
    BY <1>1, <1>2, <1>13, <1>14
  <2>3. ~q.wait.paused => /\ q.held = <<>> /\ Len(q.sequences) < MaxPending
                          /\ outstanding(l) <= HalfBudget
    BY <1>10, <1>13, <1>15
  <2> QED BY <1>13, <2>1, <2>2, <2>3 DEF Settled
<1> QED BY <1>12, <1>16

(* What settling leaves is bounded as before: what is on the way is above  *)
(* the floor.                                                              *)
LEMMA BoundedSettled ==
  ASSUME NEW way, NEW p \in Connection, NEW l \in Ledger, NEW q, Settled(p, l, q), NEW c,
         Bounded(way, p, c), \A a \in way : l.acked < a.seq, way \subseteq Event
  PROVE  Bounded(way, q, c)
<1>1. q.held = p.held /\ q.life = p.life BY DEF Settled, SameOrder
<1>2. ASSUME q.life = "served", NEW a \in way, a.conn = c
      PROVE  \E k \in 1 .. Len(q.sequences) : q.sequences[k] = a.seq
  <2>1. PICK k \in 1 .. Len(p.sequences) : p.sequences[k] = a.seq BY <1>1, <1>2 DEF Bounded
  <2>2. a.seq \in Nat /\ l.acked \in Nat BY EventFields, LedgerFields
  <2>3. p.sequences[k] > l.acked BY <2>1, <2>2
  <2> QED BY <2>1, <2>3 DEF Settled
<1>3. Holding(q) <=> Holding(p) BY <1>1 DEF Holding
<1> QED BY <1>1, <1>2, <1>3 DEF Bounded

(* The budget bounds the messages on the way when the ledger allows reads. *)
LEMMA WithinBudget ==
  ASSUME NEW d \in Dispatcher, NEW rng \in [Entry -> Held], NEW l \in Ledger, NEW published,
         LedgerInv(d.events, rng, l, published), outstanding(l) <= HalfBudget
  PROVE  Cardinality(Messages(Way(d.events, rng))) <= HalfBudget
<1>1. PICK way : way = Way(d.events, rng) OBVIOUS
<1>2. IsFiniteSet(way) /\ way \subseteq Event BY <1>1, DispFields, WayFacts
<1>3. \A a \in way : l.acked < a.seq BY <1>1 DEF LedgerInv
<1>4. \A a \in way : a.seq \in Nat /\ l.acked \in Nat BY <1>2, EventFields, LedgerFields
<1>5. \A a \in way : a.seq > l.acked BY <1>3, <1>4
<1>6. Later(way, l.acked) = Messages(way) BY <1>5 DEF Later, Messages
<1>7. l.acked_octets + Cardinality(Messages(way)) <= l.pushed_octets BY <1>1, <1>6 DEF LedgerInv
<1>8. Messages(way) \subseteq way BY DEF Messages
<1>9. PICK m \in Nat, x \in Nat, y \in Nat, h \in Nat :
        m = Cardinality(Messages(way)) /\ x = l.acked_octets /\ y = l.pushed_octets /\ h = HalfBudget
  BY <1>2, <1>8, PartCard, LedgerFields, FlowAssumption
<1>10. x + m <= y /\ y - x <= h BY <1>7, <1>9 DEF outstanding
<1>11. m <= h BY <1>9, <1>10
<1> QED BY <1>1, <1>9, <1>11

(* A task hands over what it holds already.                                *)
LEMMA SelfFlush ==
  ASSUME FlowInv, NEW c \in Peer, con[c].life = "served", NEW f, Flushed(con[c], disp, led, f),
         NEW cn \in [Peer -> Connection], cn[c] = f.p, \A x \in Peer : x # c => cn[x] = con[x],
         NEW more, lost \subseteq more, Drops(con[c], disp) => c \in more
  PROVE  Flow(f.d, ring, f.l, refused, cn, host.last, more, intake.published, failed)
<1>1. con[c] \in Connection BY StateTypes
<1>2. Gone(con[c]) \in Int BY <1>1, ConFields
<1>3. Gone(con[c]) <= Gone(con[c]) BY <1>2
<1>4. Moves(con[c], con[c], c, lost) BY <1>3, HeldInOrder DEF Moves
<1>5. ~failed => Bounded(Way(disp.events, ring), con[c], c) BY BoundParts DEF FlowInv, Flow
<1>6. Reads(con[c]) => ~Holding(con[c])
  <2>1. ASSUME Reads(con[c]) PROVE ~Holding(con[c])
    <3>1. con[c].held = <<>> BY <2>1 DEF FlowInv, ReadsInv
    <3>2. \A k \in 1 .. Len(con[c].held) : FALSE BY <3>1
    <3> QED BY <3>2 DEF Holding
  <2> QED BY <2>1
<1> QED BY <1>1, <1>4, <1>5, <1>6, ServedFlush

(* A task settles and goes on to wait, or to settle again.                 *)
LEMMA SettledKeeps ==
  ASSUME FlowInv, NEW c \in Peer, con[c].life = "served", NEW f, Flushed(con[c], disp, led, f),
         NEW p, Settled(f.p, f.l, p), NEW z \in Connection, SameOrder(p, z), SameBound(p, z),
         z.wait = p.wait, con' = [con EXCEPT ![c] = z], disp' = f.d, led' \in Ledger,
         SameLedger(f.l, led'), lost' = IF Drops(con[c], disp) THEN lost \cup {c} ELSE lost,
         UNCHANGED <<ring, intake, refused, run, shutdown, failed, host>>
  PROVE  FlowInv'
<1>1. f.p \in Connection /\ f.d \in Dispatcher /\ f.l \in Ledger /\ SameBut(disp, f.d)
      /\ f.p.life = "served"
  BY DEF Flushed, SameTask
<1>2. PICK cn : cn = [con EXCEPT ![c] = f.p] OBVIOUS
<1>3. cn \in [Peer -> Connection] /\ cn[c] = f.p /\ \A x \in Peer : x # c => cn[x] = con[x]
  BY <1>1, <1>2, StateTypes
<1>4. lost \subseteq lost' /\ (Drops(con[c], disp) => c \in lost') OBVIOUS
<1>5. Flow(f.d, ring, f.l, refused, cn, host.last, lost', intake.published, failed)
  BY <1>3, <1>4, SelfFlush
<1>6. con' \in [Peer -> Connection] /\ con'[c] = z /\ \A x \in Peer : x # c => con'[x] = cn[x]
  BY <1>3, StateTypes
<1>7. PICK way : way = Way(f.d.events, ring) OBVIOUS
<1>8. way \subseteq Event /\ IsFiniteSet(way) BY <1>1, <1>7, StateTypes, DispFields, WayFacts
<1>9. z.held = f.p.held /\ z.said = f.p.said /\ z.life = "served" /\ z.sequences = p.sequences
  BY <1>1 DEF Settled, SameOrder, SameBound
<1>10. Moves(f.p, z, c, lost')
  <2>1. OrderInv(way, refused, cn, host.last, lost') BY <1>5, <1>7 DEF Flow
  <2>2. \A k \in 1 .. Len(f.p.held) : f.p.held[k].conn = c /\ f.p.held[k].n = Gone(f.p) + k
    BY <1>3, <2>1 DEF OrderInv, HeldOrder
  <2>3. Gone(z) = Gone(f.p) /\ Gone(f.p) \in Int BY <1>1, <1>9, ConFields DEF Gone
  <2>4. Gone(f.p) <= Gone(z) BY <2>3
  <2> QED BY <1>9, <2>2, <2>3, <2>4 DEF Moves
<1>11. ~failed => Bounded(way, z, c)
  <2>1. ASSUME ~failed PROVE Bounded(way, z, c)
    <3>1. BoundInv(way, cn) /\ LedgerInv(f.d.events, ring, f.l, intake.published)
      BY <1>5, <1>7, <2>1 DEF Flow
    <3>2. Bounded(way, f.p, c) BY <1>3, <3>1, BoundParts
    <3>3. \A a \in way : f.l.acked < a.seq BY <1>7, <3>1 DEF LedgerInv
    <3>4. Bounded(way, p, c) BY <1>1, <1>8, <3>2, <3>3, BoundedSettled
    <3> QED BY <3>4 DEF Bounded, SameBound, Holding
  <2> QED BY <2>1
<1>12. HoldingMessage(z) <=> HoldingMessage(f.p) BY <1>9 DEF HoldingMessage
<1>13. ~failed => \/ (Reads(z) \/ HoldingMessage(z)) => (Reads(f.p) \/ HoldingMessage(f.p))
                  \/ Cardinality(Messages(way)) <= HalfBudget
  <2>1. ASSUME ~failed, Reads(z) PROVE Cardinality(Messages(way)) <= HalfBudget
    <3>1. ~p.wait.paused BY <2>1 DEF Reads
    <3>2. outstanding(f.l) <= HalfBudget BY <3>1 DEF Settled
    <3>3. LedgerInv(f.d.events, ring, f.l, intake.published) BY <1>5, <2>1 DEF Flow
    <3> QED BY <1>1, <1>7, <3>2, <3>3, StateTypes, WithinBudget
  <2> QED BY <1>12, <2>1
<1>14. Flow(f.d, ring, f.l, refused, con', host.last, lost', intake.published, failed)
  <2>1. PICK d, l, next, more : d = f.d /\ l = f.l /\ next = con' /\ more = lost' OBVIOUS
  <2>2. d \in Dispatcher /\ next \in [Peer -> Connection] /\ next[c] = z
        /\ \A x \in Peer : x # c => next[x] = cn[x]
    BY <1>1, <1>6, <2>1
  <2>3. cn[c].life # "over" /\ Moves(cn[c], next[c], c, more) BY <1>1, <1>3, <1>10, <2>1, <2>2
  <2>4. ~failed => Bounded(Way(d.events, ring), next[c], c) BY <1>7, <1>11, <2>1, <2>2
  <2>5. ~failed => \/ (Reads(next[c]) \/ HoldingMessage(next[c]))
                        => (Reads(cn[c]) \/ HoldingMessage(cn[c]))
                   \/ Cardinality(Messages(Way(d.events, ring))) <= HalfBudget
    BY <1>3, <1>7, <1>13, <2>1, <2>2
  <2>6. Flow(d, ring, l, refused, cn, host.last, more, intake.published, failed) BY <1>5, <2>1
  <2>7. Flow(d, ring, l, refused, next, host.last, more, intake.published, failed)
    BY <1>3, <2>2, <2>3, <2>4, <2>5, <2>6, StateTypes, FlowOne
  <2> QED BY <2>1, <2>7
<1>15. Flow(disp', ring, led', refused', con', host.last, lost', intake.published, failed)
  BY <1>14, FlowRest
<1>16. ~failed => disp'.connections = Cardinality(Counted(con'))
  BY <1>1, <1>3, <1>6, <1>9, CountKept DEF SameBut
<1>17. disp'.unacked = disp.unacked /\ disp'.draining = disp.draining /\ disp' \in Dispatcher
       /\ refused' \in Seq(Event)
  BY <1>1, StateTypes DEF SameBut
<1>18. Reads(con'[c]) => con'[c].held = <<>> /\ Len(con'[c].sequences) < MaxPending
  <2>1. ASSUME Reads(z) PROVE z.held = <<>> /\ Len(z.sequences) < MaxPending
    <3>1. ~p.wait.paused BY <2>1 DEF Reads
    <3>2. p.held = <<>> /\ Len(p.sequences) < MaxPending BY <3>1 DEF Settled
    <3> QED BY <3>2 DEF SameBound
  <2> QED BY <1>6, <2>1
<1>19. \A x \in Peer : x # c => con'[x] = con[x] BY <1>3, <1>6
<1> QED BY <1>6, <1>15, <1>16, <1>17, <1>18, <1>19, TaskKeeps

(* Registering for a wait leaves the counts of the ledger.                 *)
LEMMA RegisteredFacts ==
  ASSUME NEW l \in Ledger, NEW w, NEW c \in Peer
  PROVE  Registered(l, w, c) \in Ledger /\ SameLedger(l, Registered(l, w, c))
<1>1. CASE w.room
  <2>1. PICK S \in SUBSET Peer : S = l.for_room \cup {c} BY DEF Ledger
  <2>2. Registered(l, w, c) = [l EXCEPT !.for_room = S] BY <1>1, <2>1 DEF Registered
  <2> QED BY <2>1, <2>2 DEF Ledger, SameLedger
<1>2. CASE ~w.room
  <2>1. PICK S \in SUBSET Peer : S = l.for_acks \cup {c} BY DEF Ledger
  <2>2. Registered(l, w, c) = [l EXCEPT !.for_acks = S] BY <1>2, <2>1 DEF Registered
  <2> QED BY <2>1, <2>2 DEF Ledger, SameLedger
<1> QED BY <1>1, <1>2

(* A connection whose task goes on elsewhere.                              *)
Turns(p, z) == z \in Connection /\ SameOrder(p, z) /\ SameBound(p, z) /\ z.wait = p.wait

(* What that leaves.                                                       *)
LEMMA TurnsFacts ==
  ASSUME NEW p \in Connection, NEW task \in {"none", "settle", "wait", "end", "endwait"}
  PROVE  /\ Turns(p, [p EXCEPT !.task = task])
         /\ Turns(p, [p EXCEPT !.task = task, !.woken = FALSE])
         /\ Turns(p, [p EXCEPT !.woken = FALSE, !.task = task])
  BY DEF Turns, SameOrder, SameBound, Connection

(* The loop of a task settles, and waits or settles again.                 *)
LEMMA SettleKeeps ==
  ASSUME FlowInv, NEW c \in Peer, Settle(c) PROVE FlowInv'
<1>1. PICK f : f = flush(con[c], disp, led) OBVIOUS
<1>2. con[c] \in Connection /\ disp \in Dispatcher /\ led \in Ledger /\ Len(disp.events) <= QueueBound
  BY StateTypes
<1>3. Flushed(con[c], disp, led, f) BY <1>1, <1>2, FlushFacts
<1>4. PICK p : p = settle(f.p, f.l) OBVIOUS
<1>5. f.p \in Connection /\ f.l \in Ledger BY <1>3 DEF Flushed
<1>6. Settled(f.p, f.l, p) BY <1>4, <1>5, SettleFacts
<1>7. p \in Connection BY <1>6 DEF Settled
<1>8. PICK z : z = IF p.wait.paused /\ ~(p.wait.paused /\ ~Changed(f.l, p.wait))
                   THEN [p EXCEPT !.task = "settle"]
                   ELSE [p EXCEPT !.task = "wait", !.woken = FALSE]
  OBVIOUS
<1>9. Turns(p, z) BY <1>7, <1>8, TurnsFacts
<1>10. con' = [con EXCEPT ![c] = z] BY <1>1, <1>4, <1>8 DEF Settle
<1>11. disp' = f.d /\ lost' = (IF Drops(con[c], disp) THEN lost \cup {c} ELSE lost)
       /\ UNCHANGED <<ring, intake, refused, run, shutdown, failed, host>>
       /\ con[c].life = "served"
  BY <1>1 DEF Settle, Only
<1>12. led' = Registered(f.l, p.wait, c) \/ led' = f.l BY <1>1, <1>4 DEF Settle
<1>13. SameLedger(f.l, f.l) BY DEF SameLedger
<1>14. led' \in Ledger /\ SameLedger(f.l, led') BY <1>5, <1>12, <1>13, RegisteredFacts
<1> QED BY <1>3, <1>6, <1>9, <1>10, <1>11, <1>14, SettledKeeps DEF Turns

(* A connection that ends holds nothing.                                   *)
LEMMA OverFacts ==
  ASSUME NEW p \in Connection
  PROVE  /\ Over(p) \in Connection /\ Over(p).life = "over" /\ Over(p).held = <<>>
         /\ Over(p).said = p.said /\ ~Reads(Over(p)) /\ ~HoldingMessage(Over(p))
<1>1. Over(p) \in Connection /\ Over(p).life = "over" /\ Over(p).held = <<>>
      /\ Over(p).said = p.said /\ Over(p).task = "none"
  <2>1. PICK w \in Wait : w = NoWait BY DEF NoWait, Wait
  <2>2. <<>> \in Seq(Event) /\ <<>> \in Seq(Nat) OBVIOUS
  <2>3. Over(p) = [p EXCEPT !.life = "over", !.task = "none", !.held = <<>>, !.sequences = <<>>,
                            !.wait = w, !.woken = FALSE]
    BY <2>1 DEF Over
  <2> QED BY <2>2, <2>3 DEF Connection
<1>2. \A k \in 1 .. Len(Over(p).held) : FALSE BY <1>1
<1> QED BY <1>1, <1>2 DEF Reads, HoldingMessage

(* A task is over once it handed over or dropped what it held.             *)
LEMMA OverKeeps ==
  ASSUME FlowInv, NEW c \in Peer, con[c].life = "served", NEW d \in Dispatcher, NEW l \in Ledger,
         NEW p \in Connection, NEW cn \in [Peer -> Connection], cn[c] = p,
         \A x \in Peer : x # c => cn[x] = con[x], p.life = "served", NEW more, NEW q \in Connection,
         q.said = p.said, q.held = p.held,
         Flow(d, ring, l, refused, cn, host.last, more, intake.published, failed),
         SameBut(disp, d), con' = [con EXCEPT ![c] = Over(q)], disp' = closed(d), led' = l,
         more \subseteq lost', p.held = <<>> \/ c \in lost',
         UNCHANGED <<ring, intake, refused, run, shutdown, failed, host>>
  PROVE  FlowInv'
<1>1. PICK z : z = Over(q) OBVIOUS
<1>2. z \in Connection /\ z.life = "over" /\ z.held = <<>> /\ z.said = p.said /\ ~Reads(z)
      /\ ~HoldingMessage(z)
  BY <1>1, OverFacts
<1>3. PICK next, gone : next = con' /\ gone = lost' OBVIOUS
<1>4. next \in [Peer -> Connection] /\ next[c] = z /\ \A x \in Peer : x # c => next[x] = con[x]
  BY <1>1, <1>2, <1>3, StateTypes
<1>5. PICK way : way = Way(d.events, ring) OBVIOUS
<1>6. IsFiniteSet(way) BY <1>5, StateTypes, DispFields, WayFacts
<1>7. Moves(p, z, c, gone)
  <2>1. PICK x \in Nat : x = p.said BY ConFields
  <2>2. PICK y \in Nat : y = Len(p.held) BY ConFields
  <2>3. Gone(z) = x BY <1>2, <2>1, GoneEmpty
  <2>4. Gone(p) = x - y BY <2>1, <2>2 DEF Gone
  <2>5. p.held = <<>> => y = 0 BY <2>2
  <2>6. Gone(p) <= Gone(z) /\ (c \in gone \/ Gone(z) = Gone(p)) BY <1>3, <2>1, <2>2, <2>3, <2>4, <2>5
  <2>7. \A k \in 1 .. Len(z.held) : FALSE BY <1>2
  <2> QED BY <1>2, <2>6, <2>7 DEF Moves
<1>8. ~failed => Bounded(way, z, c)
  <2>1. ASSUME ~failed PROVE Bounded(way, p, c) BY <1>5, <2>1, BoundParts DEF Flow
  <2> QED BY <1>2, <1>6, <2>1, BoundedOver
<1>9. Flow(d, ring, l, refused, next, host.last, gone, intake.published, failed)
  <2>1. more \subseteq gone /\ cn[c].life # "over" /\ \A x \in Peer : x # c => next[x] = cn[x]
    BY <1>3, <1>4
  <2>2. Moves(cn[c], next[c], c, gone) BY <1>4, <1>7
  <2>3. ~failed => Bounded(Way(d.events, ring), next[c], c) BY <1>4, <1>5, <1>8
  <2>4. ~failed => \/ (Reads(next[c]) \/ HoldingMessage(next[c]))
                        => (Reads(cn[c]) \/ HoldingMessage(cn[c]))
                   \/ Cardinality(Messages(Way(d.events, ring))) <= HalfBudget
    BY <1>2, <1>4
  <2> QED BY <1>4, <2>1, <2>2, <2>3, <2>4, StateTypes, FlowOne
<1>10. disp' \in Dispatcher /\ disp'.events = d.events /\ disp'.unacked = disp.unacked
       /\ disp'.draining = disp.draining
  BY ClosedFacts DEF SameBut
<1>11. SameLedger(l, l) BY DEF SameLedger
<1>12. Flow(disp', ring, led', refused', con', host.last, lost', intake.published, failed)
  <2>1. PICK e : e = disp' OBVIOUS
  <2>2. e.events = d.events BY <1>10, <2>1
  <2>3. Flow(e, ring, l, refused, next, host.last, gone, intake.published, failed)
    BY <1>9, <1>11, <2>2, FlowRest
  <2> QED BY <1>3, <2>1, <2>3
<1>13. ~failed => disp'.connections = Cardinality(Counted(con'))
  BY <1>2, <1>3, <1>4, CountEnds DEF SameBut
<1>14. con' \in [Peer -> Connection] /\ (\A x \in Peer : x # c => con'[x] = con[x]) /\ ~Reads(con'[c])
  BY <1>2, <1>3, <1>4
<1>15. led' \in Ledger /\ refused' \in Seq(Event) BY StateTypes
<1> QED BY <1>10, <1>12, <1>13, <1>14, <1>15, TaskKeeps

(* The close event goes out, then the connection is over.                  *)
LEMMA EndingKeeps ==
  ASSUME FlowInv, NEW c \in Peer, Ending(c) PROVE FlowInv'
<1>1. PICK f : f = flush(con[c], disp, led) OBVIOUS
<1>2. con[c] \in Connection /\ disp \in Dispatcher /\ led \in Ledger /\ Len(disp.events) <= QueueBound
  BY StateTypes
<1>3. Flushed(con[c], disp, led, f) BY <1>1, <1>2, FlushFacts
<1>4. PICK p : p = settle(f.p, f.l) OBVIOUS
<1>5. f.p \in Connection /\ f.l \in Ledger /\ f.d \in Dispatcher /\ SameBut(disp, f.d)
      /\ f.p.life = con[c].life
  BY <1>3 DEF Flushed, SameTask
<1>6. Settled(f.p, f.l, p) BY <1>4, <1>5, SettleFacts
<1>7. p \in Connection /\ p.held = f.p.held /\ p.said = f.p.said BY <1>6 DEF Settled, SameOrder
<1>8. lost' = (IF Drops(con[c], disp) THEN lost \cup {c} ELSE lost)
      /\ UNCHANGED <<ring, intake, refused, run, shutdown, failed, host>>
      /\ con[c].life = "served"
  BY DEF Ending, Only
<1>9. CASE p.held = <<>>
  <2>1. con' = [con EXCEPT ![c] = Over(p)] /\ disp' = closed(f.d) /\ led' = f.l
    BY <1>1, <1>4, <1>9 DEF Ending
  <2>2. PICK cn : cn = [con EXCEPT ![c] = f.p] OBVIOUS
  <2>3. cn \in [Peer -> Connection] /\ cn[c] = f.p /\ \A x \in Peer : x # c => cn[x] = con[x]
    BY <1>5, <2>2, StateTypes
  <2>4. PICK more : more = lost' OBVIOUS
  <2>5. lost \subseteq more /\ (Drops(con[c], disp) => c \in more) BY <1>8, <2>4
  <2>6. Flow(f.d, ring, f.l, refused, cn, host.last, more, intake.published, failed)
    BY <1>3, <1>8, <2>3, <2>5, SelfFlush
  <2>7. more \subseteq lost' BY <2>4
  <2>8. f.p.held = <<>> BY <1>7, <1>9
  <2> QED BY <1>5, <1>7, <1>8, <2>1, <2>3, <2>6, <2>7, <2>8, OverKeeps
<1>10. CASE p.held # <<>>
  <2>1. PICK z : z = [p EXCEPT !.woken = FALSE,
                               !.task = IF Changed(f.l, p.wait) THEN "end" ELSE "endwait"]
    OBVIOUS
  <2>2. Turns(p, z) BY <1>7, <2>1, TurnsFacts
  <2>3. con' = [con EXCEPT ![c] = z] /\ disp' = f.d BY <1>1, <1>4, <1>10, <2>1 DEF Ending
  <2>4. led' = Registered(f.l, p.wait, c) \/ led' = f.l BY <1>1, <1>4, <1>10 DEF Ending
  <2>5. SameLedger(f.l, f.l) BY DEF SameLedger
  <2>6. led' \in Ledger /\ SameLedger(f.l, led') BY <1>5, <2>4, <2>5, RegisteredFacts
  <2> QED BY <1>3, <1>6, <1>8, <2>2, <2>3, <2>6, SettledKeeps DEF Turns
<1> QED BY <1>9, <1>10

(* The task is dropped at the drain's deadline.                            *)
LEMMA DropTaskKeeps ==
  ASSUME FlowInv, NEW c \in Peer, DropTask(c) PROVE FlowInv'
<1>1. con[c] \in Connection /\ disp \in Dispatcher /\ led \in Ledger /\ Len(disp.events) <= QueueBound
  BY StateTypes
<1>2. con[c].life = "served" /\ UNCHANGED <<ring, intake, refused, run, shutdown, failed, host>>
  BY DEF DropTask, Only
<1>3. PICK p : p = IF con[c].task \in {"end", "endwait"} THEN con[c] ELSE Reported(c, con[c], "close")
  OBVIOUS
<1>4. PICK f : f = flush(p, disp, led) OBVIOUS
<1>5. con' = [con EXCEPT ![c] = Over(f.p)] /\ disp' = closed(f.d) /\ led' = f.l
      /\ lost' = IF f.p.held # <<>> \/ Drops(p, disp) THEN lost \cup {c} ELSE lost
  BY <1>3, <1>4 DEF DropTask
<1>6. Reads(con[c]) => ~Holding(con[c])
  <2>1. ASSUME Reads(con[c]) PROVE ~Holding(con[c])
    <3>1. con[c].held = <<>> BY <2>1 DEF FlowInv, ReadsInv
    <3>2. \A k \in 1 .. Len(con[c].held) : FALSE BY <3>1
    <3> QED BY <3>2 DEF Holding
  <2> QED BY <2>1
<1>7. ~failed => Bounded(Way(disp.events, ring), con[c], c) BY BoundParts DEF FlowInv, Flow
<1>8. /\ p \in Connection /\ p.life = "served" /\ Moves(con[c], p, c, lost)
      /\ (~failed => Bounded(Way(disp.events, ring), p, c))
      /\ ((Reads(p) \/ HoldingMessage(p)) => (Reads(con[c]) \/ HoldingMessage(con[c])))
      /\ (Reads(p) => ~Holding(p))
  <2>1. CASE con[c].task \in {"end", "endwait"}
    <3>1. p = con[c] BY <1>3, <2>1
    <3>2. Gone(con[c]) \in Int BY <1>1, ConFields
    <3>3. Gone(con[c]) <= Gone(con[c]) BY <3>2
    <3>4. Moves(con[c], con[c], c, lost) BY <1>2, <3>3, HeldInOrder DEF Moves
    <3> QED BY <1>1, <1>2, <1>6, <1>7, <3>1, <3>4
  <2>2. CASE con[c].task \notin {"end", "endwait"}
    <3>1. p = Reported(c, con[c], "close") BY <1>3, <2>2
    <3>2. Says(c, con[c], "close", p) BY <1>1, <3>1, ReportedFacts DEF EventKind
    <3>3. p \in Connection /\ p.life = "served" /\ (Reads(p) <=> Reads(con[c]))
      BY <1>2, <3>2 DEF Says, Reads
    <3>4. Moves(con[c], p, c, lost) BY <1>1, <1>2, <3>2, HeldInOrder, SaysMoves
    <3>5. /\ Holding(p) <=> Holding(con[c])
          /\ HoldingMessage(p) <=> HoldingMessage(con[c])
          /\ \A way : Bounded(way, con[c], c) => Bounded(way, p, c)
      BY <1>1, <3>2, SaysQuietly DEF EventKind
    <3> QED BY <1>6, <1>7, <3>3, <3>4, <3>5
  <2> QED BY <2>1, <2>2
<1>9. Flushed(p, disp, led, f) BY <1>1, <1>4, <1>8, FlushFacts
<1>10. f.p \in Connection /\ f.l \in Ledger /\ f.d \in Dispatcher /\ SameBut(disp, f.d)
       /\ f.p.life = "served"
  BY <1>8, <1>9 DEF Flushed, SameTask
<1>11. PICK cn : cn = [con EXCEPT ![c] = f.p] OBVIOUS
<1>12. cn \in [Peer -> Connection] /\ cn[c] = f.p /\ \A x \in Peer : x # c => cn[x] = con[x]
  BY <1>10, <1>11, StateTypes
<1>13. PICK more : more = lost' OBVIOUS
<1>14. lost \subseteq more /\ (Drops(p, disp) => c \in more) BY <1>5, <1>13
<1>15. Flow(f.d, ring, f.l, refused, cn, host.last, more, intake.published, failed)
  BY <1>2, <1>8, <1>9, <1>12, <1>14, ServedFlush
<1>16. more \subseteq lost' /\ (f.p.held = <<>> \/ c \in lost') BY <1>5, <1>13
<1> QED BY <1>2, <1>5, <1>10, <1>12, <1>15, <1>16, OverKeeps

-----------------------------------------------------------------------------
(* Time and the host.                                                      *)

(* A step that leaves the dispatcher's task where it is, and every         *)
(* connection's life and events, keeps the invariant when what is on the   *)
(* way and in the ring stays in shape.                                     *)
LEMMA StillKeeps ==
  ASSUME FlowInv, FlowType', UNCHANGED <<refused, run, failed, lost>>,
         \A x \in Peer : SameOrder(con[x], con'[x]), ReadsInv(con'),
         disp'.events = disp.events, disp'.unacked = disp.unacked,
         disp'.connections = disp.connections, disp'.draining = disp.draining, shutdown => shutdown',
         run = "done" /\ ~failed => host'.last = host.last,
         Flow(disp', ring', led', refused, con', host'.last, lost, intake'.published, failed),
         RingInv(disp.unacked, ring', intake'.published, intake'.acked, host'.queue, host'.ack, failed)
  PROVE  FlowInv'
<1>1. Counted(con') = Counted(con) BY DEF Counted, SameOrder
<1>2. LifeInv'
  <2>1. failed' => run' = "done" BY DEF FlowInv, LifeInv
  <2>2. ~failed' => disp'.connections = Cardinality(Counted(con')) BY <1>1 DEF FlowInv, LifeInv
  <2>3. disp'.draining => shutdown' BY DEF FlowInv, LifeInv
  <2>4. ASSUME run' = "done", ~failed' PROVE disp'.draining /\ DrainedEmpty'
    <3>1. disp.draining /\ DrainedEmpty /\ host'.last = host.last BY <2>4 DEF FlowInv, LifeInv
    <3> QED BY <3>1 DEF DrainedEmpty, SameOrder
  <2> QED BY <2>1, <2>2, <2>3, <2>4 DEF LifeInv
<1>3. Flow(disp', ring', led', refused', con', host'.last, lost', intake'.published, failed') OBVIOUS
<1>4. RingInv(disp'.unacked, ring', intake'.published, intake'.acked, host'.queue, host'.ack, failed')
  OBVIOUS
<1> QED BY <1>2, <1>3, <1>4 DEF FlowInv

(* The connections stay.                                                   *)
LEMMA HostKeeps ==
  ASSUME FlowInv, UNCHANGED <<disp, led, con, refused, run, failed, lost>>, shutdown => shutdown',
         ring' \in [Entry -> Held], intake' \in Inbox, host' \in Hosts,
         run = "done" /\ ~failed => host'.last = host.last,
         Flow(disp, ring', led, refused, con, host'.last, lost, intake'.published, failed),
         RingInv(disp.unacked, ring', intake'.published, intake'.acked, host'.queue, host'.ack, failed)
  PROVE  FlowInv'
<1>1. FlowType' BY DEF FlowInv, FlowType
<1>2. \A x \in Peer : SameOrder(con[x], con'[x]) BY DEF SameOrder
<1>3. ReadsInv(con') BY DEF FlowInv
<1>4. Flow(disp', ring', led', refused, con', host'.last, lost, intake'.published, failed) OBVIOUS
<1> QED BY <1>1, <1>2, <1>3, <1>4, StillKeeps

(* The timer fires.                                                        *)
LEMMA RetryDueKeeps ==
  ASSUME FlowInv, RetryDue PROVE FlowInv'
<1>1. PICK e : e = disp' OBVIOUS
<1>2. e = [disp EXCEPT !.retry = "due"] /\ disp \in Dispatcher BY <1>1, StateTypes DEF RetryDue
<1>3. e \in Dispatcher /\ e.events = disp.events /\ e.unacked = disp.unacked
      /\ e.connections = disp.connections /\ e.draining = disp.draining
  BY <1>2 DEF Dispatcher
<1>4. UNCHANGED <<ring, intake, led, refused, con, run, shutdown, failed, host, lost>>
  BY DEF RetryDue
<1>5. FlowType' BY <1>1, <1>3, <1>4 DEF FlowInv, FlowType
<1>6. SameLedger(led, led) BY DEF SameLedger
<1>7. Flow(e, ring, led, refused, con, host.last, lost, intake.published, failed)
  BY <1>3, <1>6, StateTypes, FlowRest
<1>8. Flow(disp', ring', led', refused, con', host'.last, lost, intake'.published, failed)
  BY <1>1, <1>4, <1>7
<1>9. RingInv(disp.unacked, ring', intake'.published, intake'.acked, host'.queue, host'.ack, failed)
  BY <1>4 DEF FlowInv
<1>10. \A x \in Peer : SameOrder(con[x], con'[x]) BY <1>4 DEF SameOrder
<1>11. ReadsInv(con') BY <1>4 DEF FlowInv
<1> QED BY <1>1, <1>3, <1>4, <1>5, <1>8, <1>9, <1>10, <1>11, StillKeeps

(* The worker is told to shut down.                                        *)
LEMMA ShutdownKeeps ==
  ASSUME FlowInv, Shutdown PROVE FlowInv'
<1>1. UNCHANGED <<disp, led, con, refused, run, failed, lost, ring, intake, host>>
  BY DEF Shutdown
<1>2. intake' \in Inbox /\ host' \in Hosts /\ ring' \in [Entry -> Held] BY <1>1 DEF FlowInv, FlowType
<1>3. Flow(disp, ring', led, refused, con, host'.last, lost, intake'.published, failed)
  BY <1>1, StateTypes
<1>4. RingInv(disp.unacked, ring', intake'.published, intake'.acked, host'.queue, host'.ack, failed)
  BY <1>1 DEF FlowInv
<1> QED BY <1>1, <1>2, <1>3, <1>4, HostKeeps DEF Shutdown

(* A change in the intake's inbox.                                         *)
LEMMA DirtiedFacts ==
  ASSUME NEW i \in Inbox
  PROVE  /\ Dirtied(i) \in Inbox /\ Dirtied(i).published = i.published /\ Dirtied(i).acked = i.acked
         /\ Dirtied(i).detach = i.detach /\ Dirtied(i).attach = i.attach
<1>1. PICK b \in BOOLEAN : b = (i.woken \/ (i.waker /\ run = "asleep"))
  <2>1. (i.woken \/ (i.waker /\ run = "asleep")) \in BOOLEAN BY DEF Inbox
  <2> QED BY <2>1, Zenon
<1>2. Dirtied(i) = [i EXCEPT !.dirty = TRUE, !.woken = b, !.waker = FALSE] BY <1>1 DEF Dirtied
<1> QED BY <1>2 DEF Inbox

(* A host's step that leaves its queue, what it took and both epochs.      *)
LEMMA TargetKeeps ==
  ASSUME FlowInv, UNCHANGED <<disp, led, con, refused, run, failed, lost, ring, shutdown>>,
         intake' \in Inbox, host' \in Hosts, intake'.published = intake.published,
         intake'.acked = intake.acked, host'.queue = host.queue, host'.last = host.last,
         host'.ack \in {0, host.ack}
  PROVE  FlowInv'
<1>1. RingInv(disp.unacked, ring, intake.published, intake.acked, host.queue, host.ack, failed)
  BY DEF FlowInv
<1>2. disp \in Dispatcher BY StateTypes
<1>3. RingInv(disp.unacked, ring, intake.published, intake.acked, host.queue, 0, failed)
  BY <1>1, <1>2, StateTypes, DispFields, RingAck
<1>4. RingInv(disp.unacked, ring', intake'.published, intake'.acked, host'.queue, host'.ack, failed)
  BY <1>1, <1>3
<1>5. Flow(disp, ring', led, refused, con, host'.last, lost, intake'.published, failed)
  BY StateTypes
<1>6. ring' \in [Entry -> Held] BY StateTypes
<1> QED BY <1>4, <1>5, <1>6, HostKeeps

(* The target is detached.                                                 *)
LEMMA DetachKeeps ==
  ASSUME FlowInv, Detach PROVE FlowInv'
<1>1. intake \in Inbox /\ host \in Hosts BY DEF FlowInv, FlowType
<1>2. PICK i : i = [intake EXCEPT !.detach = TRUE, !.attach = 0] OBVIOUS
<1>3. i \in Inbox /\ i.published = intake.published /\ i.acked = intake.acked BY <1>1, <1>2 DEF Inbox
<1>4. intake' = Dirtied(i) BY <1>2 DEF Detach
<1>5. host' = [host EXCEPT !.attached = 0, !.alive = 0, !.ack = 0] BY DEF Detach
<1>6. host' \in Hosts /\ host'.queue = host.queue /\ host'.last = host.last /\ host'.ack = 0
  BY <1>1, <1>5 DEF Hosts
<1>7. intake' \in Inbox /\ intake'.published = intake.published /\ intake'.acked = intake.acked
  BY <1>3, <1>4, DirtiedFacts
<1>8. UNCHANGED <<disp, led, con, refused, run, failed, lost, ring, shutdown>> BY DEF Detach
<1> QED BY <1>6, <1>7, <1>8, TargetKeeps

(* A target stops by itself.                                               *)
LEMMA DiesKeeps ==
  ASSUME FlowInv, Dies PROVE FlowInv'
<1>1. intake \in Inbox /\ host \in Hosts BY DEF FlowInv, FlowType
<1>2. host' = [host EXCEPT !.alive = 0] BY DEF Dies
<1>3. host' \in Hosts /\ host'.queue = host.queue /\ host'.last = host.last /\ host'.ack = host.ack
  BY <1>1, <1>2 DEF Hosts
<1>4. UNCHANGED <<disp, led, con, refused, run, failed, lost, ring, shutdown, intake>> BY DEF Dies
<1> QED BY <1>1, <1>3, <1>4, TargetKeeps

(* Another target is attached.                                             *)
LEMMA AttachKeeps ==
  ASSUME FlowInv, Attach PROVE FlowInv'
<1>1. intake \in Inbox /\ host \in Hosts BY DEF FlowInv, FlowType
<1>2. PICK t \in Nat : t = host.targets + 1 BY <1>1 DEF Hosts
<1>3. PICK i : i = [intake EXCEPT !.attach = t] OBVIOUS
<1>4. i \in Inbox /\ i.published = intake.published /\ i.acked = intake.acked BY <1>1, <1>3 DEF Inbox
<1>5. intake' = Dirtied(i) BY <1>2, <1>3 DEF Attach
<1>6. host' = [host EXCEPT !.attached = t, !.alive = t, !.targets = t] BY <1>2 DEF Attach
<1>7. host' \in Hosts /\ host'.queue = host.queue /\ host'.last = host.last /\ host'.ack = host.ack
  BY <1>1, <1>6 DEF Hosts
<1>8. intake' \in Inbox /\ intake'.published = intake.published /\ intake'.acked = intake.acked
  BY <1>4, <1>5, DirtiedFacts
<1>9. UNCHANGED <<disp, led, con, refused, run, failed, lost, ring, shutdown>> BY DEF Attach
<1> QED BY <1>7, <1>8, <1>9, TargetKeeps

(* Batches of other cores come and go.                                     *)
LEMMA CrowdKeeps ==
  ASSUME FlowInv, Crowd \/ Uncrowd PROVE FlowInv'
<1>1. intake \in Inbox /\ host \in Hosts BY DEF FlowInv, FlowType
<1>2. \E b \in BOOLEAN : host' = [host EXCEPT !.crowd = b] BY DEF Crowd, Uncrowd
<1>3. host' \in Hosts /\ host'.queue = host.queue /\ host'.last = host.last /\ host'.ack = host.ack
  BY <1>1, <1>2 DEF Hosts
<1>4. UNCHANGED <<disp, led, con, refused, run, failed, lost, ring, shutdown, intake>>
  BY DEF Crowd, Uncrowd
<1> QED BY <1>1, <1>3, <1>4, TargetKeeps

(* The host acknowledges the batch it took.                                *)
LEMMA HostAckKeeps ==
  ASSUME FlowInv, HostAck PROVE FlowInv'
<1>1. intake \in Inbox /\ host \in Hosts BY DEF FlowInv, FlowType
<1>2. host' = [host EXCEPT !.ack = 0] BY DEF HostAck
<1>3. host' \in Hosts /\ host'.queue = host.queue /\ host'.last = host.last /\ host'.ack = 0
  BY <1>1, <1>2 DEF Hosts
<1>4. UNCHANGED <<disp, led, con, refused, run, failed, lost, ring, shutdown>> BY DEF HostAck
<1>5. CASE host.ack = intake.acked + 1 /\ host.ack <= intake.published
  <2>1. PICK a \in Nat : a = host.ack BY StateTypes
  <2>2. PICK i : i = [intake EXCEPT !.acked = a] OBVIOUS
  <2>3. i \in Inbox /\ i.published = intake.published /\ i.acked = a BY <1>1, <2>2 DEF Inbox
  <2>4. intake' = Dirtied(i) BY <1>5, <2>1, <2>2 DEF HostAck
  <2>5. intake' \in Inbox /\ intake'.published = intake.published /\ intake'.acked = a
    BY <2>3, <2>4, DirtiedFacts
  <2>6. RingInv(disp.unacked, ring, intake.published, intake.acked, host.queue, host.ack, failed)
    BY DEF FlowInv
  <2>7. disp \in Dispatcher BY StateTypes
  <2>8. RingInv(disp.unacked, ring, intake.published, a, host.queue, 0, failed)
    BY <1>5, <2>1, <2>6, <2>7, StateTypes, DispFields, RingAck
  <2>9. RingInv(disp.unacked, ring', intake'.published, intake'.acked, host'.queue, host'.ack, failed)
    BY <1>3, <1>4, <2>5, <2>8
  <2>10. Flow(disp, ring', led, refused, con, host'.last, lost, intake'.published, failed)
    BY <1>3, <1>4, <2>5, StateTypes
  <2>11. ring' \in [Entry -> Held] BY <1>4, StateTypes
  <2> QED BY <1>3, <1>4, <2>5, <2>9, <2>10, <2>11, HostKeeps
<1>6. CASE ~(host.ack = intake.acked + 1 /\ host.ack <= intake.published)
  <2>1. intake' = intake BY <1>6 DEF HostAck
  <2> QED BY <1>1, <1>3, <1>4, <2>1, TargetKeeps
<1> QED BY <1>5, <1>6

(* What is on the way leaves it, and the order is kept by other means.     *)
LEMMA FlowShrink ==
  ASSUME NEW d \in Dispatcher, NEW e \in Dispatcher, NEW rng \in [Entry -> Held],
         NEW left \in [Entry -> Held], NEW l \in Ledger, NEW r \in Seq(Event),
         NEW cn \in [Peer -> Connection], NEW last \in [Peer -> Nat], NEW next, NEW gone, NEW more,
         NEW published \in Nat, NEW off, Flow(d, rng, l, r, cn, last, gone, published, off),
         e.events = d.events \/ e.events = <<>>,
         \A x \in Entry :
           left[x].events = <<>> \/ (left[x].events = rng[x].events /\ left[x].epoch = rng[x].epoch),
         OrderInv(Way(e.events, left), r, cn, next, more)
  PROVE  Flow(e, left, l, r, cn, next, more, published, off)
<1>1. PICK p \in Nat : p = l.pushed BY LedgerFields
<1>2. PICK q \in Seq(Event) : q = d.events BY DispFields
<1>3. PICK k \in Seq(Event) : k = e.events BY DispFields
<1>4. SeqInv(q, rng, p, published) BY <1>1, <1>2 DEF Flow
<1>5. SeqInv(q, left, p, published) /\ Way(q, left) \subseteq Way(q, rng) BY <1>4, SeqFree
<1>6. k = q \/ k = <<>> BY <1>2, <1>3
<1>7. SeqInv(k, left, p, published) /\ Way(k, left) \subseteq Way(q, left) BY <1>5, <1>6, SeqDrop
<1>8. Way(k, left) \subseteq Way(q, rng) BY <1>5, <1>7
<1>9. Len(k) <= Len(q) BY <1>6
<1>10. ~off => LedgerInv(k, left, l, published)
  <2>1. ASSUME ~off PROVE LedgerInv(q, rng, l, published) BY <1>2, <2>1 DEF Flow
  <2> QED BY <1>8, <1>9, <2>1, LedgerShrink
<1>11. ~off => BoundInv(Way(k, left), cn)
  <2>1. ASSUME ~off PROVE BoundInv(Way(q, rng), cn) BY <1>2, <2>1 DEF Flow
  <2>2. IsFiniteSet(Way(q, rng)) BY WayFacts
  <2> QED BY <1>8, <2>1, <2>2, BoundShrink
<1> QED BY <1>1, <1>3, <1>7, <1>10, <1>11 DEF Flow

(* Of no events none is the last.                                          *)
LEMMA LastNone ==
  ASSUME NEW c, NEW before
  PROVE  LastTaken(<<>>, c, before) = before
<1>1. {k \in DOMAIN <<>> : <<>>[k].conn = c} = {} OBVIOUS
<1> QED BY <1>1 DEF LastTaken

(* The host takes the oldest batch of its queue.                           *)
LEMMA HostTakeKeeps ==
  ASSUME FlowInv, HostTake PROVE FlowInv'
<1>1. intake \in Inbox /\ host \in Hosts BY DEF FlowInv, FlowType
<1>2. PICK queue \in Seq(Posted) : queue = host.queue BY StateTypes
<1>3. queue # <<>> BY <1>2 DEF HostTake
<1>4. PICK b : b = Head(queue) OBVIOUS
<1>5. b \in Posted /\ b = queue[1] /\ 1 \in 1 .. Len(queue) /\ Tail(queue) \in Seq(Posted)
  BY <1>3, <1>4
<1>6. b.entry \in Entry /\ b.epoch \in Nat BY <1>5 DEF Posted
<1>7. PICK later \in {0, b.epoch} : later = IF b.target = host.attached THEN b.epoch ELSE 0 OBVIOUS
<1>8. PICK taken : taken = IF Holds(b) THEN ring[b.entry].events ELSE <<>> OBVIOUS
<1>9. PICK last \in [Peer -> Nat] : last = host.last BY StateTypes
<1>10. PICK next : next = [c \in Peer |-> LastTaken(taken, c, last[c])] OBVIOUS
<1>11. host' = [host EXCEPT !.queue = Tail(queue), !.ack = later, !.last = next]
  <2>1. host' = [host EXCEPT !.queue = Tail(@),
                             !.ack = IF b.target = host.attached THEN b.epoch ELSE 0,
                             !.last = [c \in Peer |-> LastTaken(taken, c, @[c])]]
    BY <1>2, <1>4, <1>8 DEF HostTake
  <2> QED BY <1>1, <1>2, <1>7, <1>9, <1>10, <2>1 DEF Hosts
<1>12. PICK left : left = ring' OBVIOUS
<1>13. left = IF Holds(b) THEN [ring EXCEPT ![b.entry].events = <<>>] ELSE ring
  BY <1>2, <1>4, <1>12 DEF HostTake
<1>14. UNCHANGED <<disp, intake, led, refused, con, run, shutdown, failed, lost>> BY DEF HostTake
<1>15. ring \in [Entry -> Held] BY StateTypes
<1>16. RingInv(disp.unacked, ring, intake.published, intake.acked, queue, host.ack, failed)
  BY <1>2 DEF FlowInv
<1>17. /\ left \in [Entry -> Held]
       /\ \A e \in Entry : left[e].epoch = ring[e].epoch /\ left[e].kind = ring[e].kind
       /\ \A e \in Entry : e # b.entry => left[e] = ring[e]
       /\ \A e \in Entry : left[e].events = <<>> \/ left[e].events = ring[e].events
       /\ Holds(b) => left[b.entry].events = <<>>
       /\ ~Holds(b) => left = ring
  <2>1. CASE Holds(b)
    <3>1. left = [ring EXCEPT ![b.entry].events = <<>>] BY <1>13, <2>1
    <3>2. <<>> \in Seq(Event) OBVIOUS
    <3>3. ring[b.entry] \in Held BY <1>6, <1>15
    <3>4. PICK h : h = [ring[b.entry] EXCEPT !.events = <<>>] OBVIOUS
    <3>5. h \in Held /\ h.events = <<>> /\ h.epoch = ring[b.entry].epoch /\ h.kind = ring[b.entry].kind
      BY <3>2, <3>3, <3>4 DEF Held
    <3>6. left = [ring EXCEPT ![b.entry] = h] BY <3>1, <3>4
    <3> QED BY <1>6, <1>15, <2>1, <3>5, <3>6
  <2>2. CASE ~Holds(b) BY <1>13, <1>15, <2>2
  <2> QED BY <2>1, <2>2
<1>18. \A e \in Entry : b.entry = e /\ b.epoch = ring[e].epoch /\ b.kind = ring[e].kind
                        => left[e].events = <<>>
  BY <1>17 DEF Holds
<1>19. RingInv(disp.unacked, left, intake.published, intake.acked, Tail(queue), later, failed)
  <2>1. PICK unacked \in Seq(Sent) : unacked = disp.unacked BY StateTypes, DispFields
  <2>2. RingInv(unacked, ring, intake.published, intake.acked, queue, host.ack, failed) BY <1>16, <2>1
  <2>3. PICK published \in Nat, acked \in Nat, ack \in Nat :
          published = intake.published /\ acked = intake.acked /\ ack = host.ack
    BY StateTypes
  <2>4. RingInv(unacked, ring, published, acked, queue, ack, failed) BY <2>2, <2>3
  <2>5. later \in {0, Head(queue).epoch} BY <1>4, <1>7
  <2>6. \A e \in Entry : Head(queue).entry = e /\ Head(queue).epoch = ring[e].epoch
                         /\ Head(queue).kind = ring[e].kind => left[e].events = <<>>
    BY <1>4, <1>18
  <2>8. /\ left \in [Entry -> Held]
        /\ \A e \in Entry : left[e].epoch = ring[e].epoch /\ left[e].kind = ring[e].kind
        /\ \A e \in Entry : left[e].events = <<>> \/ left[e].events = ring[e].events
    BY <1>17
  <2>7. RingInv(unacked, left, published, acked, Tail(queue), later, failed)
    BY <1>3, <1>15, <2>4, <2>5, <2>6, <2>8, RingTake, ZenonT(30)
  <2> QED BY <2>1, <2>3, <2>7
<1>20. next \in [Peer -> Nat] /\ OrderInv(Way(disp.events, left), refused, con, next, lost)
  <2>1. CASE Holds(b)
    <3>1. taken = ring[b.entry].events BY <1>8, <2>1
    <3>2. \A e \in Entry : e # b.entry /\ ring[e].events # <<>> => ring[b.entry].epoch < ring[e].epoch
      <4>1. ASSUME NEW e \in Entry, e # b.entry, ring[e].events # <<>>
            PROVE  ring[b.entry].epoch < ring[e].epoch
        <5>1. PICK k \in 1 .. Len(queue) : queue[k].entry = e /\ queue[k].epoch = ring[e].epoch
          BY <1>16, <4>1 DEF RingInv
        <5>2. k # 1 BY <1>5, <4>1, <5>1
        <5>3. 1 < k BY <5>2
        <5>4. queue[1].epoch < queue[k].epoch BY <1>5, <1>16, <5>3 DEF RingInv
        <5> QED BY <1>5, <2>1, <5>1, <5>4 DEF Holds
      <4> QED BY <4>1
    <3>3. PICK p \in Nat : p = led.pushed BY StateTypes, LedgerFields
    <3>4. PICK q \in Seq(Event) : q = disp.events BY StateTypes, DispFields
    <3>5. SeqInv(q, ring, p, intake.published) BY <3>3, <3>4 DEF FlowInv, Flow
    <3>6. OrderInv(Way(q, ring), refused, con, last, lost) BY <1>9, <3>4 DEF FlowInv, Flow
    <3>7. next = [c \in Peer |-> LastTaken(ring[b.entry].events, c, last[c])] BY <1>10, <3>1
    <3>8. left[b.entry].events = <<>> BY <1>17, <2>1
    <3>9. PICK entry \in Entry : entry = b.entry BY <1>6
    <3>10. /\ \A e \in Entry : e # entry /\ ring[e].events # <<>> => ring[entry].epoch < ring[e].epoch
           /\ left[entry].events = <<>> /\ \A e \in Entry : e # entry => left[e] = ring[e]
           /\ Advances(ring[entry].events, last, next)
      BY <1>17, <3>2, <3>7, <3>8, <3>9 DEF Advances
    <3>11. PICK published \in Nat : published = intake.published BY StateTypes
    <3>12. SeqInv(q, ring, p, published) BY <3>5, <3>11
    <3>13. left \in [Entry -> Held] /\ refused \in Seq(Event) /\ con \in [Peer -> Connection]
      BY <1>17, StateTypes
    <3>14. next \in [Peer -> Nat] /\ OrderInv(Way(q, left), refused, con, next, lost)
      BY <1>15, <3>6, <3>10, <3>12, <3>13, OrderTake, Zenon
    <3> QED BY <3>4, <3>14
  <2>2. CASE ~Holds(b)
    <3>1. taken = <<>> /\ left = ring BY <1>8, <1>17, <2>2
    <3>2. next = [c \in Peer |-> last[c]] BY <1>10, <3>1, LastNone
    <3>3. next = last BY <3>2
    <3> QED BY <1>9, <3>1, <3>3 DEF FlowInv, Flow
  <2> QED BY <2>1, <2>2
<1>21. host' \in Hosts /\ host'.queue = Tail(queue) /\ host'.ack = later /\ host'.last = next
  <2>1. later \in Nat BY <1>6, <1>7
  <2>2. PICK tl \in Seq(Posted) : tl = Tail(queue) BY <1>5
  <2>3. host' = [host EXCEPT !.queue = tl, !.ack = later, !.last = next] BY <1>11, <2>2
  <2>4. next \in [Peer -> Nat] BY <1>20
  <2>5. host' \in Hosts /\ host'.queue = tl /\ host'.ack = later /\ host'.last = next
    BY <1>1, <2>1, <2>3, <2>4 DEF Hosts
  <2> QED BY <2>2, <2>5
<1>22. ASSUME run = "done", ~failed PROVE host'.last = host.last
  <2>1. disp.unacked = <<>> BY <1>22 DEF FlowInv, LifeInv, DrainedEmpty
  <2>2. \A k \in 1 .. Len(disp.unacked) : FALSE BY <2>1
  <2>3. ring[b.entry].events = <<>> BY <1>6, <1>16, <1>22, <2>2 DEF RingInv
  <2>4. taken = <<>> BY <1>8, <2>3
  <2>5. next = [c \in Peer |-> last[c]] BY <1>10, <2>4, LastNone
  <2> QED BY <1>9, <1>21, <2>5
<1>23. Flow(disp, left, led, refused, con, next, lost, intake.published, failed)
  <2>1. \A x \in Entry : left[x].events = <<>>
                         \/ (left[x].events = ring[x].events /\ left[x].epoch = ring[x].epoch)
    BY <1>17
  <2>2. left \in [Entry -> Held] /\ OrderInv(Way(disp.events, left), refused, con, next, lost)
    BY <1>17, <1>20
  <2>3. Flow(disp, ring, led, refused, con, last, lost, intake.published, failed)
    BY <1>9, StateTypes
  <2>4. disp \in Dispatcher /\ led \in Ledger /\ refused \in Seq(Event) /\ con \in [Peer -> Connection]
        /\ intake.published \in Nat
    BY StateTypes
  <2> QED BY <1>15, <2>1, <2>2, <2>3, <2>4, FlowShrink
<1>24. Flow(disp, ring', led, refused, con, host'.last, lost, intake'.published, failed)
  BY <1>12, <1>14, <1>21, <1>23
<1>25. RingInv(disp.unacked, ring', intake'.published, intake'.acked, host'.queue, host'.ack, failed)
  BY <1>12, <1>14, <1>19, <1>21
<1>26. ring' \in [Entry -> Held] /\ intake' \in Inbox BY <1>1, <1>12, <1>14, <1>17
<1> QED BY <1>14, <1>21, <1>22, <1>24, <1>25, <1>26, HostKeeps

(* A woken task looks at the ledger again.                                 *)
LEMMA RepollKeeps ==
  ASSUME FlowInv, NEW c \in Peer, Repoll(c) PROVE FlowInv'
<1>1. con[c] \in Connection /\ con \in [Peer -> Connection] /\ led \in Ledger BY StateTypes
<1>2. UNCHANGED <<disp, ring, intake, refused, run, shutdown, failed, host, lost>> BY DEF Repoll
<1>3. PICK z : z = con'[c] OBVIOUS
<1>4. /\ con' \in [Peer -> Connection] /\ \A x \in Peer : x # c => con'[x] = con[x]
      /\ SameOrder(con[c], z) /\ SameBound(con[c], z) /\ (Reads(z) => Reads(con[c]))
  <2>1. CASE Changed(led, con[c].wait)
    <3>1. PICK w \in Wait : w = NoWait BY DEF NoWait, Wait
    <3>2. PICK t \in {"settle", "end"} : t = IF con[c].task = "wait" THEN "settle" ELSE "end" OBVIOUS
    <3>3. con' = [con EXCEPT ![c].woken = FALSE, ![c].wait = w, ![c].task = t]
      BY <1>1, <2>1, <3>1, <3>2 DEF Repoll
    <3>4. con' = [con EXCEPT ![c] = [con[c] EXCEPT !.woken = FALSE, !.wait = w, !.task = t]]
      BY <1>1, <3>3
    <3>5. PICK y : y = [con[c] EXCEPT !.woken = FALSE, !.wait = w, !.task = t] OBVIOUS
    <3>6. y \in Connection /\ SameOrder(con[c], y) /\ SameBound(con[c], y) /\ y.task = t
      BY <1>1, <3>5 DEF Connection, SameOrder, SameBound
    <3>7. con' \in [Peer -> Connection] /\ con'[c] = y /\ \A x \in Peer : x # c => con'[x] = con[x]
      BY <1>1, <3>4, <3>5, <3>6
    <3> QED BY <1>3, <3>2, <3>6, <3>7 DEF Reads
  <2>2. CASE ~Changed(led, con[c].wait)
    <3>1. con' = [con EXCEPT ![c].woken = FALSE] BY <2>2 DEF Repoll
    <3>2. PICK y : y = [con[c] EXCEPT !.woken = FALSE] OBVIOUS
    <3>3. y \in Connection /\ SameOrder(con[c], y) /\ SameBound(con[c], y) /\ y.task = con[c].task
          /\ y.wait = con[c].wait
      BY <1>1, <3>2 DEF Connection, SameOrder, SameBound
    <3>4. con' \in [Peer -> Connection] /\ con'[c] = y /\ \A x \in Peer : x # c => con'[x] = con[x]
      BY <1>1, <3>1, <3>2, <3>3
    <3> QED BY <1>3, <3>3, <3>4 DEF Reads
  <2> QED BY <2>1, <2>2
<1>5. led' = led \/ led' = Registered(led, con[c].wait, c) BY DEF Repoll
<1>6. SameLedger(led, led) BY DEF SameLedger
<1>7. led' \in Ledger /\ SameLedger(led, led') BY <1>1, <1>5, <1>6, RegisteredFacts
<1>8. PICK next : next = con' OBVIOUS
<1>9. \A x \in Peer : SameOrder(con[x], next[x]) /\ SameBound(con[x], next[x])
                      /\ (Reads(next[x]) => Reads(con[x]))
  <2>1. ASSUME NEW x \in Peer
        PROVE  SameOrder(con[x], next[x]) /\ SameBound(con[x], next[x]) /\ (Reads(next[x]) => Reads(con[x]))
    <3>1. CASE x = c BY <1>3, <1>4, <1>8, <3>1
    <3>2. CASE x # c BY <1>4, <1>8, <3>2 DEF SameOrder, SameBound
    <3> QED BY <3>1, <3>2
  <2> QED BY <2>1
<1>10. Readers(next) \subseteq Readers(con) BY <1>9 DEF Readers, HoldingMessage, SameOrder
<1>11. Flow(disp, ring, led, refused, next, host.last, lost, intake.published, failed)
  <2>1. PICK D \in SUBSET Peer : D = {} OBVIOUS
  <2>2. (\A k \in 1 .. Len(refused) : refused[k].conn \notin D) /\ lost \subseteq lost
        /\ (\A x \in Peer \ D : SameOrder(con[x], next[x]) /\ SameBound(con[x], next[x]))
        /\ (\A x \in D : Moves(con[x], next[x], x, lost))
        /\ (~failed => \A x \in D : Bounded(Way(disp.events, ring), next[x], x))
    BY <1>9, <2>1
  <2>3. next \in [Peer -> Connection] BY <1>4, <1>8
  <2> QED BY <1>10, <2>2, <2>3, StateTypes, FlowConn
<1>12. PICK m : m = led' OBVIOUS
<1>13. Flow(disp, ring, m, refused, next, host.last, lost, intake.published, failed)
  BY <1>7, <1>11, <1>12, FlowRest
<1>14. Flow(disp', ring', led', refused, con', host'.last, lost, intake'.published, failed)
  BY <1>2, <1>8, <1>12, <1>13
<1>15. RingInv(disp.unacked, ring', intake'.published, intake'.acked, host'.queue, host'.ack, failed)
  BY <1>2 DEF FlowInv
<1>16. ReadsInv(con')
  <2>1. ReadsInv(con) BY DEF FlowInv
  <2> QED BY <1>8, <1>9, <2>1 DEF ReadsInv, SameBound
<1>17. FlowType' BY <1>2, <1>4, <1>7 DEF FlowInv, FlowType
<1>18. \A x \in Peer : SameOrder(con[x], con'[x]) BY <1>8, <1>9
<1> QED BY <1>2, <1>14, <1>15, <1>16, <1>17, <1>18, StillKeeps

-----------------------------------------------------------------------------
(* The dispatcher's turn.                                                  *)

(* A step of the dispatcher's task before it is done.                      *)
LEMMA TurnKeeps ==
  ASSUME FlowInv, ~failed, UNCHANGED <<led, refused, con, shutdown, failed>>, run' # "done",
         disp' \in Dispatcher, ring' \in [Entry -> Held], intake' \in Inbox, host' \in Hosts,
         disp'.connections = disp.connections, disp'.draining => shutdown,
         Flow(disp', ring', led, refused, con, host'.last, lost', intake'.published, failed),
         RingInv(disp'.unacked, ring', intake'.published, intake'.acked, host'.queue, host'.ack, failed)
  PROVE  FlowInv'
<1>1. FlowType' BY DEF FlowInv, FlowType
<1>2. ReadsInv(con') BY DEF FlowInv
<1>3. LifeInv' BY DEF FlowInv, LifeInv
<1>4. Flow(disp', ring', led', refused', con', host'.last, lost', intake'.published, failed') OBVIOUS
<1>5. RingInv(disp'.unacked, ring', intake'.published, intake'.acked, host'.queue, host'.ack, failed')
  OBVIOUS
<1> QED BY <1>1, <1>2, <1>3, <1>4, <1>5 DEF FlowInv

(* The types of the inbox and the host, and what the dispatcher's task     *)
(* knows before it is done.                                                *)
LEMMA TurnFacts ==
  ASSUME FlowInv, run # "done"
  PROVE  /\ ~failed /\ intake \in Inbox /\ host \in Hosts /\ (disp.draining => shutdown)
         /\ RingInv(disp.unacked, ring, intake.published, intake.acked, host.queue, host.ack, FALSE)
         /\ disp.unacked \in Seq(Sent)
<1>1. ~failed /\ (disp.draining => shutdown) BY DEF FlowInv, LifeInv
<1>2. intake \in Inbox /\ host \in Hosts BY DEF FlowInv, FlowType
<1>3. RingInv(disp.unacked, ring, intake.published, intake.acked, host.queue, host.ack, failed)
  BY DEF FlowInv
<1>4. RingInv(disp.unacked, ring, intake.published, intake.acked, host.queue, host.ack, FALSE)
  BY <1>1, <1>3 DEF RingInv
<1>5. disp.unacked \in Seq(Sent) BY StateTypes, DispFields
<1> QED BY <1>1, <1>2, <1>4, <1>5

(* The ring of a core that did not fail.                                   *)
LEMMA RingOn ==
  ASSUME NEW u, NEW rng, NEW published, NEW acked, NEW q, NEW ack, NEW off, ~off,
         RingInv(u, rng, published, acked, q, ack, FALSE)
  PROVE  RingInv(u, rng, published, acked, q, ack, off)
  BY DEF RingInv

(* A request is queued.                                                    *)
LEMMA JobKeeps ==
  ASSUME FlowInv, Job PROVE FlowInv'
<1>1. ~failed /\ ~disp.draining BY DEF Job, Admits
<1>2. run # "done" BY <1>1 DEF FlowInv, LifeInv
<1>3. UNCHANGED <<ring, intake, led, refused, con, run, shutdown, failed, host, lost>> BY DEF Job
<1>4. PICK n \in Nat : n = disp.ready + 1
  <2>1. disp.ready \in Nat BY StateTypes, DispFields
  <2> QED BY <2>1
<1>5. PICK e : e = [disp EXCEPT !.ready = n] OBVIOUS
<1>6. disp' = e BY <1>4, <1>5 DEF Job
<1>7. disp \in Dispatcher BY StateTypes
<1>8. e \in Dispatcher /\ e.events = disp.events /\ e.unacked = disp.unacked
      /\ e.connections = disp.connections /\ e.draining = disp.draining
  BY <1>5, <1>7 DEF Dispatcher
<1>9. SameLedger(led, led) BY DEF SameLedger
<1>10. Flow(e, ring, led, refused, con, host.last, lost, intake.published, failed)
  BY <1>8, <1>9, StateTypes, FlowRest
<1>11. Flow(disp', ring', led, refused, con, host'.last, lost', intake'.published, failed)
  BY <1>3, <1>6, <1>10
<1>12. RingInv(disp'.unacked, ring', intake'.published, intake'.acked, host'.queue, host'.ack, failed)
  BY <1>3, <1>6, <1>8 DEF FlowInv
<1>13. disp' \in Dispatcher /\ ring' \in [Entry -> Held] /\ intake' \in Inbox /\ host' \in Hosts
  BY <1>2, <1>3, <1>6, <1>8, StateTypes, TurnFacts
<1> QED BY <1>1, <1>2, <1>3, <1>6, <1>8, <1>11, <1>12, <1>13, TurnKeeps

(* The wait between two turns is polled.                                   *)
LEMMA RegisterKeeps ==
  ASSUME FlowInv, Register PROVE FlowInv'
<1>1. run # "done" /\ run' # "done" BY DEF Register, Polled, Goto
<1>2. UNCHANGED <<disp, ring, led, refused, con, shutdown, failed, host, lost>> BY DEF Register
<1>3. intake \in Inbox BY <1>1, TurnFacts
<1>4. intake' \in Inbox /\ intake'.published = intake.published /\ intake'.acked = intake.acked
  <2>1. intake' = intake \/ intake' = [intake EXCEPT !.waker = TRUE, !.woken = FALSE]
    BY DEF Register
  <2> QED BY <1>3, <2>1 DEF Inbox
<1>5. Flow(disp', ring', led, refused, con, host'.last, lost', intake'.published, failed)
  BY <1>2, <1>4, StateTypes
<1>6. RingInv(disp'.unacked, ring', intake'.published, intake'.acked, host'.queue, host'.ack, failed)
  BY <1>2, <1>4 DEF FlowInv
<1>7. disp' \in Dispatcher /\ ring' \in [Entry -> Held] /\ host' \in Hosts /\ ~failed
      /\ (disp'.draining => shutdown) /\ disp'.connections = disp.connections
  BY <1>1, <1>2, StateTypes, TurnFacts
<1> QED BY <1>1, <1>2, <1>4, <1>5, <1>6, <1>7, TurnKeeps

(* The entries in flight.                                                  *)
LEMMA BusyFacts ==
  ASSUME NEW d, NEW u \in Seq(Sent), d.unacked = u
  PROVE  \A e : e \in Busy(d) <=> \E k \in 1 .. Len(u) : u[k].entry = e
<1>1. Busy(d) = {x.entry : x \in Range(u)} BY DEF Busy
<1>2. \A x : x \in Range(u) <=> \E k \in 1 .. Len(u) : u[k] = x BY Members
<1> QED BY <1>1, <1>2

(* The target is gone, and what it may have taken is lost.                 *)
LEMMA LoseKeeps ==
  ASSUME FlowInv, run # "done", NEW d \in Dispatcher, d.events = <<>>, d.unacked = <<>>,
         d.connections = disp.connections, d.draining => shutdown, disp' = d,
         ring' = Unfree(ring, Busy(disp)), intake' \in Inbox,
         intake'.published = intake.published, intake'.acked = intake.published,
         lost' = lost \cup Losing \cup Untaken, run' # "done",
         UNCHANGED <<led, refused, con, shutdown, failed, host>>
  PROVE  FlowInv'
<1>1. PICK u \in Seq(Sent) : u = disp.unacked BY TurnFacts
<1>2. PICK left : left = ring' OBVIOUS
<1>3. PICK S : S = Busy(disp) OBVIOUS
<1>4. RingInv(u, ring, intake.published, intake.acked, host.queue, host.ack, FALSE) BY <1>1, TurnFacts
<1>5. /\ left \in [Entry -> Held] /\ \A e \in Entry : left[e].events = <<>>
      /\ RingInv(<<>>, left, intake.published, intake.published, host.queue, host.ack, FALSE)
  <2>1. left = Unfree(ring, S) BY <1>2, <1>3
  <2>2. Entries(u, Len(u), S) BY <1>1, <1>3, BusyFacts DEF Entries
  <2>3. PICK published \in Nat, acked \in Nat, ack \in Nat :
          published = intake.published /\ acked = intake.acked /\ ack = host.ack
    BY StateTypes
  <2>4. PICK queue \in Seq(Posted) : queue = host.queue BY StateTypes
  <2>5. RingInv(u, ring, published, acked, queue, ack, FALSE) BY <1>4, <2>3, <2>4
  <2>6. ring \in [Entry -> Held] BY StateTypes
  <2>7. left \in [Entry -> Held] BY <2>1, <2>2, <2>5, <2>6, RingLose
  <2>8. RingInv(<<>>, left, published, published, queue, ack, FALSE)
    BY <2>1, <2>2, <2>5, <2>6, RingLose
  <2>9. \A e \in Entry : left[e].events = <<>>
    <3>1. \A k \in 1 .. Len(<<>>) : FALSE OBVIOUS
    <3> QED BY <2>8, <3>1 DEF RingInv
  <2> QED BY <2>3, <2>4, <2>7, <2>8, <2>9
<1>6. PICK more : more = lost' OBVIOUS
<1>7. PICK q \in Seq(Event) : q = disp.events BY StateTypes, DispFields
<1>8. ring \in [Entry -> Held] BY StateTypes
<1>9. \A a \in Way(q, ring) : a.conn \in more
  <2>1. ASSUME NEW a \in Way(q, ring) PROVE a.conn \in more
    <3>1. CASE \E k \in 1 .. Len(q) : q[k] = a
      <4>1. a \in Range(disp.events) BY <1>7, <3>1, Members
      <4>2. a.conn \in Losing BY <4>1 DEF Losing
      <4> QED BY <1>6, <4>2
    <3>2. CASE \E e \in Entry : \E k \in 1 .. Len(ring[e].events) : ring[e].events[k] = a
      <4>1. PICK e \in Entry : \E k \in 1 .. Len(ring[e].events) : ring[e].events[k] = a BY <3>2
      <4>2. ring[e].events \in Seq(Event) BY <1>8, HeldFields
      <4>3. a \in Range(ring[e].events) BY <4>1, <4>2, Members
      <4>4. ring[e].events # <<>> BY <4>1
      <4>5. \E k \in 1 .. Len(u) : u[k].entry = e BY <1>4, <4>4 DEF RingInv
      <4>6. e \in Busy(disp) BY <1>1, <4>5, BusyFacts
      <4>7. a.conn \in Untaken BY <4>3, <4>6 DEF Untaken
      <4> QED BY <1>6, <4>7
    <3> QED BY <1>8, <3>1, <3>2, WayFacts
  <2> QED BY <2>1
<1>10. OrderInv(Way(d.events, left), refused, con, host.last, more)
  <2>1. PICK way : way = Way(q, ring) OBVIOUS
  <2>2. PICK rem : rem = Way(d.events, left) OBVIOUS
  <2>3. OrderInv(way, refused, con, host.last, lost) BY <1>7, <2>1 DEF FlowInv, Flow
  <2>4. way \subseteq Event BY <1>8, <2>1, WayFacts
  <2>5. rem = {}
    <3>1. d.events \in Seq(Event) BY DispFields
    <3>2. \A a \in rem : \/ \E k \in 1 .. Len(d.events) : d.events[k] = a
                         \/ \E e \in Entry : \E k \in 1 .. Len(left[e].events) : left[e].events[k] = a
      <4>1. left \in [Entry -> Held] BY <1>5
      <4>2. PICK q2 \in Seq(Event) : q2 = d.events BY <3>1
      <4>3. \A a : a \in Way(q2, left) <=>
              \/ \E k \in 1 .. Len(q2) : q2[k] = a
              \/ \E e \in Entry : \E k \in 1 .. Len(left[e].events) : left[e].events[k] = a
        BY <4>1, WayFacts
      <4> QED BY <2>2, <4>2, <4>3
    <3>3. \A k \in 1 .. Len(d.events) : FALSE OBVIOUS
    <3>4. \A e \in Entry : \A k \in 1 .. Len(left[e].events) : FALSE BY <1>5
    <3> QED BY <3>2, <3>3, <3>4
  <2>6. lost \subseteq more /\ rem \subseteq way /\ \A a \in way : a \in rem \/ a.conn \in more
    BY <1>6, <1>9, <2>1, <2>5
  <2>7. OrderInv(rem, refused, con, host.last, more) BY <2>3, <2>4, <2>6, StateTypes, OrderShrink
  <2> QED BY <2>2, <2>7
<1>11. Flow(d, left, led, refused, con, host.last, more, intake.published, failed)
  <2>1. disp \in Dispatcher /\ led \in Ledger /\ refused \in Seq(Event) /\ con \in [Peer -> Connection]
        /\ intake.published \in Nat /\ host.last \in [Peer -> Nat]
        /\ Flow(disp, ring, led, refused, con, host.last, lost, intake.published, failed)
    BY StateTypes
  <2>2. \A x \in Entry : left[x].events = <<>>
                         \/ (left[x].events = ring[x].events /\ left[x].epoch = ring[x].epoch)
    BY <1>5
  <2>3. left \in [Entry -> Held] BY <1>5
  <2>4. PICK e \in Dispatcher : e = d OBVIOUS
  <2>5. e.events = disp.events \/ e.events = <<>> BY <2>4
  <2>6. PICK last \in [Peer -> Nat], published \in Nat :
          last = host.last /\ published = intake.published
    BY <2>1
  <2>7. Flow(disp, ring, led, refused, con, last, lost, published, failed) BY <2>1, <2>6
  <2>8. OrderInv(Way(e.events, left), refused, con, last, more) BY <1>10, <2>4, <2>6
  <2>9. Flow(e, left, led, refused, con, last, more, published, failed)
    BY <1>8, <2>1, <2>2, <2>3, <2>5, <2>7, <2>8, FlowShrink
  <2> QED BY <2>4, <2>6, <2>9
<1>12. Flow(disp', ring', led, refused, con, host'.last, lost', intake'.published, failed)
  BY <1>2, <1>6, <1>11
<1>13. ~failed /\ host \in Hosts BY TurnFacts
<1>14. RingInv(disp'.unacked, ring', intake'.published, intake'.acked, host'.queue, host'.ack, failed)
  <2>1. RingInv(<<>>, left, intake.published, intake.published, host.queue, host.ack, failed)
    BY <1>5, <1>13, RingOn
  <2> QED BY <1>2, <2>1
<1>15. disp' \in Dispatcher /\ ring' \in [Entry -> Held] /\ host' \in Hosts BY <1>2, <1>5, <1>13
<1> QED BY <1>12, <1>13, <1>14, <1>15, TurnKeeps

(* Dispatcher::lose_target.                                                *)
LEMMA LoseTargetFacts ==
  ASSUME NEW d \in Dispatcher, NEW e, e = LoseTarget(d)
  PROVE  e \in Dispatcher /\ e.events = <<>> /\ e.unacked = <<>> /\ e.connections = d.connections
         /\ e.draining = d.draining
<1>1. <<>> \in Seq(Event) /\ <<>> \in Seq(Sent) OBVIOUS
<1> QED BY <1>1 DEF LoseTarget, Dispatcher

(* The intake is drained and the target change it held applied.            *)
LEMMA DrainIntakeKeeps ==
  ASSUME FlowInv, DrainIntake PROVE FlowInv'
<1>1. run # "done" /\ run' # "done" BY DEF DrainIntake, Goto
<1>2. ~failed /\ intake \in Inbox /\ host \in Hosts /\ (disp.draining => shutdown) BY <1>1, TurnFacts
<1>3. PICK d1 : d1 = IF intake.detach THEN LoseTarget(disp) ELSE disp OBVIOUS
<1>4. disp \in Dispatcher BY StateTypes
<1>5. d1 \in Dispatcher /\ d1.connections = disp.connections /\ d1.draining = disp.draining
      /\ (intake.detach => d1.events = <<>> /\ d1.unacked = <<>>)
      /\ (~intake.detach => d1.events = disp.events /\ d1.unacked = disp.unacked)
  BY <1>3, <1>4, LoseTargetFacts
<1>6. PICK t \in Nat : t = IF intake.attach # 0 THEN intake.attach ELSE d1.target
  BY <1>2, <1>5 DEF Inbox, Dispatcher
<1>7. PICK b \in BOOLEAN : b = (d1.draining \/ shutdown)
  <2>1. (d1.draining \/ shutdown) \in BOOLEAN BY DEF DrainIntake
  <2> QED BY <2>1, Zenon
<1>8. disp' = [d1 EXCEPT !.target = t, !.draining = b]
  <2>1. disp' = [d1 EXCEPT !.target = IF intake.attach # 0 THEN intake.attach ELSE @,
                           !.draining = @ \/ shutdown]
    BY <1>3 DEF DrainIntake
  <2> QED BY <1>5, <1>6, <1>7, <2>1 DEF Dispatcher
<1>9. PICK d : d = disp' OBVIOUS
<1>10. d \in Dispatcher /\ d.connections = d1.connections /\ d.draining = b
       /\ d.events = d1.events /\ d.unacked = d1.unacked
  BY <1>5, <1>8, <1>9 DEF Dispatcher
<1>11. d.draining => shutdown BY <1>2, <1>5, <1>7, <1>10
<1>12. UNCHANGED <<led, refused, con, shutdown, failed, host>> BY DEF DrainIntake
<1>13. PICK n \in Nat : n = IF intake.detach THEN intake.published ELSE intake.acked BY StateTypes
<1>14. intake' = [intake EXCEPT !.dirty = FALSE, !.detach = FALSE, !.attach = 0, !.acked = n]
  BY <1>2, <1>13 DEF DrainIntake, Inbox
<1>15. intake' \in Inbox /\ intake'.published = intake.published /\ intake'.acked = n
  BY <1>2, <1>14 DEF Inbox
<1>16. CASE intake.detach
  <2>1. ring' = Unfree(ring, Busy(disp)) /\ lost' = lost \cup Losing \cup Untaken
    BY <1>16 DEF DrainIntake
  <2>2. d.events = <<>> /\ d.unacked = <<>> /\ d.connections = disp.connections
    BY <1>5, <1>10, <1>16
  <2>3. intake'.acked = intake.published BY <1>13, <1>15, <1>16
  <2> QED BY <1>1, <1>9, <1>10, <1>11, <1>12, <1>15, <2>1, <2>2, <2>3, LoseKeeps
<1>17. CASE ~intake.detach
  <2>1. ring' = ring /\ lost' = lost BY <1>17 DEF DrainIntake
  <2>2. d.events = disp.events /\ d.unacked = disp.unacked BY <1>5, <1>10, <1>17
  <2>3. intake'.acked = intake.acked BY <1>13, <1>15, <1>17
  <2>4. SameLedger(led, led) BY DEF SameLedger
  <2>5. Flow(d, ring, led, refused, con, host.last, lost, intake.published, failed)
    BY <2>2, <2>4, StateTypes, FlowRest
  <2>6. Flow(disp', ring', led, refused, con, host'.last, lost', intake'.published, failed)
    BY <1>9, <1>12, <1>15, <2>1, <2>5
  <2>7. RingInv(disp'.unacked, ring', intake'.published, intake'.acked, host'.queue, host'.ack, failed)
    BY <1>9, <1>12, <1>15, <2>1, <2>2, <2>3 DEF FlowInv
  <2>8. disp' \in Dispatcher /\ ring' \in [Entry -> Held] /\ host' \in Hosts
        /\ disp'.connections = disp.connections /\ (disp'.draining => shutdown)
    BY <1>2, <1>5, <1>9, <1>10, <1>11, <1>12, <2>1, StateTypes
  <2> QED BY <1>1, <1>2, <1>12, <1>15, <2>6, <2>7, <2>8, TurnKeeps
<1> QED BY <1>16, <1>17

(* The target is found gone.                                               *)
LEMMA PostGoneKeeps ==
  ASSUME FlowInv, PostGone PROVE FlowInv'
<1>1. run # "done" /\ run' # "done" BY DEF PostGone, Goto
<1>2. ~failed /\ intake \in Inbox /\ (disp.draining => shutdown) BY <1>1, TurnFacts
<1>3. disp \in Dispatcher BY StateTypes
<1>4. PICK b \in BOOLEAN : b = (Kind = "requests") OBVIOUS
<1>5. PICK e : e = [disp EXCEPT !.prefer = b] OBVIOUS
<1>6. e \in Dispatcher /\ e.connections = disp.connections /\ e.draining = disp.draining
  BY <1>3, <1>5 DEF Dispatcher
<1>7. PICK d : d = LoseTarget(e) OBVIOUS
<1>8. disp' = d BY <1>4, <1>5, <1>7 DEF PostGone
<1>9. d \in Dispatcher /\ d.events = <<>> /\ d.unacked = <<>> /\ d.connections = disp.connections
      /\ d.draining = disp.draining
  BY <1>6, <1>7, LoseTargetFacts
<1>10. PICK n \in Nat : n = intake.published BY StateTypes
<1>11. intake' = [intake EXCEPT !.acked = n] BY <1>10 DEF PostGone
<1>12. intake' \in Inbox /\ intake'.published = intake.published /\ intake'.acked = intake.published
  BY <1>2, <1>10, <1>11 DEF Inbox
<1>13. ring' = Unfree(ring, Busy(disp)) /\ lost' = lost \cup Losing \cup Untaken
       /\ UNCHANGED <<led, refused, con, shutdown, failed, host>>
  BY DEF PostGone
<1> QED BY <1>1, <1>2, <1>8, <1>9, <1>12, <1>13, LoseKeeps

(* The epochs of what is in flight are numbers.                            *)
LEMMA SentEpochs ==
  ASSUME NEW s \in Seq(Sent)
  PROVE  /\ Epochs(s) \in Seq(Nat) /\ Len(Epochs(s)) = Len(s)
         /\ \A k \in 1 .. Len(s) : Epochs(s)[k] = s[k].epoch
<1>1. DOMAIN s = 1 .. Len(s) /\ Len(s) \in Nat OBVIOUS
<1>2. \A k \in 1 .. Len(s) : s[k].epoch \in Nat BY SentFields
<1>3. PICK t : t = Epochs(s) OBVIOUS
<1>4. t = [k \in 1 .. Len(s) |-> s[k].epoch] BY <1>1, <1>3 DEF Epochs
<1>5. t \in [1 .. Len(s) -> Nat] BY <1>2, <1>4
<1>6. t \in Seq(Nat) /\ Len(t) = Len(s) BY <1>1, <1>5, IsASeq
<1> QED BY <1>3, <1>4, <1>6

(* The batches up to the floor leave.                                      *)
LEMMA ReadAcksKeeps ==
  ASSUME FlowInv, ReadAcks PROVE FlowInv'
<1>1. run # "done" /\ run' # "done" BY DEF ReadAcks, Goto
<1>2. ~failed /\ intake \in Inbox /\ host \in Hosts /\ (disp.draining => shutdown) BY <1>1, TurnFacts
<1>3. PICK u \in Seq(Sent) : u = disp.unacked BY <1>1, TurnFacts
<1>4. PICK published \in Nat, acked \in Nat, ack \in Nat :
        published = intake.published /\ acked = intake.acked /\ ack = host.ack
  BY StateTypes
<1>5. PICK queue \in Seq(Posted) : queue = host.queue BY StateTypes
<1>6. PICK n : n = Passed(Epochs(u), acked) OBVIOUS
<1>7. n \in 0 .. Len(u) /\ \A k \in 1 .. n : u[k].epoch <= acked
  <2>1. PICK s \in Seq(Nat) : s = Epochs(u) BY SentEpochs
  <2>2. Len(s) = Len(u) /\ \A k \in 1 .. Len(u) : s[k] = u[k].epoch BY <2>1, SentEpochs
  <2>3. n \in 0 .. Len(s) /\ \A k \in 1 .. n : s[k] <= acked BY <1>6, <2>1, PassedFacts
  <2>4. \A k \in 1 .. n : k \in 1 .. Len(u) BY <2>2, <2>3
  <2> QED BY <2>2, <2>3, <2>4
<1>8. PICK S : S = {u[k].entry : k \in 1 .. n} OBVIOUS
<1>9. Entries(u, n, S) BY <1>8 DEF Entries
<1>10. PICK left : left = ring' OBVIOUS
<1>11. left = Unfree(ring, S) BY <1>3, <1>4, <1>6, <1>8, <1>10 DEF ReadAcks
<1>12. ring \in [Entry -> Held] /\ left \in [Entry -> Held] BY <1>11, StateTypes, UnfreeFacts
<1>13. RingInv(u, ring, published, acked, queue, ack, FALSE) BY <1>1, <1>3, <1>4, <1>5, TurnFacts
<1>14. PICK t \in Seq(Sent) : t = Behind(u, n) BY <1>7, Cut
<1>15. RingInv(t, left, published, acked, queue, ack, FALSE)
  <2>1. RingInv(Behind(u, n), left, published, acked, queue, ack, FALSE)
    BY <1>7, <1>9, <1>11, <1>12, <1>13, RingAcks
  <2> QED BY <1>14, <2>1
<1>16. \A e \in Entry : left[e].events = ring[e].events
  <2>1. ASSUME NEW e \in Entry PROVE left[e].events = ring[e].events
    <3>1. CASE e \notin S BY <1>11, <1>12, <3>1, UnfreeFacts
    <3>2. CASE e \in S
      <4>1. left[e].events = <<>> BY <1>11, <1>12, <3>2, UnfreeFacts
      <4>2. PICK k \in 1 .. n : u[k].entry = e BY <1>9, <3>2 DEF Entries
      <4>3. k \in 1 .. Len(u) BY <1>7
      <4>4. u[k].epoch <= acked /\ u[k].epoch \in Nat BY <1>7, <4>3, SentFields
      <4>5. ring[e].epoch = u[k].epoch BY <1>13, <4>2, <4>3 DEF RingInv
      <4>6. ~(acked < ring[e].epoch) BY <4>4, <4>5
      <4>7. ring[e].events = <<>> BY <1>13, <4>6 DEF RingInv
      <4> QED BY <4>1, <4>7
    <3> QED BY <3>1, <3>2
  <2> QED BY <2>1
<1>17. \A e \in Entry : left[e].events # <<>> => left[e].epoch = ring[e].epoch
  <2>1. ASSUME NEW e \in Entry, left[e].events # <<>> PROVE left[e].epoch = ring[e].epoch
    <3>1. e \notin S BY <1>11, <1>12, <2>1, UnfreeFacts
    <3> QED BY <1>11, <1>12, <3>1, UnfreeFacts
  <2> QED BY <2>1
<1>18. PICK b \in BOOLEAN : b = (disp.full /\ ~(n > 0 \/ disp.retry = "due"))
  <2>1. (disp.full /\ ~(n > 0 \/ disp.retry = "due")) \in BOOLEAN BY DEF ReadAcks
  <2> QED BY <2>1, Zenon
<1>19. disp \in Dispatcher BY StateTypes
<1>20. PICK y \in {"none", "set", "due"} :
         y = IF n > 0 \/ disp.retry = "due" THEN "none" ELSE disp.retry
  BY <1>19 DEF Dispatcher
<1>21. PICK d : d = disp' OBVIOUS
<1>22. d = [disp EXCEPT !.unacked = t, !.full = b, !.retry = y]
  <2>1. d = [disp EXCEPT !.unacked = Behind(@, n), !.full = @ /\ ~(n > 0 \/ disp.retry = "due"),
                         !.retry = IF n > 0 \/ disp.retry = "due" THEN "none" ELSE @]
    BY <1>3, <1>4, <1>6, <1>21 DEF ReadAcks
  <2> QED BY <1>3, <1>14, <1>18, <1>19, <1>20, <2>1 DEF Dispatcher
<1>23. d \in Dispatcher /\ d.events = disp.events /\ d.unacked = t /\ d.draining = disp.draining
       /\ d.connections = disp.connections
  BY <1>19, <1>22 DEF Dispatcher
<1>24. UNCHANGED <<intake, led, refused, con, shutdown, failed, host, lost>> BY DEF ReadAcks
<1>25. Flow(d, left, led, refused, con, host.last, lost, intake.published, failed)
  <2>1. PICK q \in Seq(Event) : q = disp.events BY <1>19, DispFields
  <2>2. Way(q, left) = Way(q, ring) BY <1>16 DEF Way, Ringed
  <2>3. OrderInv(Way(d.events, left), refused, con, host.last, lost)
    BY <1>23, <2>1, <2>2 DEF FlowInv, Flow
  <2>4. \A x \in Entry : left[x].events = <<>>
                         \/ (left[x].events = ring[x].events /\ left[x].epoch = ring[x].epoch)
    BY <1>16, <1>17
  <2>5. d.events = disp.events \/ d.events = <<>> BY <1>23
  <2>6. led \in Ledger /\ refused \in Seq(Event) /\ con \in [Peer -> Connection]
        /\ Flow(disp, ring, led, refused, con, host.last, lost, intake.published, failed)
    BY StateTypes
  <2>7. PICK last \in [Peer -> Nat] : last = host.last BY StateTypes
  <2>8. Flow(disp, ring, led, refused, con, last, lost, published, failed) BY <1>4, <2>6, <2>7
  <2>9. OrderInv(Way(d.events, left), refused, con, last, lost) BY <2>3, <2>7
  <2>10. Flow(d, left, led, refused, con, last, lost, published, failed)
    BY <1>12, <1>19, <1>23, <2>4, <2>5, <2>6, <2>8, <2>9, FlowShrink
  <2> QED BY <1>4, <2>7, <2>10
<1>26. Flow(disp', ring', led, refused, con, host'.last, lost', intake'.published, failed)
  BY <1>10, <1>21, <1>24, <1>25
<1>27. RingInv(disp'.unacked, ring', intake'.published, intake'.acked, host'.queue, host'.ack, failed)
  <2>1. RingInv(t, left, published, acked, queue, ack, failed) BY <1>2, <1>15, RingOn
  <2> QED BY <1>4, <1>5, <1>10, <1>21, <1>23, <1>24, <2>1
<1>28. disp' \in Dispatcher /\ ring' \in [Entry -> Held] /\ intake' \in Inbox /\ host' \in Hosts
       /\ disp'.connections = disp.connections /\ (disp'.draining => shutdown)
  BY <1>2, <1>10, <1>12, <1>21, <1>23, <1>24
<1> QED BY <1>1, <1>2, <1>24, <1>26, <1>27, <1>28, TurnKeeps

(* What a batch takes off the queue, and the rest.                         *)
LEMMA FilledFacts ==
  ASSUME disp.events \in Seq(Event)
  PROVE  Filled \in Seq(Event) /\ Unfilled \in Seq(Event) /\ Filled \o Unfilled = disp.events
<1>1. PICK q \in Seq(Event) : q = disp.events OBVIOUS
<1>2. PICK b \in Nat : b = Batch BY FlowAssumption
<1>3. PICK n \in 0 .. Len(q) : n = IF Len(q) < b THEN Len(q) ELSE b OBVIOUS
<1>4. Filled = SubSeq(q, 1, n) BY <1>1, <1>2, <1>3 DEF Filled
<1>5. Filled \in Seq(Event) /\ Len(Filled) = n BY <1>4, Cut
<1>6. Unfilled = Behind(q, n) BY <1>1, <1>5 DEF Unfilled
<1>7. Unfilled \in Seq(Event) BY <1>6, Cut
<1> QED BY <1>1, <1>4, <1>5, <1>6, <1>7, CutJoins

(* The target refuses the batch: what it carried goes back in front.       *)
LEMMA PostFullKeeps ==
  ASSUME FlowInv, PostFull PROVE FlowInv'
<1>1. run # "done" /\ run' # "done" BY DEF PostFull, Goto
<1>2. ~failed /\ intake \in Inbox /\ host \in Hosts /\ (disp.draining => shutdown) BY <1>1, TurnFacts
<1>3. disp \in Dispatcher BY StateTypes
<1>4. disp.events \in Seq(Event) BY <1>3, DispFields
<1>5. PICK b \in BOOLEAN : b = (Kind = "requests") OBVIOUS
<1>6. PICK y \in {"none", "set", "due"} : y = RetryAt(disp) BY <1>3 DEF RetryAt, Dispatcher
<1>7. PICK d : d = disp' OBVIOUS
<1>8. d = [disp EXCEPT !.prefer = b, !.full = TRUE, !.retry = y, !.events = disp.events]
  <2>1. d = [disp EXCEPT !.prefer = b, !.full = TRUE, !.retry = y,
                         !.events = IF Kind = "events" THEN Again(Filled, Unfilled) ELSE @]
    BY <1>5, <1>6, <1>7 DEF PostFull
  <2>2. Again(Filled, Unfilled) = disp.events BY <1>4, FilledFacts DEF Again
  <2> QED BY <1>3, <2>1, <2>2 DEF Dispatcher
<1>9. d \in Dispatcher /\ d.events = disp.events /\ d.unacked = disp.unacked
      /\ d.draining = disp.draining /\ d.connections = disp.connections
  BY <1>3, <1>8 DEF Dispatcher
<1>10. UNCHANGED <<ring, intake, led, refused, con, shutdown, failed, host, lost>> BY DEF PostFull
<1>11. SameLedger(led, led) BY DEF SameLedger
<1>12. Flow(d, ring, led, refused, con, host.last, lost, intake.published, failed)
  BY <1>9, <1>11, StateTypes, FlowRest
<1>13. Flow(disp', ring', led, refused, con, host'.last, lost', intake'.published, failed)
  BY <1>7, <1>10, <1>12
<1>14. RingInv(disp'.unacked, ring', intake'.published, intake'.acked, host'.queue, host'.ack, failed)
  BY <1>7, <1>9, <1>10 DEF FlowInv
<1>15. disp' \in Dispatcher /\ ring' \in [Entry -> Held] /\ intake' \in Inbox /\ host' \in Hosts
       /\ disp'.connections = disp.connections /\ (disp'.draining => shutdown)
  BY <1>2, <1>7, <1>9, <1>10, StateTypes
<1> QED BY <1>1, <1>2, <1>10, <1>13, <1>14, <1>15, TurnKeeps

(* An entry is free while fewer batches than entries are in flight.        *)
LEMMA FreeEntryExists ==
  ASSUME NEW d, NEW u \in Seq(Sent), d.unacked = u, Len(u) < InFlight
  PROVE  Min(Entry \ Busy(d)) \in Entry /\ \A k \in 1 .. Len(u) : u[k].entry # Min(Entry \ Busy(d))
<1>1. PICK T : T = Entry \ Busy(d) OBVIOUS
<1>2. PICK m \in Nat : m = InFlight BY FlowAssumption
<1>3. T # {}
  <2>1. SUFFICES ASSUME T = {} PROVE FALSE OBVIOUS
  <2>2. Entry \subseteq Busy(d) BY <1>1, <2>1
  <2>3. DOMAIN u = 1 .. Len(u) /\ Len(u) \in Nat OBVIOUS
  <2>4. PICK B : B = Busy(d) OBVIOUS
  <2>5. PICK f : f = [k \in 1 .. Len(u) |-> u[k].entry] OBVIOUS
  <2>6. \A e : e \in B <=> \E k \in 1 .. Len(u) : u[k].entry = e BY <2>4, BusyFacts
  <2>7. f \in Surjection(1 .. Len(u), B) BY <2>5, <2>6 DEF Surjection
  <2>8. IsFiniteSet(1 .. Len(u)) /\ Cardinality(1 .. Len(u)) = Len(u)
    <3>1. 1 \in Int /\ Len(u) \in Int BY <2>3
    <3> QED BY <2>3, <3>1, FS_Interval
  <2>9. IsFiniteSet(B) /\ Cardinality(B) <= Len(u) BY <2>7, <2>8, FS_Surjection
  <2>10. Cardinality(1 .. m) = m
    <3>1. 1 \in Int /\ m \in Int BY <1>2
    <3> QED BY <1>2, <3>1, FS_Interval
  <2>11. Entry = 1 .. m BY <1>2 DEF Entry
  <2>12. Cardinality(Entry) <= Cardinality(B) /\ Cardinality(Entry) \in Nat /\ Cardinality(B) \in Nat
    BY <2>2, <2>4, <2>9, PartCard
  <2>13. m <= Len(u) BY <2>9, <2>10, <2>11, <2>12, <2>3
  <2> QED BY <1>2, <2>3, <2>13
<1>4. T \in SUBSET Nat BY <1>1 DEF Entry
<1>5. \E x \in T : \A y \in T : x <= y BY <1>3, <1>4, LeastNat
<1>6. Min(T) \in T BY <1>5 DEF Min
<1>7. Min(T) \in Entry /\ Min(T) \notin Busy(d) BY <1>1, <1>6
<1>8. \A k \in 1 .. Len(u) : u[k].entry # Min(T) BY <1>7, BusyFacts
<1> QED BY <1>1, <1>7, <1>8

(* A batch is posted and the target takes it.                              *)
LEMMA PostTakenKeeps ==
  ASSUME FlowInv, PostTaken PROVE FlowInv'
<1>1. run # "done" /\ run' # "done" BY DEF PostTaken
<1>2. ~failed /\ intake \in Inbox /\ host \in Hosts /\ (disp.draining => shutdown) BY <1>1, TurnFacts
<1>3. PICK u \in Seq(Sent) : u = disp.unacked BY <1>1, TurnFacts
<1>4. PICK published \in Nat, acked \in Nat, ack \in Nat :
        published = intake.published /\ acked = intake.acked /\ ack = host.ack
  BY StateTypes
<1>5. PICK queue \in Seq(Posted) : queue = host.queue BY StateTypes
<1>6. disp \in Dispatcher /\ ring \in [Entry -> Held] BY StateTypes
<1>7. PICK entry \in Entry : entry = Min(Entry \ Busy(disp)) /\ \A k \in 1 .. Len(u) : u[k].entry # entry
  <2>1. Len(u) < InFlight BY <1>3 DEF PostTaken, MayPost
  <2> QED BY <1>3, <2>1, FreeEntryExists
<1>8. PICK kd \in BatchKind : kd = Kind BY DEF Kind, BatchKind
<1>9. PICK epoch \in Nat : epoch = published + 1 OBVIOUS
<1>10. PICK q \in Seq(Event) : q = disp.events BY <1>6, DispFields
<1>11. PICK front \in Seq(Event) : front = IF kd = "events" THEN Filled ELSE <<>>
  <2>1. Filled \in Seq(Event) /\ <<>> \in Seq(Event) BY <1>10, FilledFacts
  <2> QED BY <2>1
<1>12. PICK rest \in Seq(Event) : rest = IF kd = "events" THEN Unfilled ELSE q
  <2>1. Unfilled \in Seq(Event) BY <1>10, FilledFacts
  <2> QED BY <2>1
<1>13. front \o rest = q
  <2>1. CASE kd = "events"
    <3>1. Filled \o Unfilled = disp.events BY <1>10, FilledFacts
    <3> QED BY <1>10, <1>11, <1>12, <2>1, <3>1
  <2>2. CASE kd # "events"
    <3>1. <<>> \o q = q OBVIOUS
    <3> QED BY <1>11, <1>12, <2>2, <3>1
  <2> QED BY <2>1, <2>2
<1>14. PICK s \in Sent : s = [epoch |-> epoch, entry |-> entry] BY DEF Sent
<1>15. PICK b \in Posted : b = [entry |-> entry, epoch |-> epoch, kind |-> kd, target |-> disp.target]
  BY <1>6 DEF Posted, Dispatcher
<1>16. PICK next : next = ring' OBVIOUS
<1>17. next = [ring EXCEPT ![entry] = [epoch |-> published + 1, kind |-> kd, events |-> front]]
  BY <1>4, <1>7, <1>8, <1>11, <1>16 DEF PostTaken
<1>18. \A e \in Entry : e # entry => next[e] = ring[e] BY <1>6, <1>17
<1>19. next[entry].epoch = published + 1 /\ next[entry].kind = kd /\ next[entry].events = front
  BY <1>6, <1>17
<1>20. next \in [Entry -> Held]
  <2>1. PICK h : h = [epoch |-> published + 1, kind |-> kd, events |-> front] OBVIOUS
  <2>2. h \in Held BY <2>1 DEF Held
  <2> QED BY <1>6, <1>17, <2>1, <2>2
<1>21. RingInv(u, ring, published, acked, queue, ack, FALSE) BY <1>1, <1>3, <1>4, <1>5, TurnFacts
<1>22. /\ s.epoch = published + 1 /\ s.entry = entry
       /\ b.epoch = published + 1 /\ b.entry = entry /\ b.kind = next[entry].kind
  BY <1>9, <1>14, <1>15, <1>19
<1>23. RingInv(Append(u, s), next, published + 1, acked, Append(queue, b), ack, FALSE)
  BY <1>6, <1>7, <1>18, <1>19, <1>20, <1>21, <1>22, RingPost
<1>24. ring[entry].events = <<>>
  <2>1. ASSUME ring[entry].events # <<>> PROVE FALSE
    <3>1. \E k \in 1 .. Len(u) : u[k].entry = entry BY <1>21, <2>1 DEF RingInv
    <3> QED BY <1>7, <3>1
  <2> QED BY <2>1
<1>25. Flow(disp, ring, led, refused, con, host.last, lost, published, failed) BY <1>4, StateTypes
<1>26. PICK pushed \in Nat : pushed = led.pushed BY StateTypes, LedgerFields
<1>27. SeqInv(front \o rest, ring, pushed, published) BY <1>10, <1>13, <1>25, <1>26 DEF Flow
<1>28. SeqInv(rest, next, pushed, published + 1) /\ Way(rest, next) = Way(q, ring)
  <2>1. PICK rng \in [Entry -> Held] : rng = ring BY <1>6
  <2>2. Posts(front, entry, rng, next, epoch) BY <1>9, <1>18, <1>19, <1>24, <2>1 DEF Posts
  <2>3. SeqInv(front \o rest, rng, pushed, published) BY <1>27, <2>1
  <2>4. SeqInv(rest, next, pushed, epoch) BY <1>9, <1>20, <2>2, <2>3, SeqPost
  <2>5. Way(rest, next) = Way(front \o rest, rng) BY <1>9, <1>20, <2>2, <2>3, <2>4, SeqPost
  <2> QED BY <1>9, <1>13, <2>1, <2>4, <2>5
<1>29. LedgerInv(rest, next, led, published + 1)
  <2>1. led \in Ledger BY StateTypes
  <2>2. SeqInv(front \o rest, ring, led.pushed, published) BY <1>26, <1>27
  <2>3. LedgerInv(front \o rest, ring, led, published) BY <1>2, <1>10, <1>13, <1>25 DEF Flow
  <2>4. Way(rest, next) = Way(front \o rest, ring) BY <1>13, <1>28
  <2> QED BY <1>6, <1>18, <1>19, <1>20, <2>1, <2>2, <2>3, <2>4, LedgerPost
<1>30. PICK d : d = disp' OBVIOUS
<1>31. PICK y \in Nat : y = IF kd = "requests"
                           THEN (IF disp.ready > Batch THEN disp.ready - Batch ELSE 0) ELSE disp.ready
  <2>1. disp.ready \in Nat /\ Batch \in Nat BY <1>6, DispFields, FlowAssumption
  <2> QED BY <2>1
<1>32. PICK z \in BOOLEAN : z = (kd = "requests") OBVIOUS
<1>33. PICK v \in Seq(Sent) : v = Append(u, s)
  <2>1. Append(u, s) \in Seq(Sent) OBVIOUS
  <2> QED BY <2>1, Zenon
<1>34. d = [disp EXCEPT !.events = rest, !.ready = y, !.prefer = z, !.unacked = v]
  <2>1. d = [disp EXCEPT
               !.events = IF kd = "events" THEN Unfilled ELSE @,
               !.ready = IF kd = "requests" THEN (IF @ > Batch THEN @ - Batch ELSE 0) ELSE @,
               !.prefer = (kd = "requests"),
               !.unacked = Append(@, s)]
    BY <1>4, <1>7, <1>8, <1>9, <1>14, <1>30 DEF PostTaken
  <2>2. d = [disp EXCEPT
               !.events = IF kd = "events" THEN Unfilled ELSE disp.events,
               !.ready = IF kd = "requests"
                         THEN (IF disp.ready > Batch THEN disp.ready - Batch ELSE 0) ELSE disp.ready,
               !.prefer = (kd = "requests"),
               !.unacked = Append(disp.unacked, s)]
    BY <1>6, <2>1 DEF Dispatcher
  <2> QED BY <1>3, <1>10, <1>12, <1>31, <1>32, <1>33, <2>2
<1>35. d \in Dispatcher /\ d.events = rest /\ d.unacked = v /\ d.draining = disp.draining
       /\ d.connections = disp.connections
  BY <1>6, <1>34 DEF Dispatcher
<1>36. UNCHANGED <<led, refused, con, shutdown, failed, lost>> BY DEF PostTaken
<1>37. PICK w \in Seq(Posted) : w = Append(queue, b)
  <2>1. Append(queue, b) \in Seq(Posted) OBVIOUS
  <2> QED BY <2>1, Zenon
<1>38. host' = [host EXCEPT !.queue = w]
  <2>1. host' = [host EXCEPT !.queue = Append(@, b)]
    BY <1>4, <1>7, <1>8, <1>9, <1>15 DEF PostTaken
  <2> QED BY <1>2, <1>5, <1>37, <2>1 DEF Hosts
<1>39. host' \in Hosts /\ host'.queue = w /\ host'.last = host.last /\ host'.ack = ack
  BY <1>2, <1>4, <1>38 DEF Hosts
<1>40. intake' = [intake EXCEPT !.published = epoch] BY <1>4, <1>9 DEF PostTaken
<1>41. intake' \in Inbox /\ intake'.published = epoch /\ intake'.acked = acked
  BY <1>2, <1>4, <1>40 DEF Inbox
<1>42. Flow(d, next, led, refused, con, host.last, lost, epoch, failed)
  <2>1. OrderInv(Way(q, ring), refused, con, host.last, lost) BY <1>10, <1>25 DEF Flow
  <2>2. BoundInv(Way(q, ring), con) BY <1>2, <1>10, <1>25 DEF Flow
  <2>3. SeqInv(d.events, next, led.pushed, epoch) BY <1>9, <1>26, <1>28, <1>35
  <2>4. OrderInv(Way(d.events, next), refused, con, host.last, lost) BY <1>28, <1>35, <2>1
  <2>5. BoundInv(Way(d.events, next), con) BY <1>28, <1>35, <2>2
  <2>6. LedgerInv(d.events, next, led, epoch) BY <1>9, <1>29, <1>35
  <2> QED BY <2>3, <2>4, <2>5, <2>6 DEF Flow
<1>43. Flow(disp', ring', led, refused, con, host'.last, lost', intake'.published, failed)
  BY <1>16, <1>30, <1>36, <1>39, <1>41, <1>42
<1>44. RingInv(disp'.unacked, ring', intake'.published, intake'.acked, host'.queue, host'.ack, failed)
  <2>1. RingInv(v, next, epoch, acked, w, ack, FALSE) BY <1>9, <1>23, <1>33, <1>37
  <2>2. RingInv(v, next, epoch, acked, w, ack, failed) BY <1>2, <2>1, RingOn
  <2> QED BY <1>16, <1>30, <1>35, <1>39, <1>41, <2>2
<1>45. disp' \in Dispatcher /\ ring' \in [Entry -> Held] /\ disp'.connections = disp.connections
       /\ (disp'.draining => shutdown)
  BY <1>2, <1>16, <1>20, <1>30, <1>35
<1> QED BY <1>1, <1>2, <1>36, <1>39, <1>41, <1>43, <1>44, <1>45, TurnKeeps

(* Events that differ count no more than the messages among them.          *)
LEMMA OctetsFit ==
  ASSUME NEW queue \in Seq(Event),
         \A j, k \in 1 .. Len(queue) : queue[j].seq = queue[k].seq => j = k
  PROVE  OctetsOf(queue) <= Cardinality(Messages(Range(queue)))
<1>1. DOMAIN queue = 1 .. Len(queue) /\ Len(queue) \in Nat OBVIOUS
<1>2. PICK K : K = {k \in 1 .. Len(queue) : queue[k].kind = "message"} OBVIOUS
<1>3. OctetsOf(queue) = Cardinality(K) BY <1>1, <1>2 DEF OctetsOf
<1>4. PICK T : T = Messages(Range(queue)) OBVIOUS
<1>5. IsFiniteSet(T) BY <1>4, OctetsCover
<1>6. PICK f : f = [k \in K |-> queue[k]] OBVIOUS
<1>7. \A k \in K : queue[k] \in T
  <2>1. ASSUME NEW k \in K PROVE queue[k] \in T
    <3>1. queue[k] \in Range(queue) BY <1>2, Members
    <3> QED BY <1>2, <1>4, <3>1 DEF Messages
  <2> QED BY <2>1
<1>8. f \in Injection(K, T)
  <2>1. f \in [K -> T] /\ \A k \in K : f[k] = queue[k] BY <1>6, <1>7
  <2>2. \A j, k \in K : f[j] = f[k] => j = k BY <1>2, <2>1
  <2>3. IsInjective(f) BY <2>1, <2>2 DEF IsInjective
  <2> QED BY <2>1, <2>3 DEF Injection
<1>9. Cardinality(K) <= Cardinality(T) BY <1>5, <1>8, FS_Injection
<1> QED BY <1>3, <1>4, <1>9

(* A mark for what was posted since the last turn.                         *)
LEMMA MarkedKeeps ==
  ASSUME NEW queue \in Seq(Event), NEW rng \in [Entry -> Held], NEW l \in Ledger,
         NEW published \in Nat, published = intake.published,
         SeqInv(queue, rng, l.pushed, published), LedgerInv(queue, rng, l, published),
         NEW m, m = Marked(l, queue)
  PROVE  m \in Ledger /\ LedgerInv(queue, rng, m, published) /\ m.pushed = l.pushed
<1>1. PICK x \in Nat, y \in Nat, q \in Nat, p \in Nat :
        x = l.pushed /\ y = l.pushed_octets /\ q = Len(queue) /\ p = l.posted
  <2>1. Len(queue) \in Nat OBVIOUS
  <2> QED BY <2>1, LedgerFields
<1>2. q <= x BY <1>1 DEF SeqInv
<1>3. CASE ~(x - q > p)
  <2>1. m = l BY <1>1, <1>3 DEF Marked
  <2> QED BY <2>1
<1>4. CASE x - q > p
  <2>1. PICK o \in Nat : o = OctetsOf(queue) BY OctetsCover
  <2>2. o <= y
    <3>1. \A j, k \in 1 .. Len(queue) : queue[j].seq = queue[k].seq => j = k
      <4>1. \A k \in 1 .. q : queue[k].seq = x - q + k BY <1>1 DEF SeqInv
      <4>2. ASSUME NEW j \in 1 .. q, NEW k \in 1 .. q, queue[j].seq = queue[k].seq PROVE j = k
        <5>1. x - q + j = x - q + k BY <4>1, <4>2
        <5> QED BY <5>1
      <4> QED BY <1>1, <4>2
    <3>2. PICK way : way = Way(queue, rng) OBVIOUS
    <3>3. IsFiniteSet(way) /\ way \subseteq Event /\ Range(queue) \subseteq way
      BY <3>2, WayFacts DEF Way
    <3>4. \A a \in way : a.seq \in Nat /\ l.acked \in Nat /\ l.acked < a.seq
      BY <3>2, <3>3, EventFields, LedgerFields DEF LedgerInv
    <3>5. \A a \in way : a.seq > l.acked BY <3>4
    <3>6. Messages(Range(queue)) \subseteq Later(way, l.acked) BY <3>3, <3>5 DEF Messages, Later
    <3>7. Later(way, l.acked) \subseteq way BY DEF Later, Messages
    <3>8. IsFiniteSet(Later(way, l.acked)) BY <3>3, <3>7, PartCard
    <3>9. PICK c1 \in Nat, c2 \in Nat :
            c1 = Cardinality(Messages(Range(queue))) /\ c2 = Cardinality(Later(way, l.acked))
            /\ c1 <= c2
      BY <3>6, <3>8, PartCard
    <3>10. PICK a \in Nat : a = l.acked_octets BY LedgerFields
    <3>11. a + c2 <= y BY <1>1, <3>2, <3>9, <3>10 DEF LedgerInv
    <3>12. o <= c1 BY <2>1, <3>1, <3>9, OctetsFit
    <3> QED BY <1>1, <2>1, <3>9, <3>10, <3>11, <3>12
  <2>3. PICK w \in Nat, z \in Nat : w = x - q /\ z = y - o BY <1>2, <2>2
  <2>4. PICK k \in Mark : k = [epoch |-> published, through |-> w, octets |-> z] BY DEF Mark
  <2>5. PICK s \in Seq(Mark) : s = Append(l.marks, k)
    <3>1. l.marks \in Seq(Mark) BY LedgerFields
    <3>2. Append(l.marks, k) \in Seq(Mark) BY <3>1
    <3> QED BY <3>2, Zenon
  <2>6. m = [l EXCEPT !.posted = w, !.marks = s]
    <3>1. m = [l EXCEPT !.posted = w, !.marks = Append(@, k)]
      BY <1>1, <1>4, <2>1, <2>3, <2>4 DEF Marked
    <3> QED BY <2>5, <3>1 DEF Ledger
  <2>7. m \in Ledger /\ m.pushed = l.pushed /\ m.pushed_octets = l.pushed_octets /\ m.acked = l.acked
        /\ m.acked_octets = l.acked_octets /\ m.posted = w /\ m.marks = s
    BY <2>6 DEF Ledger
  <2>8. k.epoch = published /\ k.through = w /\ k.octets = z BY <2>4
  <2>9. m.posted = l.pushed - Len(queue) /\ l.posted <= m.posted BY <1>1, <1>4, <2>3, <2>7
  <2>10. m.marks = Append(l.marks, k) /\ k.through = m.posted
         /\ k.octets = l.pushed_octets - OctetsOf(queue)
    BY <1>1, <2>1, <2>3, <2>5, <2>7, <2>8
  <2>11. LedgerInv(queue, rng, m, published) BY <2>7, <2>8, <2>9, <2>10, LedgerMark
  <2> QED BY <2>7, <2>11
<1> QED BY <1>3, <1>4

(* The lists of those that wait leave the counts.                          *)
LEMMA UnlistedFacts ==
  ASSUME NEW l, NEW m \in Ledger, NEW open \in BOOLEAN, NEW u, u = Unlisted(l, m, open)
  PROVE  u \in Ledger /\ SameLedger(m, u)
<1>1. PICK A \in SUBSET Peer : A = IF m.acked > l.acked THEN {} ELSE m.for_acks BY DEF Ledger
<1>2. PICK R \in SUBSET Peer : R = IF m.acked > l.acked \/ open THEN {} ELSE m.for_room BY DEF Ledger
<1>3. u = [m EXCEPT !.open = open, !.for_acks = A, !.for_room = R]
  <2>1. u = [m EXCEPT !.open = open, !.for_acks = IF m.acked > l.acked THEN {} ELSE m.for_acks,
                      !.for_room = IF m.acked > l.acked \/ open THEN {} ELSE m.for_room]
    BY DEF Unlisted, Ledger
  <2> QED BY <1>1, <1>2, <2>1
<1> QED BY <1>3 DEF Ledger, SameLedger

(* Ledger::settle: a mark, the floor, and whom to wake.                    *)
LEMMA LedgerSettles ==
  ASSUME NEW queue \in Seq(Event), NEW rng \in [Entry -> Held], NEW l \in Ledger,
         NEW published \in Nat, published = intake.published, NEW acked \in Nat,
         SeqInv(queue, rng, l.pushed, published), LedgerInv(queue, rng, l, published),
         \A e \in Entry : rng[e].events # <<>> => acked < rng[e].epoch,
         NEW m, m = Floored(Marked(l, queue), acked), NEW open \in BOOLEAN,
         NEW u, u = Unlisted(l, m, open)
  PROVE  u \in Ledger /\ u.pushed = l.pushed /\ LedgerInv(queue, rng, u, published)
<1>1. PICK k \in Ledger : k = Marked(l, queue) /\ LedgerInv(queue, rng, k, published)
                          /\ k.pushed = l.pushed
  BY MarkedKeeps
<1>2. SeqInv(queue, rng, k.pushed, published) BY <1>1
<1>3. m = Floored(k, acked) BY <1>1
<1>4. m \in Ledger BY <1>1, <1>2, <1>3, LedgerFloor
<1>5. LedgerInv(queue, rng, m, published) BY <1>1, <1>2, <1>3, LedgerFloor
<1>6. m.pushed = k.pushed BY <1>1, <1>2, <1>3, LedgerFloor
<1>7. u \in Ledger /\ SameLedger(m, u) BY <1>4, UnlistedFacts
<1>8. LedgerInv(queue, rng, u, published) BY <1>5, <1>7 DEF LedgerInv, SameLedger
<1> QED BY <1>1, <1>6, <1>7, <1>8 DEF SameLedger

(* The connections nobody will claim are over, and those that wait woken.  *)
LEMMA SweepFacts ==
  ASSUME FlowInv, NEW W, NEW next, next = WakeAll(EndOrphans, W)
  PROVE  /\ next \in [Peer -> Connection] /\ \A x \in Orphans : Ends(con[x], next[x])
         /\ \A x \in Peer \ Orphans : Stays(con[x], next[x])
         /\ \A x \in Peer : /\ Reads(next[x]) => Reads(con[x])
                            /\ next[x].held = con[x].held /\ next[x].sequences = con[x].sequences
<1>1. con \in [Peer -> Connection] BY StateTypes
<1>2. PICK mid : mid = EndOrphans OBVIOUS
<1>3. \A x \in Peer : x \in Orphans => con[x].said = 0 /\ con[x].held = <<>> /\ con[x].life = "orphan"
  BY NoneOnTheWay DEF Orphans
<1>4. ASSUME NEW x \in Peer
      PROVE  /\ mid[x] \in Connection /\ mid[x].held = con[x].held
             /\ mid[x].sequences = con[x].sequences /\ mid[x].task = con[x].task
             /\ mid[x].wait = con[x].wait
             /\ x \in Orphans => mid[x].life = "over" /\ mid[x].said = 1
             /\ x \notin Orphans => mid[x] = con[x]
  <2>1. mid[x] = IF x \in Orphans THEN [con[x] EXCEPT !.life = "over", !.said = @ + 1] ELSE con[x]
    BY <1>2, <1>4 DEF EndOrphans
  <2>2. con[x] \in Connection BY <1>1
  <2>3. CASE x \in Orphans
    <3>1. con[x].said + 1 = 1 BY <1>3, <2>3
    <3>2. PICK p : p = con[x] OBVIOUS
    <3>3. p \in Connection /\ p.said + 1 = 1 BY <2>2, <3>1, <3>2
    <3>4. mid[x] = [p EXCEPT !.life = "over", !.said = p.said + 1]
      BY <2>1, <2>3, <3>2, <3>3 DEF Connection
    <3>5. PICK z : z = [p EXCEPT !.life = "over", !.said = 1] OBVIOUS
    <3>6. mid[x] = z BY <3>3, <3>4, <3>5
    <3>7. z \in Connection /\ z.held = p.held /\ z.sequences = p.sequences /\ z.task = p.task
          /\ z.wait = p.wait /\ z.life = "over" /\ z.said = 1
      BY <3>3, <3>5 DEF Connection
    <3> QED BY <2>3, <3>2, <3>6, <3>7
  <2>4. CASE x \notin Orphans BY <2>1, <2>2, <2>4
  <2> QED BY <2>3, <2>4
<1>5. ASSUME NEW x \in Peer
      PROVE  /\ next[x] \in Connection /\ next[x].held = con[x].held
             /\ next[x].sequences = con[x].sequences /\ next[x].task = con[x].task
             /\ next[x].wait = con[x].wait
             /\ x \in Orphans => next[x].life = "over" /\ next[x].said = 1
             /\ x \notin Orphans => next[x].life = con[x].life /\ next[x].said = con[x].said
  <2>1. PICK b \in BOOLEAN : b = (mid[x].woken \/ (x \in W /\ mid[x].task \in {"wait", "endwait"}))
    <3>1. mid[x].woken \in BOOLEAN BY <1>4 DEF Connection
    <3>2. (mid[x].woken \/ (x \in W /\ mid[x].task \in {"wait", "endwait"})) \in BOOLEAN BY <3>1, Zenon
    <3> QED BY <3>2, Zenon
  <2>2. next[x] = [mid[x] EXCEPT !.woken = b]
    <3>1. next[x] = [mid[x] EXCEPT !.woken = @ \/ (x \in W /\ mid[x].task \in {"wait", "endwait"})]
      BY <1>2 DEF WakeAll
    <3>2. mid[x] \in Connection BY <1>4
    <3> QED BY <2>1, <3>1, <3>2 DEF Connection
  <2>3. mid[x] \in Connection BY <1>4
  <2>4. PICK z : z = mid[x] OBVIOUS
  <2>5. next[x] \in Connection /\ next[x].held = z.held /\ next[x].sequences = z.sequences
        /\ next[x].task = z.task /\ next[x].wait = z.wait /\ next[x].life = z.life
        /\ next[x].said = z.said
    BY <2>2, <2>3, <2>4 DEF Connection
  <2> QED BY <1>4, <2>4, <2>5
<1>6. next \in [Peer -> Connection]
  <2>1. next = [c \in Peer |-> [mid[c] EXCEPT !.woken = @ \/ (c \in W /\ mid[c].task \in {"wait", "endwait"})]]
    BY <1>2 DEF WakeAll
  <2>2. \A c \in Peer : next[c] \in Connection BY <1>5
  <2>3. \A c \in Peer : [mid[c] EXCEPT !.woken = @ \/ (c \in W /\ mid[c].task \in {"wait", "endwait"})]
                        \in Connection
    BY <2>1, <2>2
  <2> QED BY <2>1, <2>3
<1>7. \A x \in Peer : Reads(next[x]) => Reads(con[x]) BY <1>5 DEF Reads
<1>8. \A x \in Orphans : Ends(con[x], next[x])
  <2>1. ASSUME NEW x \in Orphans PROVE Ends(con[x], next[x])
    <3>1. x \in Peer BY DEF Orphans
    <3>2. con[x].life = "orphan" /\ con[x].held = <<>> BY <1>3, <3>1
    <3> QED BY <1>5, <1>7, <3>1, <3>2 DEF Ends
  <2> QED BY <2>1
<1>9. \A x \in Peer \ Orphans : Stays(con[x], next[x])
  BY <1>5 DEF Stays, SameOrder, SameBound
<1> QED BY <1>5, <1>6, <1>7, <1>8, <1>9

(* Their close events, in some order.                                      *)
LEMMA ClosesFacts ==
  ASSUME FlowInv, NEW order \in Orders, NEW ev, ev = Closes(order)
  PROVE  /\ ev \in Seq(Event)
         /\ \A k \in 1 .. Len(ev) :
              /\ ev[k].kind = "close" /\ ev[k].n = 1 /\ ev[k].conn \in Orphans
              /\ \A j \in 1 .. Len(ev) : j # k => ev[j].conn # ev[k].conn
         /\ \A x \in Orphans : \E k \in 1 .. Len(ev) : ev[k].conn = x
<1>1. Orphans \subseteq Peer BY DEF Orphans
<1>2. PICK m \in Nat : m = Cardinality(Orphans) BY <1>1, FlowAssumption, PartCard
<1>3. order \in [1 .. m -> Orphans] /\ Range(order) = Orphans /\ IsInjective(order)
  BY <1>2 DEF Orders
<1>4. ev = [k \in 1 .. m |-> CloseEvent(order[k])] BY <1>3 DEF Closes
<1>5. \A k \in 1 .. m : order[k] \in Peer /\ order[k] \in Orphans BY <1>1, <1>3
<1>6. \A x \in Orphans : con[x].said = 0 BY NoneOnTheWay DEF Orphans
<1>7. \A k \in 1 .. m : CloseEvent(order[k]) \in Event /\ CloseEvent(order[k]).conn = order[k]
        /\ CloseEvent(order[k]).n = 1 /\ CloseEvent(order[k]).kind = "close"
  BY <1>5, <1>6, CloseEventFacts
<1>8. ev \in [1 .. m -> Event] BY <1>4, <1>7
<1>9. ev \in Seq(Event) /\ Len(ev) = m BY <1>8, IsASeq
<1>10. \A j, k \in 1 .. m : j # k => order[j] # order[k] BY <1>3 DEF IsInjective
<1>11. \A k \in 1 .. m : ev[k].kind = "close" /\ ev[k].n = 1 /\ ev[k].conn = order[k] BY <1>4, <1>7
<1>12. \A x \in Orphans : \E k \in 1 .. m : order[k] = x BY <1>3 DEF Range
<1> QED BY <1>5, <1>9, <1>10, <1>11, <1>12

(* A turn settles the ledger; what is on the way stays in shape.           *)
LEMMA FlowSettles ==
  ASSUME NEW d \in Dispatcher, NEW rng \in [Entry -> Held], NEW l \in Ledger, NEW r, NEW cn, NEW last,
         NEW gone, NEW published \in Nat, published = intake.published, NEW off, ~off,
         Flow(d, rng, l, r, cn, last, gone, published, off), NEW acked \in Nat,
         \A e \in Entry : rng[e].events # <<>> => acked < rng[e].epoch,
         NEW m, m = Floored(Marked(l, d.events), acked), NEW open \in BOOLEAN,
         NEW u, u = Unlisted(l, m, open)
  PROVE  u \in Ledger /\ Flow(d, rng, u, r, cn, last, gone, published, off)
<1>1. PICK queue \in Seq(Event) : queue = d.events BY DispFields
<1>2. SeqInv(queue, rng, l.pushed, published) /\ LedgerInv(queue, rng, l, published)
  BY <1>1 DEF Flow
<1>3. m = Floored(Marked(l, queue), acked) BY <1>1
<1>4. u \in Ledger BY <1>2, <1>3, LedgerSettles
<1>5. u.pushed = l.pushed BY <1>2, <1>3, LedgerSettles
<1>6. LedgerInv(queue, rng, u, published) BY <1>2, <1>3, LedgerSettles
<1> QED BY <1>1, <1>4, <1>5, <1>6 DEF Flow

(* Posting says whether it took something.                                 *)
LEMMA PostingTook ==
  ASSUME NEW r \in Seq(Event), NEW d \in Dispatcher, NEW l \in Ledger, NEW f, Posting(r, d, l, f)
  PROVE  f.took \in BOOLEAN /\ (~f.took => f.d.events = d.events)
<1>1. CASE ~HasTarget(d) BY <1>1 DEF Posting
<1>2. CASE HasTarget(d)
  <2>1. PICK n \in 0 .. Len(r) : Closed(r, d, l, f, n) BY <1>2 DEF Posting
  <2>2. f.took = (n > 0) BY <2>1 DEF Closed
  <2>3. CASE n > 0 BY <2>2, <2>3
  <2>4. CASE n = 0
    <3>1. d.events \in Seq(Event) /\ l.pushed \in Nat BY DispFields, LedgerFields
    <3>2. f.d.events = d.events \o Pushing(r, 0, l.pushed) BY <2>1, <2>4 DEF Closed
    <3>3. f.d.events = d.events BY <3>1, <3>2, PushNone
    <3> QED BY <2>2, <2>4, <3>3
  <2> QED BY <2>3, <2>4
<1> QED BY <1>1, <1>2

(* The close events of the connections no action will claim are reported.  *)
LEMMA SweptKeeps ==
  ASSUME FlowInv, ~failed, NEW d \in Dispatcher, NEW l \in Ledger, NEW r \in Seq(Event),
         NEW more, Flow(d, ring, l, r, con, host.last, more, intake.published, failed),
         NEW order \in Orders, NEW W, NEW next, next = WakeAll(EndOrphans, W),
         HasTarget(d) \/ Orphans \subseteq more,
         NEW g, g = ReportClosed(Closes(order), r, d, l)
  PROVE  /\ g.d \in Dispatcher /\ SameBut(d, g.d) /\ g.l \in Ledger /\ g.r \in Seq(Event)
         /\ g.took \in BOOLEAN /\ (~g.took => g.d.events = d.events)
         /\ Flow(g.d, ring, g.l, g.r, next, host.last, more, intake.published, failed)
<1>1. PICK D : D = Orphans OBVIOUS
<1>2. D \in SUBSET Peer BY <1>1 DEF Orphans
<1>3. /\ next \in [Peer -> Connection] /\ \A x \in D : Ends(con[x], next[x])
      /\ \A x \in Peer \ D : Stays(con[x], next[x])
  BY <1>1, SweepFacts
<1>4. PICK ev : ev = Closes(order) OBVIOUS
<1>5. /\ ev \in Seq(Event)
      /\ \A k \in 1 .. Len(ev) :
           /\ ev[k].kind = "close" /\ ev[k].n = 1 /\ ev[k].conn \in D
           /\ \A j \in 1 .. Len(ev) : j # k => ev[j].conn # ev[k].conn
      /\ \A x \in D : \E k \in 1 .. Len(ev) : ev[k].conn = x
  BY <1>1, <1>4, ClosesFacts
<1>6. PICK last \in [Peer -> Nat], published \in Nat :
        last = host.last /\ published = intake.published
  BY StateTypes
<1>7. Flow(d, ring, l, r, con, last, more, published, failed) BY <1>6
<1>8. ring \in [Entry -> Held] /\ con \in [Peer -> Connection] BY StateTypes
<1>9. CASE ~HasTarget(d)
  <2>1. g = [r |-> r, d |-> d, l |-> l, took |-> FALSE] BY <1>9 DEF ReportClosed
  <2>2. g.r = r /\ g.d = d /\ g.l = l /\ g.took = FALSE BY <2>1
  <2>3. D \subseteq more BY <1>1, <1>9
  <2>4. more \subseteq more OBVIOUS
  <2>5. Flow(d, ring, l, r, next, last, more, published, failed)
    BY <1>2, <1>3, <1>7, <1>8, <2>3, <2>4, FlowEnd
  <2>6. SameBut(d, g.d) BY <2>2 DEF SameBut
  <2> QED BY <1>6, <2>2, <2>5, <2>6
<1>10. CASE HasTarget(d)
  <2>1. PICK s \in Seq(Event) : s = r \o ev
    <3>1. r \o ev \in Seq(Event) BY <1>5
    <3> QED BY <3>1, Zenon
  <2>2. g = PostRefused(s, d, l) BY <1>4, <1>10, <2>1 DEF ReportClosed
  <2>3. Len(d.events) <= QueueBound BY <1>7 DEF Flow, SeqInv
  <2>4. Posting(s, d, l, g) BY <2>2, <2>3, PostRefusedFacts
  <2>5. Flow(d, ring, l, r \o ev, next, last, more, published, failed)
    BY <1>2, <1>3, <1>5, <1>7, <1>8, FlowRefuse
  <2>6. Flow(d, ring, l, s, next, last, more, published, failed) BY <2>1, <2>5
  <2>7. more \subseteq more OBVIOUS
  <2>8. Flow(g.d, ring, g.l, g.r, next, last, more, published, failed)
    BY <1>3, <1>8, <1>10, <2>4, <2>6, <2>7, PostKeeps
  <2>9. g.took \in BOOLEAN /\ (~g.took => g.d.events = d.events) BY <2>4, PostingTook
  <2> QED BY <1>6, <2>4, <2>8, <2>9 DEF Posting
<1> QED BY <1>9, <1>10

(* Nothing is on the way: every connection was taken to what it said.      *)
LEMMA NothingLeft ==
  ASSUME NEW d \in Dispatcher, NEW rng \in [Entry -> Held], NEW l, NEW r,
         NEW cn \in [Peer -> Connection], NEW last \in [Peer -> Nat], NEW gone, NEW published, NEW off,
         Flow(d, rng, l, r, cn, last, gone, published, off),
         d.events = <<>>, r = <<>>, \A e \in Entry : rng[e].events = <<>>,
         \A c \in Peer : cn[c].life # "served"
  PROVE  \A c \in Peer \ gone : last[c] = cn[c].said
<1>1. PICK queue \in Seq(Event) : queue = d.events BY DispFields
<1>2. \A a \in Way(queue, rng) : FALSE
  <2>1. \A k \in 1 .. Len(queue) : FALSE BY <1>1
  <2>2. \A e \in Entry : \A k \in 1 .. Len(rng[e].events) : FALSE OBVIOUS
  <2> QED BY <2>1, <2>2, WayFacts
<1>3. OrderInv(Way(queue, rng), r, cn, last, gone) BY <1>1 DEF Flow
<1>4. \A k \in 1 .. Len(r) : FALSE OBVIOUS
<1>5. ASSUME NEW c \in Peer \ gone PROVE last[c] = cn[c].said
  <2>1. PICK x \in Nat, y \in Nat : x = last[c] /\ y = cn[c].said BY ConFields
  <2>2. cn[c].held = <<>> BY <1>3 DEF OrderInv, HeldOrder
  <2>3. Gone(cn[c]) = y BY <2>1, <2>2, GoneEmpty
  <2>4. x <= y BY <1>3, <2>1, <2>3 DEF OrderInv, HeldOrder
  <2>5. \A m \in x + 1 .. y : FALSE BY <1>2, <1>3, <1>4, <2>1, <2>3 DEF OrderInv, Complete
  <2>6. ~(x < y)
    <3>1. SUFFICES ASSUME x < y PROVE FALSE OBVIOUS
    <3>2. x + 1 \in x + 1 .. y BY <3>1
    <3> QED BY <2>5, <3>2
  <2> QED BY <2>1, <2>4, <2>6
<1> QED BY <1>5

(* The first part of the end of a turn: the close events that waited.      *)
LEMMA RefusedPosted ==
  ASSUME FlowInv, NEW f, f = PostRefused(refused, disp, led), NEW more, lost \subseteq more,
         ~HasTarget(disp) => {e.conn : e \in Range(refused)} \subseteq more
  PROVE  /\ f.d \in Dispatcher /\ SameBut(disp, f.d) /\ f.l \in Ledger /\ f.r \in Seq(Event)
         /\ f.took \in BOOLEAN /\ (~f.took => f.d.events = disp.events)
         /\ Flow(f.d, ring, f.l, f.r, con, host.last, more, intake.published, failed)
<1>1. PICK last \in [Peer -> Nat], published \in Nat :
        last = host.last /\ published = intake.published
  BY StateTypes
<1>2. disp \in Dispatcher /\ led \in Ledger /\ refused \in Seq(Event) /\ ring \in [Entry -> Held]
      /\ con \in [Peer -> Connection] /\ Len(disp.events) <= QueueBound
  BY StateTypes
<1>3. Flow(disp, ring, led, refused, con, last, lost, published, failed) BY <1>1, StateTypes
<1>4. Posting(refused, disp, led, f) BY <1>2, PostRefusedFacts
<1>5. ~HasTarget(disp) => \A k \in 1 .. Len(refused) : refused[k].conn \in more
  <2>1. \A k \in 1 .. Len(refused) : refused[k] \in Range(refused) BY <1>2, Members
  <2> QED BY <2>1
<1>6. Flow(f.d, ring, f.l, f.r, con, last, more, published, failed)
  BY <1>2, <1>3, <1>4, <1>5, PostKeeps
<1>7. f.took \in BOOLEAN /\ (~f.took => f.d.events = disp.events) BY <1>2, <1>4, PostingTook
<1> QED BY <1>1, <1>4, <1>6, <1>7 DEF Posting

(* A dispatcher that is idle waits for no connection.                      *)
LEMMA IdleLives ==
  ASSUME FlowInv, ~failed, Idling, NEW W, NEW next, next = WakeAll(EndOrphans, W)
  PROVE  \A c \in Peer : next[c].life \in {"none", "over"}
<1>1. disp.connections = 0 /\ disp.connections = Cardinality(Counted(con))
  BY DEF FlowInv, LifeInv, Idling
<1>2. IsFiniteSet(Counted(con)) BY FlowAssumption, PartCard DEF Counted
<1>3. Counted(con) = {} BY <1>1, <1>2, FS_EmptySet
<1>4. ASSUME NEW c \in Peer PROVE next[c].life \in {"none", "over"}
  <2>1. con[c] \in Connection BY StateTypes
  <2>2. con[c].life \in {"none", "leased", "orphan", "claimed", "served", "over"}
    BY <2>1 DEF Connection
  <2>3. con[c].life \notin {"leased", "claimed", "served"} BY <1>3 DEF Counted, Idling
  <2>4. CASE c \in Orphans BY <2>4, SweepFacts DEF Ends
  <2>5. CASE c \notin Orphans
    <3>1. con[c].life # "orphan" BY <2>5 DEF Orphans
    <3>2. Stays(con[c], next[c]) BY <2>5, SweepFacts
    <3> QED BY <2>2, <2>3, <3>1, <3>2 DEF Stays, SameOrder
  <2> QED BY <2>4, <2>5
<1> QED BY <1>4

(* The sweep keeps the count of the connections the dispatcher waits for,  *)
(* and what a connection that reads knows.                                 *)
LEMMA SweepKeeps ==
  ASSUME FlowInv, NEW W, NEW next, next = WakeAll(EndOrphans, W)
  PROVE  Counted(next) = Counted(con) /\ ReadsInv(next)
<1>1. ASSUME NEW c \in Peer
      PROVE  next[c].life \in {"claimed", "served"} <=> con[c].life \in {"claimed", "served"}
  <2>1. CASE c \in Orphans
    <3>1. con[c].life = "orphan" BY <2>1 DEF Orphans
    <3>2. next[c].life = "over" BY <2>1, SweepFacts DEF Ends
    <3> QED BY <3>1, <3>2
  <2>2. CASE c \notin Orphans
    <3>1. Stays(con[c], next[c]) BY <2>2, SweepFacts
    <3> QED BY <3>1 DEF Stays, SameOrder
  <2> QED BY <2>1, <2>2
<1>2. Counted(next) = Counted(con) BY <1>1 DEF Counted
<1>3. ASSUME NEW c \in Peer, Reads(next[c])
      PROVE  next[c].held = <<>> /\ Len(next[c].sequences) < MaxPending
  <2>1. Reads(con[c]) /\ next[c].held = con[c].held /\ next[c].sequences = con[c].sequences
    BY <1>3, SweepFacts
  <2> QED BY <2>1 DEF FlowInv, ReadsInv
<1> QED BY <1>2, <1>3 DEF ReadsInv

(* The end of a turn.                                                      *)
LEMMA AfterTurnKeeps ==
  ASSUME FlowInv, AfterTurn PROVE FlowInv'
<1>1. run # "done" BY DEF AfterTurn
<1>2. /\ ~failed /\ intake \in Inbox /\ host \in Hosts /\ (disp.draining => shutdown)
      /\ RingInv(disp.unacked, ring, intake.published, intake.acked, host.queue, host.ack, FALSE)
  BY <1>1, TurnFacts
<1>3. PICK f : f = PostRefused(refused, disp, led) OBVIOUS
<1>4. PICK m : m = Floored(Marked(f.l, f.d.events), intake.acked) OBVIOUS
<1>5. PICK open \in BOOLEAN : open = Open(f.d) BY DEF Open
<1>6. PICK u : u = Unlisted(f.l, m, open) OBVIOUS
<1>7. PICK order \in Orders :
        \E g \in {Swept([f EXCEPT !.l = Unlisted(f.l, m, Open(f.d))], order)} :
          /\ disp' = g.d /\ led' = g.l /\ refused' = g.r
          /\ con' = WakeAll(EndOrphans, Waking(f.l, m, Open(f.d)))
          /\ Goto(IF disp.draining /\ Idling /\ ~g.took /\ g.r = <<>> THEN "done" ELSE "register")
  BY <1>3, <1>4 DEF AfterTurn
<1>8. PICK g : g = ReportClosed(Closes(order), f.r, f.d, u) OBVIOUS
<1>9. PICK W : W = Waking(f.l, m, Open(f.d)) OBVIOUS
<1>10. PICK more : more = lost' OBVIOUS
<1>11. more = IF HasTarget(disp) THEN lost ELSE lost \cup Orphans \cup {e.conn : e \in Range(refused)}
  BY <1>10 DEF AfterTurn
<1>12. /\ f.d \in Dispatcher /\ SameBut(disp, f.d) /\ f.l \in Ledger /\ f.r \in Seq(Event)
       /\ f.took \in BOOLEAN /\ (~f.took => f.d.events = disp.events)
       /\ Flow(f.d, ring, f.l, f.r, con, host.last, more, intake.published, failed)
  <2>1. lost \subseteq more BY <1>11
  <2>2. ~HasTarget(disp) => {e.conn : e \in Range(refused)} \subseteq more BY <1>11
  <2> QED BY <1>3, <2>1, <2>2, RefusedPosted
<1>13. u \in Ledger /\ Flow(f.d, ring, u, f.r, con, host.last, more, intake.published, failed)
  <2>1. PICK d \in Dispatcher, l \in Ledger : d = f.d /\ l = f.l BY <1>12
  <2>2. PICK published \in Nat, acked \in Nat :
          published = intake.published /\ acked = intake.acked
    BY StateTypes
  <2>3. Flow(d, ring, l, f.r, con, host.last, more, published, failed) BY <1>12, <2>1, <2>2
  <2>4. \A e \in Entry : ring[e].events # <<>> => acked < ring[e].epoch
    BY <1>2, <2>2 DEF RingInv
  <2>5. m = Floored(Marked(l, d.events), acked) /\ u = Unlisted(l, m, open) BY <1>4, <1>6, <2>1, <2>2
  <2>6. ring \in [Entry -> Held] BY StateTypes
  <2>7. u \in Ledger BY <1>2, <2>2, <2>3, <2>4, <2>5, <2>6, FlowSettles
  <2>8. Flow(d, ring, u, f.r, con, host.last, more, published, failed)
    BY <1>2, <2>2, <2>3, <2>4, <2>5, <2>6, FlowSettles
  <2> QED BY <2>1, <2>2, <2>7, <2>8
<1>14. con' = WakeAll(EndOrphans, W) BY <1>7, <1>9
<1>15. /\ g.d \in Dispatcher /\ SameBut(f.d, g.d) /\ g.l \in Ledger /\ g.r \in Seq(Event)
       /\ g.took \in BOOLEAN /\ (~g.took => g.d.events = f.d.events)
       /\ Flow(g.d, ring, g.l, g.r, con', host.last, more, intake.published, failed)
  <2>1. HasTarget(f.d) \/ Orphans \subseteq more BY <1>11, <1>12 DEF SameBut, HasTarget
  <2>2. PICK d \in Dispatcher, l \in Ledger, r \in Seq(Event) : d = f.d /\ l = u /\ r = f.r
    BY <1>12, <1>13
  <2>3. Flow(d, ring, l, r, con, host.last, more, intake.published, failed) BY <1>13, <2>2
  <2>4. g = ReportClosed(Closes(order), r, d, l) BY <1>8, <2>2
  <2>5. HasTarget(d) \/ Orphans \subseteq more BY <2>1, <2>2
  <2>6. /\ g.d \in Dispatcher /\ SameBut(d, g.d) /\ g.l \in Ledger /\ g.r \in Seq(Event)
        /\ g.took \in BOOLEAN /\ (~g.took => g.d.events = d.events)
        /\ Flow(g.d, ring, g.l, g.r, con', host.last, more, intake.published, failed)
    BY <1>2, <1>14, <2>3, <2>4, <2>5, SweptKeeps
  <2> QED BY <2>2, <2>6
<1>16. /\ disp' = g.d /\ led' = g.l /\ refused' = g.r
       /\ run' = IF disp.draining /\ Idling /\ ~(g.took \/ f.took) /\ g.r = <<>>
                 THEN "done" ELSE "register"
  <2>1. PICK h : h = [f EXCEPT !.l = u] OBVIOUS
  <2>2. h.r = f.r /\ h.d = f.d /\ h.l = u /\ h.took = f.took
    <3>1. \E a, b, c2, e2 : f = [r |-> a, d |-> b, l |-> c2, took |-> e2] BY <1>3 DEF PostRefused
    <3> QED BY <2>1, <3>1
  <2>3. Swept(h, order) = [g EXCEPT !.took = @ \/ f.took] BY <1>8, <2>2 DEF Swept
  <2>4. PICK k : k = [g EXCEPT !.took = @ \/ f.took] OBVIOUS
  <2>5. k.r = g.r /\ k.d = g.d /\ k.l = g.l /\ k.took = (g.took \/ f.took)
    <3>1. \E a, b, c2, e2 : g = [r |-> a, d |-> b, l |-> c2, took |-> e2]
      BY <1>8 DEF ReportClosed, PostRefused
    <3> QED BY <2>4, <3>1
  <2>6. h = [f EXCEPT !.l = Unlisted(f.l, m, Open(f.d))] BY <1>5, <1>6, <2>1
  <2>7. /\ disp' = k.d /\ led' = k.l /\ refused' = k.r
        /\ Goto(IF disp.draining /\ Idling /\ ~k.took /\ k.r = <<>> THEN "done" ELSE "register")
    BY <1>7, <2>3, <2>4, <2>6
  <2> QED BY <2>5, <2>7 DEF Goto
<1>17. UNCHANGED <<ring, intake, shutdown, failed, host>> BY DEF AfterTurn
<1>18. /\ con' \in [Peer -> Connection] /\ Counted(con') = Counted(con) /\ ReadsInv(con')
  <2>1. con' \in [Peer -> Connection] BY <1>14, SweepFacts
  <2>2. Counted(con') = Counted(con) /\ ReadsInv(con') BY <1>14, SweepKeeps
  <2> QED BY <2>1, <2>2
<1>19. FlowType' BY <1>15, <1>16, <1>17, <1>18 DEF FlowInv, FlowType
<1>20. disp'.unacked = disp.unacked /\ disp'.connections = disp.connections
       /\ disp'.draining = disp.draining
  BY <1>12, <1>15, <1>16 DEF SameBut
<1>21. Flow(disp', ring', led', refused', con', host'.last, lost', intake'.published, failed')
  BY <1>10, <1>15, <1>16, <1>17
<1>22. RingInv(disp'.unacked, ring', intake'.published, intake'.acked, host'.queue, host'.ack, failed')
  <2>1. RingInv(disp.unacked, ring, intake.published, intake.acked, host.queue, host.ack, failed)
    BY DEF FlowInv
  <2> QED BY <1>17, <1>20, <2>1
<1>23. run' = "done" => disp'.draining /\ DrainedEmpty'
  <2>1. SUFFICES ASSUME run' = "done" PROVE disp'.draining /\ DrainedEmpty' OBVIOUS
  <2>2. disp.draining /\ Idling /\ ~g.took /\ ~f.took /\ g.r = <<>> BY <1>16, <2>1
  <2>3. disp'.events = <<>> /\ refused' = <<>> /\ disp'.unacked = <<>>
    BY <1>12, <1>15, <1>16, <1>20, <2>2 DEF Idling
  <2>4. \A c \in Peer : con'[c].life \in {"none", "over"} BY <1>2, <1>14, <2>2, IdleLives
  <2>5. \A e \in Entry : ring[e].events = <<>>
    <3>1. disp.unacked = <<>> BY <2>2 DEF Idling
    <3>2. \A k \in 1 .. Len(disp.unacked) : FALSE BY <3>1
    <3> QED BY <1>2, <3>2 DEF RingInv
  <2>6. \A c \in Peer \ lost' : host.last[c] = con'[c].said
    <3>1. PICK last \in [Peer -> Nat] : last = host.last BY StateTypes
    <3>2. PICK d \in Dispatcher : d = g.d BY <1>15
    <3>3. Flow(d, ring, g.l, g.r, con', last, more, intake.published, failed) BY <1>15, <3>1, <3>2
    <3>4. d.events = <<>> /\ g.r = <<>> BY <1>16, <2>2, <2>3, <3>2
    <3>5. ring \in [Entry -> Held] BY StateTypes
    <3>6. \A c \in Peer : con'[c].life # "served" BY <2>4
    <3>7. \A c \in Peer \ more : last[c] = con'[c].said
      BY <1>18, <2>5, <3>3, <3>4, <3>5, <3>6, NothingLeft
    <3> QED BY <1>10, <3>1, <3>7
  <2> QED BY <1>17, <1>20, <2>2, <2>3, <2>4, <2>6 DEF DrainedEmpty
<1>24. LifeInv'
  <2>1. disp'.connections = Cardinality(Counted(con')) BY <1>2, <1>18, <1>20 DEF FlowInv, LifeInv
  <2>2. disp'.draining => shutdown' BY <1>2, <1>17, <1>20
  <2>3. ~failed' BY <1>2, <1>17
  <2> QED BY <1>23, <2>1, <2>2, <2>3 DEF LifeInv
<1> QED BY <1>18, <1>19, <1>21, <1>22, <1>24 DEF FlowInv

(* A connection whose task is woken.                                       *)
LEMMA WakeFacts ==
  ASSUME NEW cs, NEW W, NEW next, next = WakeAll(cs, W), NEW c \in Peer, NEW z \in Connection, cs[c] = z
  PROVE  /\ next[c] \in Connection /\ next[c].life = z.life /\ next[c].held = z.held
         /\ next[c].said = z.said /\ next[c].sequences = z.sequences /\ next[c].task = z.task
         /\ next[c].wait = z.wait
<1>1. PICK b \in BOOLEAN : b = (z.woken \/ (c \in W /\ z.task \in {"wait", "endwait"}))
  <2>1. z.woken \in BOOLEAN BY DEF Connection
  <2>2. (z.woken \/ (c \in W /\ z.task \in {"wait", "endwait"})) \in BOOLEAN BY <2>1, Zenon
  <2> QED BY <2>2, Zenon
<1>2. next[c] = [z EXCEPT !.woken = z.woken \/ (c \in W /\ z.task \in {"wait", "endwait"})]
  BY DEF WakeAll, Connection
<1>3. next[c] = [z EXCEPT !.woken = b] BY <1>1, <1>2
<1> QED BY <1>3 DEF Connection

(* A panic in a turn ends the connections whose task never started.        *)
Fails(cn, next) ==
  /\ next \in [Peer -> Connection]
  /\ \A c \in Peer :
       /\ next[c].held = cn[c].held /\ next[c].said = cn[c].said
       /\ next[c].sequences = cn[c].sequences
       /\ next[c].task = cn[c].task /\ next[c].wait = cn[c].wait
       /\ cn[c].life \in {"claimed", "orphan"} => next[c].life = "over"
       /\ cn[c].life \notin {"claimed", "orphan"} => next[c].life = cn[c].life
(* What the panic leaves of the connections.                               *)
LEMMA FailsFacts ==
  ASSUME FlowInv, HostFails
  PROVE  Fails(con, con')
<1>1. con \in [Peer -> Connection] BY StateTypes
<1>2. PICK mid : mid = [c \in Peer |-> IF con[c].life \in {"claimed", "orphan"}
                                       THEN [con[c] EXCEPT !.life = "over"] ELSE con[c]]
  OBVIOUS
<1>3. PICK W : W = led.for_acks \cup led.for_room OBVIOUS
<1>4. con' = WakeAll(mid, W) BY <1>2, <1>3 DEF HostFails
<1>5. ASSUME NEW c \in Peer
      PROVE  /\ mid[c] \in Connection /\ mid[c].held = con[c].held /\ mid[c].said = con[c].said
             /\ mid[c].sequences = con[c].sequences
             /\ mid[c].task = con[c].task /\ mid[c].wait = con[c].wait
             /\ con[c].life \in {"claimed", "orphan"} => mid[c].life = "over"
             /\ con[c].life \notin {"claimed", "orphan"} => mid[c].life = con[c].life
  <2>1. PICK p \in Connection : p = con[c] BY <1>1
  <2>2. CASE p.life \in {"claimed", "orphan"}
    <3>1. mid[c] = [p EXCEPT !.life = "over"] BY <1>2, <2>1, <2>2
    <3>2. /\ mid[c] \in Connection /\ mid[c].held = p.held /\ mid[c].said = p.said
          /\ mid[c].sequences = p.sequences /\ mid[c].task = p.task /\ mid[c].wait = p.wait
          /\ mid[c].life = "over"
      BY <3>1 DEF Connection
    <3> QED BY <2>1, <2>2, <3>2
  <2>3. CASE p.life \notin {"claimed", "orphan"}
    <3>1. mid[c] = p BY <1>2, <2>1, <2>3
    <3> QED BY <2>1, <2>3, <3>1
  <2> QED BY <2>2, <2>3
<1>6. ASSUME NEW c \in Peer
      PROVE  /\ con'[c] \in Connection /\ con'[c].life = mid[c].life /\ con'[c].held = mid[c].held
             /\ con'[c].said = mid[c].said /\ con'[c].sequences = mid[c].sequences
             /\ con'[c].task = mid[c].task /\ con'[c].wait = mid[c].wait
  <2>1. PICK z \in Connection : z = mid[c] BY <1>5
  <2>2. PICK next : next = con' OBVIOUS
  <2>3. next = WakeAll(mid, W) /\ mid[c] = z BY <1>4, <2>1, <2>2
  <2>4. /\ next[c] \in Connection /\ next[c].life = z.life /\ next[c].held = z.held
        /\ next[c].said = z.said /\ next[c].sequences = z.sequences /\ next[c].task = z.task
        /\ next[c].wait = z.wait
    BY <2>3, WakeFacts
  <2> QED BY <2>1, <2>2, <2>4
<1>7. con' \in [Peer -> Connection]
  <2>1. con' = [c \in Peer |-> [mid[c] EXCEPT !.woken = @ \/ (c \in W /\ mid[c].task \in {"wait", "endwait"})]]
    BY <1>4 DEF WakeAll
  <2>2. \A c \in Peer : [mid[c] EXCEPT !.woken = @ \/ (c \in W /\ mid[c].task \in {"wait", "endwait"})]
                        \in Connection
    BY <1>6, <2>1
  <2> QED BY <2>1, <2>2
<1>8. PICK next : next = con' OBVIOUS
<1>9. ASSUME NEW c \in Peer
      PROVE  /\ next[c].held = con[c].held /\ next[c].said = con[c].said
             /\ next[c].sequences = con[c].sequences
             /\ next[c].task = con[c].task /\ next[c].wait = con[c].wait
             /\ con[c].life \in {"claimed", "orphan"} => next[c].life = "over"
             /\ con[c].life \notin {"claimed", "orphan"} => next[c].life = con[c].life
  BY <1>5, <1>6, <1>8
<1> QED BY <1>7, <1>8, <1>9 DEF Fails

(* A panic in a turn.                                                      *)
LEMMA HostFailsKeeps ==
  ASSUME FlowInv, HostFails PROVE FlowInv'
<1>1. run # "done" BY DEF HostFails
<1>2. /\ intake \in Inbox /\ host \in Hosts
      /\ RingInv(disp.unacked, ring, intake.published, intake.acked, host.queue, host.ack, FALSE)
  BY <1>1, TurnFacts
<1>3. PICK next \in [Peer -> Connection] : next = con' /\ Fails(con, next)
  BY FailsFacts DEF Fails
<1>4. disp' = NewDispatcher(0) /\ refused' = <<>> /\ lost' = Peer /\ failed' = TRUE /\ run' = "done"
      /\ UNCHANGED <<ring, intake, host>>
  BY DEF HostFails
<1>5. disp' \in Dispatcher /\ disp'.events = <<>> /\ disp'.unacked = <<>> /\ disp'.draining = FALSE
  <2>1. <<>> \in Seq(Event) /\ <<>> \in Seq(Sent) OBVIOUS
  <2> QED BY <1>4, <2>1 DEF NewDispatcher, Dispatcher
<1>6. led' \in Ledger /\ led'.pushed = led.pushed
  <2>1. led \in Ledger BY StateTypes
  <2>2. PICK s \in Seq(Mark) : s = <<>>
    <3>1. <<>> \in Seq(Mark) OBVIOUS
    <3> QED BY <3>1, Zenon
  <2>3. led' = [led EXCEPT !.marks = s, !.posted = led.pushed, !.acked = led.pushed,
                           !.acked_octets = led.pushed_octets, !.open = TRUE,
                           !.for_acks = {}, !.for_room = {}]
    BY <2>2 DEF HostFails
  <2> QED BY <2>1, <2>3 DEF Ledger
<1>7. FlowType'
  <2>1. <<>> \in Seq(Event) OBVIOUS
  <2> QED BY <1>2, <1>3, <1>4, <1>5, <1>6, <2>1, StateTypes DEF FlowType
<1>8. PICK queue \in Seq(Event) : queue = disp.events BY StateTypes, DispFields
<1>9. PICK last \in [Peer -> Nat], published \in Nat, pushed \in Nat :
        last = host.last /\ published = intake.published /\ pushed = led.pushed
  BY StateTypes, LedgerFields
<1>10. ring \in [Entry -> Held] /\ con \in [Peer -> Connection] /\ refused \in Seq(Event) BY StateTypes
<1>11. /\ SeqInv(queue, ring, pushed, published)
       /\ OrderInv(Way(queue, ring), refused, con, last, lost)
  BY <1>8, <1>9 DEF FlowInv, Flow
<1>12. SeqInv(<<>>, ring, pushed, published) /\ Way(<<>>, ring) \subseteq Way(queue, ring)
  BY <1>10, <1>11, SeqDrop
<1>13. PICK way, left, none : way = Way(queue, ring) /\ left = Way(<<>>, ring) /\ none = <<>> OBVIOUS
<1>14. way \subseteq Event /\ left \subseteq way /\ none \in Seq(Event) /\ \A k \in 1 .. Len(none) : FALSE
  <2>1. <<>> \in Seq(Event) OBVIOUS
  <2>2. way \subseteq Event BY <1>10, <1>13, WayFacts
  <2>3. left \subseteq way BY <1>12, <1>13
  <2>4. none \in Seq(Event) /\ \A k \in 1 .. Len(none) : FALSE BY <1>13, <2>1
  <2> QED BY <2>2, <2>3, <2>4
<1>15. PICK more : more = lost \cup Peer OBVIOUS
<1>16. \A a \in Event : a.conn \in Peer BY DEF Event
<1>17. OrderInv(left, refused, con, last, more)
  <2>1. OrderInv(way, refused, con, last, lost) BY <1>11, <1>13
  <2>2. lost \subseteq more /\ \A a \in way : a \in left \/ a.conn \in more BY <1>14, <1>15, <1>16
  <2> QED BY <1>10, <1>14, <2>1, <2>2, OrderShrink
<1>18. OrderInv(left, none, con, last, more)
  <2>1. \A k \in 1 .. Len(refused) : refused[k].conn \in more
    <3>1. \A k \in 1 .. Len(refused) : refused[k] \in Event BY <1>10
    <3> QED BY <1>15, <1>16, <3>1
  <2>2. more \subseteq more OBVIOUS
  <2>3. OrderInv(left, <<>>, con, last, more) BY <1>10, <1>17, <2>1, <2>2, OrderForget
  <2> QED BY <1>13, <2>3
<1>19. OrderInv(left, none, next, last, more)
  <2>1. PICK D \in SUBSET Peer : D = {c \in Peer : con[c].life \in {"claimed", "orphan"}} OBVIOUS
  <2>2. \A d \in Peer \ D : SameOrder(con[d], next[d]) BY <1>3, <2>1 DEF SameOrder, Fails
  <2>3. ASSUME NEW d \in D PROVE Moves(con[d], next[d], d, more)
    <3>1. d \in Peer /\ con[d].life \notin {"served", "over"} BY <2>1
    <3>2. con[d].held = <<>> /\ con[d].said = 0 /\ Gone(con[d]) = 0 BY <3>1, NoneOnTheWay
    <3>3. next[d].held = <<>> /\ next[d].said = 0 /\ next[d].life = "over" BY <1>3, <2>1, <3>1, <3>2 DEF Fails
    <3>4. Gone(next[d]) = 0 BY <3>3, GoneEmpty
    <3>5. \A k \in 1 .. Len(next[d].held) : FALSE BY <3>3
    <3> QED BY <3>2, <3>3, <3>4, <3>5 DEF Moves
  <2>4. left \subseteq Event /\ more \subseteq more BY <1>14
  <2>5. \A k \in 1 .. Len(none) : none[k].conn \notin D BY <1>14
  <2> QED BY <1>10, <1>14, <1>18, <2>2, <2>3, <2>4, <2>5, OrderConn
<1>20. OrderInv(left, none, next, last, Peer) BY <1>15, <1>19 DEF OrderInv, Complete
<1>21. Flow(disp', ring', led', refused', con', host'.last, lost', intake'.published, failed')
  BY <1>3, <1>4, <1>5, <1>6, <1>9, <1>12, <1>13, <1>20 DEF Flow
<1>22. RingInv(disp'.unacked, ring', intake'.published, intake'.acked, host'.queue, host'.ack, failed')
  <2>1. PICK u : u = <<>> OBVIOUS
  <2>2. \A k \in 1 .. Len(u) : FALSE BY <2>1
  <2>3. RingInv(u, ring, intake.published, intake.acked, host.queue, host.ack, TRUE)
    BY <1>2, <2>2 DEF RingInv
  <2> QED BY <1>4, <1>5, <2>1, <2>3
<1>23. ReadsInv(con')
  <2>1. ReadsInv(con) BY DEF FlowInv
  <2>2. ReadsInv(next) BY <1>3, <2>1 DEF ReadsInv, Reads, Fails
  <2> QED BY <1>3, <2>2
<1>24. LifeInv' BY <1>4, <1>5 DEF LifeInv
<1> QED BY <1>7, <1>21, <1>22, <1>23, <1>24 DEF FlowInv

(* A step that changes nothing.                                            *)
LEMMA StutterKeeps ==
  ASSUME FlowInv, UNCHANGED flowVars PROVE FlowInv'
<1>1. UNCHANGED <<disp, ring, intake, led, refused, con, run, shutdown, failed, host, lost>>
  BY DEF flowVars
<1>2. FlowType' BY <1>1 DEF FlowInv, FlowType
<1>3. Flow(disp', ring', led', refused', con', host'.last, lost', intake'.published, failed')
  BY <1>1 DEF FlowInv
<1>4. RingInv(disp'.unacked, ring', intake'.published, intake'.acked, host'.queue, host'.ack, failed')
  BY <1>1 DEF FlowInv
<1>5. ReadsInv(con') BY <1>1 DEF FlowInv
<1>6. LifeInv' BY <1>1 DEF FlowInv, LifeInv, DrainedEmpty
<1> QED BY <1>2, <1>3, <1>4, <1>5, <1>6 DEF FlowInv

(* Nothing is on the way at the start.                                     *)
LEMMA InitHolds ==
  ASSUME FlowInit PROVE FlowInv
<1>1. PICK none : none = <<>> OBVIOUS
<1>2. none \in Seq(Event) /\ none \in Seq(Sent) /\ none \in Seq(Mark) /\ none \in Seq(Posted)
      /\ none \in Seq(Nat) /\ Len(none) = 0 /\ \A k \in 1 .. Len(none) : FALSE
  BY <1>1
<1>3. PICK peer : peer = [life |-> "none", held |-> none, sequences |-> none, said |-> 0,
                          wait |-> NoWait, task |-> "none", woken |-> FALSE]
  OBVIOUS
<1>4. peer \in Connection /\ peer.life = "none" /\ peer.held = none /\ peer.said = 0 /\ ~Reads(peer)
      /\ Gone(peer) = 0 /\ ~Holding(peer) /\ ~HoldingMessage(peer)
  <2>1. NoWait \in Wait BY DEF NoWait, Wait
  <2>2. peer \in Connection /\ peer.life = "none" /\ peer.held = none /\ peer.said = 0
        /\ peer.task = "none"
    BY <1>2, <1>3, <2>1 DEF Connection
  <2>3. Gone(peer) = 0 BY <1>1, <2>2, GoneEmpty
  <2> QED BY <1>2, <2>2, <2>3 DEF Reads, Holding, HoldingMessage
<1>5. con = [c \in Peer |-> peer] BY <1>1, <1>3 DEF FlowInit, Fresh
<1>6. con \in [Peer -> Connection] /\ \A c \in Peer : con[c] = peer BY <1>4, <1>5
<1>7. /\ disp \in Dispatcher /\ disp.events = none /\ disp.unacked = none /\ disp.connections = 0
      /\ disp.draining = FALSE
  BY <1>1, <1>2 DEF FlowInit, Fresh, NewDispatcher, Dispatcher
<1>8. ring \in [Entry -> Held] /\ \A e \in Entry : ring[e].events = none
  <2>1. FreeEntry \in Held /\ FreeEntry.events = none BY <1>1, <1>2 DEF FreeEntry, Held, BatchKind
  <2>2. ring = [e \in Entry |-> FreeEntry] BY DEF FlowInit, Fresh
  <2> QED BY <2>1, <2>2
<1>9. intake \in Inbox /\ intake.published = 0 /\ intake.acked = 0 BY DEF FlowInit, Fresh, Inbox
<1>10. led \in Ledger /\ led.pushed = 0 /\ led.pushed_octets = 0 /\ led.posted = 0
       /\ led.marks = none /\ led.acked = 0 /\ led.acked_octets = 0
  BY <1>1, <1>2 DEF FlowInit, Fresh, Ledger
<1>11. refused = none BY <1>1 DEF FlowInit, Fresh
<1>12. host \in Hosts /\ host.queue = none /\ host.ack = 0 /\ host.last \in [Peer -> Nat]
       /\ \A c \in Peer : host.last[c] = 0
  BY <1>1, <1>2 DEF FlowInit, Fresh, Hosts
<1>13. ~failed /\ run = "turn" BY DEF FlowInit, Fresh
<1>14. FlowType BY <1>2, <1>6, <1>7, <1>8, <1>9, <1>10, <1>11, <1>12 DEF FlowType
<1>15. PICK way : way = Way(none, ring) OBVIOUS
<1>16. way = {}
  <2>1. \A a \in way : \/ \E k \in 1 .. Len(none) : none[k] = a
                       \/ \E e \in Entry : \E k \in 1 .. Len(ring[e].events) : ring[e].events[k] = a
    <3>1. PICK queue \in Seq(Event) : queue = none BY <1>2
    <3>2. PICK rng \in [Entry -> Held] : rng = ring BY <1>8
    <3>3. \A a : a \in Way(queue, rng) <=>
                  \/ \E k \in 1 .. Len(queue) : queue[k] = a
                  \/ \E e \in Entry : \E k \in 1 .. Len(rng[e].events) : rng[e].events[k] = a
      BY WayFacts
    <3> QED BY <1>15, <3>1, <3>2, <3>3
  <2> QED BY <1>2, <1>8, <2>1
<1>17. SeqInv(none, ring, 0, 0)
  <2>1. 0 <= QueueBound BY QueueBoundNat
  <2>2. \A e \in Entry : \A k \in 1 .. Len(ring[e].events) : FALSE BY <1>2, <1>8
  <2> QED BY <1>2, <2>1, <2>2 DEF SeqInv
<1>18. OrderInv(way, none, con, host.last, lost)
  <2>1. WayOrder(way) /\ WayBetween(way, con, host.last) BY <1>16 DEF WayOrder, WayBetween
  <2>2. HeldOrder(con, host.last) BY <1>2, <1>4, <1>6, <1>12 DEF HeldOrder
  <2>3. Closing(way, none, con, host.last) BY <1>2 DEF Closing
  <2>4. Complete(way, none, con, host.last, lost)
    <3>1. \A c \in Peer : \A m \in host.last[c] + 1 .. Gone(con[c]) : FALSE BY <1>4, <1>6, <1>12
    <3> QED BY <3>1 DEF Complete
  <2> QED BY <2>1, <2>2, <2>3, <2>4 DEF OrderInv
<1>19. LedgerInv(none, ring, led, 0)
  <2>1. \A t : Later(way, t) = {} BY <1>16 DEF Later, Messages
  <2>2. Cardinality(Later(way, led.acked)) = 0 BY <2>1, FS_EmptySet
  <2> QED BY <1>2, <1>10, <1>15, <1>16, <2>2 DEF LedgerInv
<1>20. BoundInv(way, con)
  <2>1. Messages(way) = {} /\ \A c \in Peer : FromClient(way, c) = {} BY <1>16 DEF Messages, FromClient
  <2>2. Cardinality(Messages(way)) = 0 /\ \A c \in Peer : Cardinality(FromClient(way, c)) = 0
    BY <2>1, FS_EmptySet
  <2>3. PICK x \in Nat, y \in Nat : x = Cardinality(Readers(con)) /\ y = Cardinality(Peer) /\ x <= y
    BY ReadersFinite
  <2>4. Cardinality(Messages(way)) + Cardinality(Readers(con)) <= HalfBudget + Cardinality(Peer)
    BY <2>2, <2>3, FlowAssumption
  <2>5. ASSUME NEW c \in Peer PROVE Bounded(way, con[c], c)
    <3>1. ~Holding(con[c]) /\ con[c].held = none /\ con[c].life = "none" BY <1>4, <1>6
    <3>2. Cardinality(FromClient(way, c)) + (IF Holding(con[c]) THEN 1 ELSE 0) <= MaxPending
      BY <2>2, <3>1, FlowAssumption
    <3> QED BY <1>2, <3>1, <3>2 DEF Bounded
  <2> QED BY <2>4, <2>5, BoundParts
<1>21. Flow(disp, ring, led, refused, con, host.last, lost, intake.published, failed)
  BY <1>7, <1>9, <1>10, <1>11, <1>15, <1>17, <1>18, <1>19, <1>20 DEF Flow
<1>22. RingInv(disp.unacked, ring, intake.published, intake.acked, host.queue, host.ack, failed)
  BY <1>1, <1>2, <1>7, <1>8, <1>9, <1>12 DEF RingInv
<1>23. ReadsInv(con) BY <1>4, <1>6 DEF ReadsInv
<1>24. LifeInv
  <2>1. Counted(con) = {} BY <1>4, <1>6 DEF Counted
  <2>2. Cardinality(Counted(con)) = 0 BY <2>1, FS_EmptySet
  <2> QED BY <1>7, <1>13, <2>2 DEF LifeInv
<1> QED BY <1>14, <1>21, <1>22, <1>23, <1>24 DEF FlowInv

(* Every step keeps the invariant.                                         *)
LEMMA NextKeeps ==
  ASSUME FlowInv, [FlowNext]_flowVars PROVE FlowInv'
<1>1. ASSUME NEW c \in Peer, TaskStep(c) PROVE FlowInv'
  <2>1. CASE LeaseEnds(c) BY <2>1, LeaseEndsKeeps
  <2>2. CASE Claim(c) BY <2>2, ClaimKeeps
  <2>3. CASE Serve(c) BY <2>3, ServeKeeps
  <2>4. CASE DropClaim(c) BY <2>4, DropClaimKeeps
  <2>5. CASE Settle(c) BY <2>5, SettleKeeps
  <2>6. CASE Repoll(c) BY <2>6, RepollKeeps
  <2>7. CASE Ending(c) BY <2>7, EndingKeeps
  <2>8. CASE DropTask(c) BY <2>8, DropTaskKeeps
  <2>9. CASE shutdown /\ End(c) BY <2>9, EndKeeps
  <2> QED BY <1>1, <2>1, <2>2, <2>3, <2>4, <2>5, <2>6, <2>7, <2>8, <2>9 DEF TaskStep
<1>2. ASSUME NEW c \in Peer, Talk(c) PROVE FlowInv'
  <2>1. CASE Lease(c) BY <2>1, LeaseKeeps
  <2>2. CASE End(c) BY <2>2, EndKeeps
  <2>3. CASE Report(c, "message") BY <2>3, MessageKeeps
  <2>4. CASE Report(c, "drained") BY <2>4, DrainedKeeps
  <2> QED BY <1>2, <2>1, <2>2, <2>3, <2>4 DEF Talk
<1>3. CASE Job BY <1>3, JobKeeps
<1>4. CASE TurnStep
  <2>1. CASE DrainIntake BY <2>1, DrainIntakeKeeps
  <2>2. CASE ReadAcks BY <2>2, ReadAcksKeeps
  <2>3. CASE PostTaken BY <2>3, PostTakenKeeps
  <2>4. CASE PostFull BY <2>4, PostFullKeeps
  <2>5. CASE PostGone BY <2>5, PostGoneKeeps
  <2>6. CASE AfterTurn BY <2>6, AfterTurnKeeps
  <2>7. CASE Register BY <2>7, RegisterKeeps
  <2> QED BY <1>4, <2>1, <2>2, <2>3, <2>4, <2>5, <2>6, <2>7 DEF TurnStep
<1>5. CASE HostFails BY <1>5, HostFailsKeeps
<1>6. CASE RetryDue BY <1>6, RetryDueKeeps
<1>7. CASE Shutdown BY <1>7, ShutdownKeeps
<1>8. CASE HostStep
  <2>1. CASE HostTake BY <2>1, HostTakeKeeps
  <2>2. CASE HostAck BY <2>2, HostAckKeeps
  <2> QED BY <1>8, <2>1, <2>2 DEF HostStep
<1>9. CASE Detach BY <1>9, DetachKeeps
<1>10. CASE Dies BY <1>10, DiesKeeps
<1>11. CASE Attach BY <1>11, AttachKeeps
<1>12. CASE Crowd \/ Uncrowd BY <1>12, CrowdKeeps
<1>13. CASE UNCHANGED flowVars BY <1>13, StutterKeeps
<1> QED
  BY <1>1, <1>2, <1>3, <1>4, <1>5, <1>6, <1>7, <1>8, <1>9, <1>10, <1>11, <1>12, <1>13 DEF FlowNext

(* The inductive invariant of the way of events (events.rs, dispatch.rs,   *)
(* ring.rs, intake.rs): the state's shape, the numbers and the order of    *)
(* what is on the way, what the ring, the ledger and the bounds say of it, *)
(* and the life of the dispatcher's task.                                  *)
THEOREM FlowInvariant == FlowSpec => []FlowInv
<1>1. FlowInit => FlowInv BY InitHolds
<1>2. FlowInv /\ [FlowNext]_flowVars => FlowInv' BY NextKeeps
<1> QED BY <1>1, <1>2, PTL DEF FlowSpec

-----------------------------------------------------------------------------
(* What the invariant says of the properties.                              *)

(* What the ledger counts covers what the host may still take.             *)
LEMMA LedgerHolds ==
  ASSUME FlowInv PROVE LedgerSound
<1>1. SUFFICES ASSUME ~failed
               PROVE  /\ \A e \in OnTheWay : e.seq > led.acked
                      /\ outstanding(led) >= Cardinality(Messages(OnTheWay))
  BY DEF LedgerSound
<1>2. disp \in Dispatcher /\ ring \in [Entry -> Held] /\ led \in Ledger BY StateTypes
<1>3. PICK way : way = Way(disp.events, ring) OBVIOUS
<1>4. OnTheWay = way BY <1>3 DEF OnTheWay, Waiting, Way, Ringed
<1>5. IsFiniteSet(way) /\ way \subseteq Event BY <1>2, <1>3, DispFields, WayFacts
<1>6. LedgerInv(disp.events, ring, led, intake.published) BY <1>1 DEF FlowInv, Flow
<1>7. \A a \in way : led.acked < a.seq BY <1>3, <1>6 DEF LedgerInv
<1>8. \A a \in way : a.seq \in Nat /\ led.acked \in Nat BY <1>2, <1>5, EventFields, LedgerFields
<1>9. \A a \in way : a.seq > led.acked BY <1>7, <1>8
<1>10. Later(way, led.acked) = Messages(way) BY <1>9 DEF Later, Messages
<1>11. led.acked_octets + Cardinality(Messages(way)) <= led.pushed_octets
  BY <1>3, <1>6, <1>10 DEF LedgerInv
<1>12. Messages(way) \subseteq way BY DEF Messages
<1>13. PICK m \in Nat, x \in Nat, y \in Nat :
         m = Cardinality(Messages(way)) /\ x = led.acked_octets /\ y = led.pushed_octets
  BY <1>2, <1>5, <1>12, PartCard, LedgerFields
<1>14. y - x >= m BY <1>11, <1>13
<1> QED BY <1>4, <1>9, <1>13, <1>14 DEF outstanding

(* Where an event in the core is.                                          *)
LEMMA InCoreFacts ==
  ASSUME FlowInv, NEW a \in InCore
  PROVE  \/ a \in Way(disp.events, ring)
         \/ \E k \in 1 .. Len(refused) : refused[k] = a
         \/ \E c \in Peer : \E k \in 1 .. Len(con[c].held) : con[c].held[k] = a
<1>1. OnTheWay = Way(disp.events, ring) BY DEF OnTheWay, Waiting, Way, Ringed
<1>2. CASE a \in OnTheWay BY <1>1, <1>2
<1>3. CASE a \in Range(refused)
  <2>1. refused \in Seq(Event) BY StateTypes
  <2> QED BY <1>3, <2>1, Members
<1>4. CASE a \in UNION {Range(con[c].held) : c \in Peer}
  <2>1. PICK c \in Peer : a \in Range(con[c].held) BY <1>4
  <2>2. con[c] \in Connection BY StateTypes
  <2>3. con[c].held \in Seq(Event) BY <2>2, ConFields
  <2> QED BY <2>1, <2>3, Members
<1> QED BY <1>2, <1>3, <1>4 DEF InCore

(* A close event that waits is not of a client's making.                   *)
LEMMA RefusedClose ==
  ASSUME FlowInv PROVE \A k \in 1 .. Len(refused) : refused[k].kind = "close"
BY DEF FlowInv, Flow, OrderInv, Closing

(* What a client makes the core hold is bounded.                           *)
LEMMA BoundHolds ==
  ASSUME FlowInv PROVE HeldBounded
<1>1. SUFFICES ASSUME ~failed
               PROVE  /\ \A c \in Peer : Cardinality(Caused(c)) <= MaxPending
                      /\ Cardinality(Messages(InCore)) <= HalfBudget + Cardinality(Peer)
  BY DEF HeldBounded
<1>2. disp \in Dispatcher /\ ring \in [Entry -> Held] BY StateTypes
<1>3. PICK way : way = Way(disp.events, ring) OBVIOUS
<1>4. IsFiniteSet(way) /\ way \subseteq Event BY <1>2, <1>3, DispFields, WayFacts
<1>5. BoundInv(way, con) BY <1>1, <1>3 DEF FlowInv, Flow
<1>6. ASSUME NEW c \in Peer PROVE Cardinality(Caused(c)) <= MaxPending
  <2>1. Bounded(way, con[c], c) BY <1>5, <1>6, BoundParts
  <2>2. PICK S : S = FromClient(way, c) OBVIOUS
  <2>3. S \subseteq way BY <2>2 DEF FromClient
  <2>4. IsFiniteSet(S) /\ Cardinality(S) \in Nat BY <1>4, <2>3, PartCard
  <2>5. ASSUME NEW a \in Caused(c)
        PROVE  a \in S \/ \E k \in 1 .. Len(con[c].held) : con[c].held[k] = a /\ ByClient(con[c].held[k])
    <3>1. a \in InCore /\ a.conn = c /\ ByClient(a) BY <2>5 DEF Caused, Of, ByClient
    <3>2. CASE a \in way BY <2>2, <3>1, <3>2 DEF FromClient
    <3>3. CASE \E k \in 1 .. Len(refused) : refused[k] = a BY <3>1, <3>3, RefusedClose DEF ByClient
    <3>4. CASE \E x \in Peer : \E k \in 1 .. Len(con[x].held) : con[x].held[k] = a
      <4>1. PICK x \in Peer : \E k \in 1 .. Len(con[x].held) : con[x].held[k] = a BY <3>4
      <4>2. x = c BY <3>1, <4>1, HeldInOrder
      <4> QED BY <3>1, <4>1, <4>2
    <3> QED BY <1>3, <3>1, <3>2, <3>3, <3>4, InCoreFacts
  <2>6. CASE ~Holding(con[c])
    <3>1. Caused(c) \subseteq S BY <2>5, <2>6 DEF Holding
    <3>2. Cardinality(Caused(c)) \in Nat /\ Cardinality(Caused(c)) <= Cardinality(S)
      BY <2>4, <3>1, PartCard
    <3>3. Cardinality(S) <= MaxPending BY <2>1, <2>2, <2>4, <2>6 DEF Bounded
    <3> QED BY <2>4, <3>2, <3>3, FlowAssumption
  <2>7. CASE Holding(con[c])
    <3>1. PICK k \in 1 .. Len(con[c].held) : ByClient(con[c].held[k]) BY <2>7 DEF Holding
    <3>2. PICK x : x = con[c].held[k] OBVIOUS
    <3>3. \A j \in 1 .. Len(con[c].held) : ByClient(con[c].held[j]) => con[c].held[j] = x
      BY <2>1, <3>1, <3>2 DEF Bounded
    <3>4. Caused(c) \subseteq S \cup {x} BY <2>5, <3>3
    <3>5. Cardinality(Caused(c)) \in Nat /\ Cardinality(Caused(c)) <= Cardinality(S) + 1
      BY <2>4, <3>4, OneMore
    <3>6. Cardinality(S) + 1 <= MaxPending BY <2>1, <2>2, <2>7 DEF Bounded
    <3> QED BY <2>4, <3>5, <3>6, FlowAssumption
  <2> QED BY <2>6, <2>7
<1>7. Cardinality(Messages(InCore)) <= HalfBudget + Cardinality(Peer)
  <2>1. PICK H : H = {a \in Messages(InCore) :
                        \E c \in Peer : \E k \in 1 .. Len(con[c].held) : con[c].held[k] = a}
    OBVIOUS
  <2>2. Messages(InCore) \subseteq Messages(way) \cup H
    <3>1. ASSUME NEW a \in Messages(InCore) PROVE a \in Messages(way) \cup H
      <4>1. a \in InCore /\ a.kind = "message" BY <3>1 DEF Messages
      <4>2. CASE a \in way BY <4>1, <4>2 DEF Messages
      <4>3. CASE \E k \in 1 .. Len(refused) : refused[k] = a BY <4>1, <4>3, RefusedClose
      <4>4. CASE \E c \in Peer : \E k \in 1 .. Len(con[c].held) : con[c].held[k] = a BY <2>1, <4>4
      <4> QED BY <1>3, <4>1, <4>2, <4>3, <4>4, InCoreFacts
    <3> QED BY <3>1
  <2>3. ASSUME NEW a \in H
        PROVE  /\ a.conn \in Readers(con) /\ a.kind = "message"
               /\ \E k \in 1 .. Len(con[a.conn].held) : con[a.conn].held[k] = a
    <3>1. PICK c \in Peer : \E k \in 1 .. Len(con[c].held) : con[c].held[k] = a BY <2>1
    <3>2. a.conn = c /\ a.kind = "message" BY <2>1, <3>1, HeldInOrder DEF Messages
    <3>3. HoldingMessage(con[c]) BY <3>1, <3>2 DEF HoldingMessage
    <3> QED BY <3>1, <3>2, <3>3 DEF Readers
  <2>4. ASSUME NEW a \in H, NEW b \in H, a.conn = b.conn PROVE a = b
    <3>1. PICK c \in Peer : c = a.conn BY <2>3 DEF Readers
    <3>2. PICK j \in 1 .. Len(con[c].held) : con[c].held[j] = a BY <2>3, <3>1
    <3>3. PICK k \in 1 .. Len(con[c].held) : con[c].held[k] = b BY <2>3, <2>4, <3>1
    <3>4. ByClient(a) /\ ByClient(b) BY <2>3 DEF ByClient
    <3>5. Bounded(way, con[c], c) BY <1>5, BoundParts
    <3>6. j = k BY <3>2, <3>3, <3>4, <3>5 DEF Bounded
    <3> QED BY <3>2, <3>3, <3>6
  <2>5. PICK f : f = [a \in H |-> a.conn] OBVIOUS
  <2>6. f \in Injection(H, Readers(con))
    <3>1. f \in [H -> Readers(con)] /\ \A a \in H : f[a] = a.conn BY <2>3, <2>5
    <3>2. IsInjective(f) BY <2>4, <3>1 DEF IsInjective
    <3> QED BY <3>1, <3>2 DEF Injection
  <2>7. IsFiniteSet(Readers(con)) BY ReadersFinite
  <2>8. IsFiniteSet(H) /\ Cardinality(H) <= Cardinality(Readers(con)) BY <2>6, <2>7, FS_Injection
  <2>9. Messages(way) \subseteq way BY DEF Messages
  <2>10. IsFiniteSet(Messages(way)) BY <1>4, <2>9, PartCard
  <2>11. PICK T : T = Messages(way) \cup H OBVIOUS
  <2>12. IsFiniteSet(T) /\ Cardinality(T) <= Cardinality(Messages(way)) + Cardinality(H)
    BY <2>8, <2>10, <2>11, JoinCard
  <2>13. Messages(InCore) \subseteq T BY <2>2, <2>11
  <2>14. PICK x \in Nat, t \in Nat : x = Cardinality(Messages(InCore)) /\ t = Cardinality(T) /\ x <= t
    BY <2>12, <2>13, PartCard
  <2>15. PICK h \in Nat, r \in Nat, m \in Nat, p \in Nat, b \in Nat :
           /\ h = Cardinality(H) /\ r = Cardinality(Readers(con)) /\ m = Cardinality(Messages(way))
           /\ p = Cardinality(Peer) /\ b = HalfBudget
    BY <2>8, <2>10, ReadersFinite, FS_CardinalityType, FlowAssumption
  <2>16. m + r <= b + p BY <1>5, <2>15, BoundParts
  <2>17. h <= r /\ t <= m + h BY <2>8, <2>12, <2>14, <2>15
  <2>18. x <= b + p BY <2>14, <2>16, <2>17
  <2> QED BY <2>14, <2>15, <2>18
<1> QED BY <1>6, <1>7

-----------------------------------------------------------------------------
(* The line of a connection's events.                                      *)

(* A place of a connection's event.                                        *)
Place(a, c, rank, s, k) == s[k].conn = c /\ a = [rank |-> rank, at |-> k, n |-> s[k].n]
(* The places of a connection's events.                                    *)
LEMMA PlacedFacts ==
  ASSUME NEW s \in Seq(Event), NEW c, NEW rank, NEW a
  PROVE  a \in Placed(c, rank, s) <=> \E k \in 1 .. Len(s) : Place(a, c, rank, s, k)
BY DEF Placed, Place

(* A place in a batch or in the queue holds an event on the way.           *)
OfWay(a, c, x) ==
  \/ \E e \in Entry : \E k \in 1 .. Len(ring[e].events) :
       Place(a, c, ring[e].epoch, ring[e].events, k) /\ x = ring[e].events[k]
  \/ \E k \in 1 .. Len(disp.events) :
       Place(a, c, intake.published + 1, disp.events, k) /\ x = disp.events[k]
OfRefused(a, c) == \E k \in 1 .. Len(refused) : Place(a, c, intake.published + 2, refused, k)
OfHeld(a, c) == \E k \in 1 .. Len(con[c].held) : Place(a, c, intake.published + 3, con[c].held, k)
(* Where the events of a connection are.                                   *)
LEMMA LineFacts ==
  ASSUME FlowInv, NEW c \in Peer, NEW a
  PROVE  a \in Line(c) <=> (\E x \in Way(disp.events, ring) : OfWay(a, c, x)) \/ OfRefused(a, c) \/ OfHeld(a, c)
<1>1. disp \in Dispatcher /\ ring \in [Entry -> Held] /\ refused \in Seq(Event) /\ con[c] \in Connection
  BY StateTypes
<1>2. disp.events \in Seq(Event) /\ con[c].held \in Seq(Event) BY <1>1, DispFields, ConFields
<1>3. \A e \in Entry : ring[e].events \in Seq(Event) BY <1>1, HeldFields
<1>4. PICK p : p = intake.published OBVIOUS
<1>5. a \in Line(c) <=> \/ \E e \in Entry : a \in Placed(c, ring[e].epoch, ring[e].events)
                        \/ a \in Placed(c, p + 1, disp.events) \/ a \in Placed(c, p + 2, refused)
                        \/ a \in Placed(c, p + 3, con[c].held)
  <2>1. PICK U : U = UNION {Placed(c, ring[e].epoch, ring[e].events) : e \in Entry} OBVIOUS
  <2>2. a \in U <=> \E e \in Entry : a \in Placed(c, ring[e].epoch, ring[e].events) BY <2>1, Zenon
  <2>3. Line(c) = U \cup Placed(c, p + 1, disp.events) \cup Placed(c, p + 2, refused)
                    \cup Placed(c, p + 3, con[c].held)
    BY <1>4, <2>1 DEF Line
  <2> QED BY <2>2, <2>3
<1>6. a \in Placed(c, p + 2, refused) <=> OfRefused(a, c) BY <1>1, <1>4, PlacedFacts DEF OfRefused
<1>7. a \in Placed(c, p + 3, con[c].held) <=> OfHeld(a, c) BY <1>2, <1>4, PlacedFacts DEF OfHeld
<1>8. a \in Placed(c, p + 1, disp.events) <=>
        \E k \in 1 .. Len(disp.events) : Place(a, c, p + 1, disp.events, k)
  BY <1>2, PlacedFacts
<1>9. \A e \in Entry : a \in Placed(c, ring[e].epoch, ring[e].events) <=>
        \E k \in 1 .. Len(ring[e].events) : Place(a, c, ring[e].epoch, ring[e].events, k)
  BY <1>3, PlacedFacts
<1>10. \A k \in 1 .. Len(disp.events) : disp.events[k] \in Way(disp.events, ring)
  BY <1>1, <1>2, WayFacts
<1>11. \A e \in Entry : \A k \in 1 .. Len(ring[e].events) : ring[e].events[k] \in Way(disp.events, ring)
  BY <1>1, <1>2, WayFacts
<1>12. (\E x \in Way(disp.events, ring) : OfWay(a, c, x)) <=>
         \/ \E e \in Entry : a \in Placed(c, ring[e].epoch, ring[e].events)
         \/ a \in Placed(c, p + 1, disp.events)
  <2>1. ASSUME NEW x \in Way(disp.events, ring), OfWay(a, c, x)
        PROVE  \/ \E e \in Entry : a \in Placed(c, ring[e].epoch, ring[e].events)
               \/ a \in Placed(c, p + 1, disp.events)
    BY <1>4, <1>8, <1>9, <2>1 DEF OfWay
  <2>2. ASSUME NEW e \in Entry, a \in Placed(c, ring[e].epoch, ring[e].events)
        PROVE  \E x \in Way(disp.events, ring) : OfWay(a, c, x)
    BY <1>9, <1>11, <2>2 DEF OfWay
  <2>3. ASSUME a \in Placed(c, p + 1, disp.events)
        PROVE  \E x \in Way(disp.events, ring) : OfWay(a, c, x)
    BY <1>4, <1>8, <1>10, <2>3 DEF OfWay
  <2> QED BY <2>1, <2>2, <2>3
<1> QED BY <1>5, <1>6, <1>7, <1>12

(* An event on the way has a place.                                        *)
LEMMA WayPlace ==
  ASSUME FlowInv, NEW x \in Way(disp.events, ring)
  PROVE  \E a : OfWay(a, x.conn, x) /\ a.n = x.n
<1>1. disp.events \in Seq(Event) /\ ring \in [Entry -> Held] BY StateTypes, DispFields
<1>2. CASE \E k \in 1 .. Len(disp.events) : disp.events[k] = x
  <2>1. PICK k \in 1 .. Len(disp.events) : disp.events[k] = x BY <1>2
  <2>2. PICK a : a = [rank |-> intake.published + 1, at |-> k, n |-> disp.events[k].n] OBVIOUS
  <2>3. a.n = x.n BY <2>1, <2>2
  <2> QED BY <2>1, <2>2, <2>3 DEF OfWay, Place
<1>3. CASE \E e \in Entry : \E k \in 1 .. Len(ring[e].events) : ring[e].events[k] = x
  <2>1. PICK e \in Entry : \E k \in 1 .. Len(ring[e].events) : ring[e].events[k] = x BY <1>3
  <2>2. PICK k \in 1 .. Len(ring[e].events) : ring[e].events[k] = x BY <2>1
  <2>3. PICK a : a = [rank |-> ring[e].epoch, at |-> k, n |-> ring[e].events[k].n] OBVIOUS
  <2>4. a.n = x.n BY <2>2, <2>3
  <2> QED BY <2>2, <2>3, <2>4 DEF OfWay, Place
<1> QED BY <1>1, <1>2, <1>3, WayFacts

(* Two places on the way: the one ahead holds the event numbered first.    *)
LEMMA WayAhead ==
  ASSUME FlowInv, NEW c \in Peer, NEW x \in Way(disp.events, ring), NEW y \in Way(disp.events, ring),
         NEW a, NEW b, OfWay(a, c, x), OfWay(b, c, y)
  PROVE  a = b \/ (x.seq < y.seq /\ Ahead(a, b)) \/ (y.seq < x.seq /\ Ahead(b, a))
<1>1. PICK q \in Seq(Event), p \in Nat, pushed \in Nat :
        q = disp.events /\ p = intake.published /\ pushed = led.pushed
  BY StateTypes, DispFields, LedgerFields
<1>2. SeqInv(q, ring, pushed, p) BY <1>1 DEF FlowInv, Flow
<1>3. ring \in [Entry -> Held] BY StateTypes
<1>4. \A e \in Entry : ring[e].epoch \in Nat /\ ring[e].events \in Seq(Event) BY <1>3, HeldFields
<1>5. x \in Event /\ y \in Event BY <1>1, <1>3, WayFacts
<1>6. PICK sx \in Nat, sy \in Nat : sx = x.seq /\ sy = y.seq BY <1>5, EventFields
<1>7. PICK n \in Nat : n = Len(q) BY <1>1
<1>8. n <= pushed BY <1>2, <1>7 DEF SeqInv
<1>9. ASSUME NEW e \in Entry, NEW j \in 1 .. Len(ring[e].events), NEW k \in 1 .. Len(ring[e].events),
             Place(a, c, ring[e].epoch, ring[e].events, j), x = ring[e].events[j],
             Place(b, c, ring[e].epoch, ring[e].events, k), y = ring[e].events[k]
      PROVE  a = b \/ (x.seq < y.seq /\ Ahead(a, b)) \/ (y.seq < x.seq /\ Ahead(b, a))
  <2>1. a.rank = ring[e].epoch /\ a.at = j /\ b.rank = ring[e].epoch /\ b.at = k BY <1>9 DEF Place
  <2>2. CASE j = k BY <1>9, <2>2 DEF Place
  <2>3. CASE j < k
    <3>1. x.seq < y.seq BY <1>2, <1>9, <2>3 DEF SeqInv
    <3> QED BY <2>1, <2>3, <3>1 DEF Ahead
  <2>4. CASE k < j
    <3>1. y.seq < x.seq BY <1>2, <1>9, <2>4 DEF SeqInv
    <3> QED BY <2>1, <2>4, <3>1 DEF Ahead
  <2>5. j \in Int /\ k \in Int OBVIOUS
  <2> QED BY <2>2, <2>3, <2>4, <2>5
<1>10. ASSUME NEW e \in Entry, NEW f \in Entry, e # f, NEW j \in 1 .. Len(ring[e].events),
              NEW k \in 1 .. Len(ring[f].events),
              Place(a, c, ring[e].epoch, ring[e].events, j), x = ring[e].events[j],
              Place(b, c, ring[f].epoch, ring[f].events, k), y = ring[f].events[k]
       PROVE  a = b \/ (x.seq < y.seq /\ Ahead(a, b)) \/ (y.seq < x.seq /\ Ahead(b, a))
  <2>1. a.rank = ring[e].epoch /\ b.rank = ring[f].epoch BY <1>10 DEF Place
  <2>2. ring[e].epoch # ring[f].epoch BY <1>2, <1>10 DEF SeqInv
  <2>3. CASE ring[e].epoch < ring[f].epoch
    <3>1. x.seq < y.seq BY <1>2, <1>10, <2>3 DEF SeqInv
    <3> QED BY <2>1, <2>3, <3>1 DEF Ahead
  <2>4. CASE ring[f].epoch < ring[e].epoch
    <3>1. y.seq < x.seq BY <1>2, <1>10, <2>4 DEF SeqInv
    <3> QED BY <2>1, <2>4, <3>1 DEF Ahead
  <2>5. ring[e].epoch \in Nat /\ ring[f].epoch \in Nat BY <1>4
  <2> QED BY <2>2, <2>3, <2>4, <2>5
<1>11. ASSUME NEW e \in Entry, NEW j \in 1 .. Len(ring[e].events), NEW k \in 1 .. Len(q)
       PROVE  ring[e].events[j].seq < q[k].seq /\ ring[e].epoch < p + 1
  <2>1. ring[e].events[j].seq <= pushed - n BY <1>2, <1>7, <1>11 DEF SeqInv
  <2>2. q[k].seq = pushed - n + k BY <1>2, <1>7, <1>11 DEF SeqInv
  <2>3. ring[e].epoch <= p BY <1>2, <1>11 DEF SeqInv
  <2>4. ring[e].events[j] \in Event /\ ring[e].epoch \in Nat BY <1>4
  <2>5. PICK s \in Nat : s = ring[e].events[j].seq BY <2>4, EventFields
  <2>6. s < pushed - n + k BY <1>7, <1>8, <2>1, <2>5
  <2> QED BY <2>2, <2>3, <2>4, <2>5, <2>6
<1>12. ASSUME NEW e \in Entry, NEW j \in 1 .. Len(ring[e].events), NEW k \in 1 .. Len(q),
              Place(a, c, ring[e].epoch, ring[e].events, j), x = ring[e].events[j],
              Place(b, c, p + 1, q, k), y = q[k]
       PROVE  x.seq < y.seq /\ Ahead(a, b)
  <2>1. a.rank = ring[e].epoch /\ b.rank = p + 1 BY <1>12 DEF Place
  <2> QED BY <1>11, <1>12, <2>1 DEF Ahead
<1>13. ASSUME NEW e \in Entry, NEW j \in 1 .. Len(ring[e].events), NEW k \in 1 .. Len(q),
              Place(b, c, ring[e].epoch, ring[e].events, j), y = ring[e].events[j],
              Place(a, c, p + 1, q, k), x = q[k]
       PROVE  y.seq < x.seq /\ Ahead(b, a)
  <2>1. b.rank = ring[e].epoch /\ a.rank = p + 1 BY <1>13 DEF Place
  <2> QED BY <1>11, <1>13, <2>1 DEF Ahead
<1>14. ASSUME NEW j \in 1 .. Len(q), NEW k \in 1 .. Len(q), Place(a, c, p + 1, q, j), x = q[j],
              Place(b, c, p + 1, q, k), y = q[k]
       PROVE  a = b \/ (x.seq < y.seq /\ Ahead(a, b)) \/ (y.seq < x.seq /\ Ahead(b, a))
  <2>1. a.rank = p + 1 /\ a.at = j /\ b.rank = p + 1 /\ b.at = k BY <1>14 DEF Place
  <2>2. x.seq = pushed - n + j /\ y.seq = pushed - n + k BY <1>2, <1>7, <1>14 DEF SeqInv
  <2>3. CASE j = k BY <1>14, <2>3 DEF Place
  <2>4. CASE j < k
    <3>1. x.seq < y.seq BY <2>2, <2>4
    <3> QED BY <2>1, <2>4, <3>1 DEF Ahead
  <2>5. CASE k < j
    <3>1. y.seq < x.seq BY <2>2, <2>5
    <3> QED BY <2>1, <2>5, <3>1 DEF Ahead
  <2>6. j \in Int /\ k \in Int OBVIOUS
  <2> QED BY <2>3, <2>4, <2>5, <2>6
<1>15. CASE \E e \in Entry : \E j \in 1 .. Len(ring[e].events) :
              Place(a, c, ring[e].epoch, ring[e].events, j) /\ x = ring[e].events[j]
  <2>1. PICK e \in Entry : \E j \in 1 .. Len(ring[e].events) :
          Place(a, c, ring[e].epoch, ring[e].events, j) /\ x = ring[e].events[j]
    BY <1>15
  <2>2. PICK j \in 1 .. Len(ring[e].events) :
          Place(a, c, ring[e].epoch, ring[e].events, j) /\ x = ring[e].events[j]
    BY <2>1
  <2>3. CASE \E f \in Entry : \E k \in 1 .. Len(ring[f].events) :
               Place(b, c, ring[f].epoch, ring[f].events, k) /\ y = ring[f].events[k]
    <3>1. PICK f \in Entry : \E k \in 1 .. Len(ring[f].events) :
            Place(b, c, ring[f].epoch, ring[f].events, k) /\ y = ring[f].events[k]
      BY <2>3
    <3>2. PICK k \in 1 .. Len(ring[f].events) :
            Place(b, c, ring[f].epoch, ring[f].events, k) /\ y = ring[f].events[k]
      BY <3>1
    <3>3. CASE e = f BY <1>9, <2>2, <3>2, <3>3
    <3>4. CASE e # f BY <1>10, <2>2, <3>2, <3>4
    <3> QED BY <3>3, <3>4
  <2>4. CASE \E k \in 1 .. Len(q) : Place(b, c, p + 1, q, k) /\ y = q[k] BY <1>12, <2>2, <2>4
  <2> QED BY <1>1, <2>3, <2>4 DEF OfWay
<1>16. CASE \E j \in 1 .. Len(q) : Place(a, c, p + 1, q, j) /\ x = q[j]
  <2>1. PICK j \in 1 .. Len(q) : Place(a, c, p + 1, q, j) /\ x = q[j] BY <1>16
  <2>2. CASE \E f \in Entry : \E k \in 1 .. Len(ring[f].events) :
               Place(b, c, ring[f].epoch, ring[f].events, k) /\ y = ring[f].events[k]
    BY <1>13, <2>1, <2>2
  <2>3. CASE \E k \in 1 .. Len(q) : Place(b, c, p + 1, q, k) /\ y = q[k] BY <1>14, <2>1, <2>3
  <2> QED BY <1>1, <2>2, <2>3 DEF OfWay
<1> QED BY <1>1, <1>15, <1>16 DEF OfWay

(* What the order says of one place: it is on the way, waits as the only   *)
(* event of its connection, or is held.                                    *)
LEMMA PlaceBetween ==
  ASSUME FlowInv, NEW c \in Peer, NEW a \in Line(c)
  PROVE  /\ a.n \in Nat /\ a.rank \in Nat /\ a.n > host.last[c] /\ a.n <= con[c].said
         /\ (\E x \in Way(disp.events, ring) : OfWay(a, c, x)) =>
              a.n <= Gone(con[c]) /\ a.rank <= intake.published + 1
         /\ OfRefused(a, c) => a.n = 1 /\ con[c].said = 1 /\ con[c].held = <<>>
         /\ OfHeld(a, c) => a.n > Gone(con[c]) /\ a.rank = intake.published + 3
<1>1. PICK last \in [Peer -> Nat], p \in Nat : last = host.last /\ p = intake.published BY StateTypes
<1>2. PICK way : way = Way(disp.events, ring) OBVIOUS
<1>3. OrderInv(way, refused, con, last, lost) BY <1>1, <1>2 DEF FlowInv, Flow
<1>4. PICK q \in Connection : q = con[c] BY StateTypes
<1>5. PICK s \in Nat, h \in Nat : s = q.said /\ h = Len(q.held) BY ConFields
<1>6. Gone(q) = s - h BY <1>5 DEF Gone
<1>7. last[c] \in Nat /\ last[c] <= s - h BY <1>3, <1>4, <1>6 DEF OrderInv, HeldOrder
<1>8. ASSUME NEW x \in way, OfWay(a, c, x)
      PROVE  /\ a.n \in Nat /\ a.rank \in Nat /\ a.n > last[c] /\ a.n <= Gone(q) /\ a.rank <= p + 1
  <2>1. disp.events \in Seq(Event) /\ ring \in [Entry -> Held] BY StateTypes, DispFields
  <2>2. x \in Event BY <1>2, <2>1, WayFacts
  <2>3. x.conn = c /\ a.n = x.n BY <1>8 DEF OfWay, Place
  <2>4. last[c] < x.n /\ x.n <= Gone(q) BY <1>3, <1>4, <2>3 DEF OrderInv, WayBetween
  <2>5. x.n \in Nat BY <2>2, EventFields
  <2>6. a.rank \in Nat /\ a.rank <= p + 1
    <3>1. CASE \E k \in 1 .. Len(disp.events) : Place(a, c, intake.published + 1, disp.events, k)
      <4>1. a.rank = p + 1 BY <1>1, <3>1 DEF Place
      <4> QED BY <4>1
    <3>2. CASE \E e \in Entry : \E k \in 1 .. Len(ring[e].events) :
                 Place(a, c, ring[e].epoch, ring[e].events, k)
      <4>1. PICK e \in Entry : \E k \in 1 .. Len(ring[e].events) :
              Place(a, c, ring[e].epoch, ring[e].events, k)
        BY <3>2
      <4>2. a.rank = ring[e].epoch BY <4>1 DEF Place
      <4>3. ring[e].epoch \in Nat BY <2>1, HeldFields
      <4>4. SeqInv(disp.events, ring, led.pushed, p) BY <1>1 DEF FlowInv, Flow
      <4>5. ring[e].epoch <= p BY <4>1, <4>4 DEF SeqInv
      <4> QED BY <4>2, <4>3, <4>5
    <3> QED BY <1>8, <3>1, <3>2 DEF OfWay
  <2> QED BY <1>7, <2>3, <2>4, <2>5, <2>6
<1>9. ASSUME OfRefused(a, c)
      PROVE  a.n = 1 /\ a.rank = p + 2 /\ s = 1 /\ q.held = <<>> /\ last[c] = 0
  <2>1. PICK k \in 1 .. Len(refused) : Place(a, c, p + 2, refused, k) BY <1>1, <1>9 DEF OfRefused
  <2>2. refused[k].conn = c /\ a.n = refused[k].n /\ a.rank = p + 2 BY <2>1 DEF Place
  <2>3. refused[k].n = 1 /\ q.said = 1 /\ q.life = "over" /\ last[c] = 0
    BY <1>3, <1>4, <2>2 DEF OrderInv, Closing
  <2>4. q.held = <<>> BY <1>3, <1>4, <2>3 DEF OrderInv, HeldOrder
  <2> QED BY <1>5, <2>2, <2>3, <2>4
<1>10. ASSUME OfHeld(a, c)
       PROVE  a.n \in Nat /\ a.rank = p + 3 /\ a.n > s - h /\ a.n <= s
  <2>1. PICK k \in 1 .. h : Place(a, c, p + 3, q.held, k) BY <1>1, <1>4, <1>5, <1>10 DEF OfHeld
  <2>2. a.n = q.held[k].n /\ a.rank = p + 3 BY <2>1 DEF Place
  <2>3. q.held[k].n = s - h + k BY <1>4, <1>5, <1>6, HeldInOrder
  <2>4. 0 <= s - h BY <1>7
  <2> QED BY <2>2, <2>3, <2>4
<1>11. CASE \E x \in way : OfWay(a, c, x)
  <2>1. PICK x \in way : OfWay(a, c, x) BY <1>11
  <2>2. a.n \in Nat /\ a.rank \in Nat /\ a.n > last[c] /\ a.n <= Gone(q) /\ a.rank <= p + 1
    BY <1>8, <2>1
  <2>3. a.n <= s BY <1>6, <2>2
  <2>4. ~OfHeld(a, c) BY <1>10, <2>2
  <2>5. OfRefused(a, c) => a.n = 1 /\ con[c].said = 1 /\ con[c].held = <<>> BY <1>4, <1>5, <1>9
  <2> QED BY <1>1, <1>4, <1>5, <2>2, <2>3, <2>4, <2>5
<1>12. CASE OfRefused(a, c)
  <2>1. a.n = 1 /\ a.rank = p + 2 /\ s = 1 /\ q.held = <<>> /\ last[c] = 0 BY <1>9, <1>12
  <2>2. ~OfHeld(a, c) BY <1>10, <2>1
  <2>3. ~(\E x \in way : OfWay(a, c, x)) BY <1>8, <2>1
  <2> QED BY <1>1, <1>2, <1>4, <1>5, <2>1, <2>2, <2>3
<1>13. CASE OfHeld(a, c)
  <2>1. a.n \in Nat /\ a.rank = p + 3 /\ a.n > s - h /\ a.n <= s BY <1>10, <1>13
  <2>2. a.n > last[c] BY <1>7, <2>1
  <2>3. ~OfRefused(a, c) BY <1>9, <2>1
  <2>4. ~(\E x \in way : OfWay(a, c, x)) BY <1>8, <2>1
  <2> QED BY <1>1, <1>2, <1>4, <1>5, <1>6, <2>1, <2>2, <2>3, <2>4
<1> QED BY <1>2, <1>11, <1>12, <1>13, LineFacts

(* Two places of a connection are in order.                                *)
InLine(a, b) == a = b \/ (a.n < b.n /\ Ahead(a, b)) \/ (b.n < a.n /\ Ahead(b, a))
(* Any two places of a connection are.                                     *)
LEMMA LineOrdered ==
  ASSUME FlowInv, NEW c \in Peer, NEW a \in Line(c), NEW b \in Line(c)
  PROVE  InLine(a, b)
<1>1. PICK way, p : way = Way(disp.events, ring) /\ p = intake.published OBVIOUS
<1>2. p \in Nat BY <1>1, StateTypes
<1>3. OrderInv(way, refused, con, host.last, lost) BY <1>1 DEF FlowInv, Flow
<1>4. con[c] \in Connection BY StateTypes
<1>5. Gone(con[c]) \in Int BY <1>4, ConFields
<1>6. ASSUME NEW x \in way, NEW y \in way, NEW j \in Line(c), NEW k \in Line(c), OfWay(j, c, x),
             OfWay(k, c, y)
      PROVE  InLine(j, k)
  <2>1. j = k \/ (x.seq < y.seq /\ Ahead(j, k)) \/ (y.seq < x.seq /\ Ahead(k, j))
    BY <1>1, <1>6, WayAhead
  <2>2. x.conn = c /\ y.conn = c /\ j.n = x.n /\ k.n = y.n BY <1>6 DEF OfWay, Place
  <2>3. x.seq < y.seq => x.n < y.n BY <1>3, <2>2 DEF OrderInv, WayOrder
  <2>4. y.seq < x.seq => y.n < x.n BY <1>3, <2>2 DEF OrderInv, WayOrder
  <2> QED BY <2>1, <2>2, <2>3, <2>4 DEF InLine
<1>7. ASSUME NEW j \in Line(c), NEW k \in Line(c), \E x \in way : OfWay(j, c, x), OfHeld(k, c)
      PROVE  j.n < k.n /\ Ahead(j, k)
  <2>1. j.n \in Nat /\ j.rank \in Nat /\ j.n <= Gone(con[c]) /\ j.rank <= p + 1
    BY <1>1, <1>7, PlaceBetween
  <2>2. k.n \in Nat /\ k.n > Gone(con[c]) /\ k.rank = p + 3 BY <1>1, <1>7, PlaceBetween
  <2> QED BY <1>2, <1>5, <2>1, <2>2 DEF Ahead
<1>8. ASSUME NEW j \in Line(c), NEW k \in Line(c), OfRefused(j, c) PROVE j = k
  <2>1. PICK m \in 1 .. Len(refused) : Place(j, c, intake.published + 2, refused, m)
    BY <1>8 DEF OfRefused
  <2>2. refused[m].conn = c BY <2>1 DEF Place
  <2>3. \A x \in way : x.conn # c BY <1>3, <2>2 DEF OrderInv, Closing
  <2>4. ~(\E x \in way : OfWay(k, c, x)) BY <2>3 DEF OfWay, Place
  <2>5. con[c].held = <<>> BY <1>8, PlaceBetween
  <2>6. ~OfHeld(k, c) BY <2>5 DEF OfHeld
  <2>7. OfRefused(k, c) BY <1>1, <2>4, <2>6, LineFacts
  <2>8. PICK i \in 1 .. Len(refused) : Place(k, c, intake.published + 2, refused, i)
    BY <2>7 DEF OfRefused
  <2>9. refused[i].conn = c BY <2>8 DEF Place
  <2>10. i = m BY <1>3, <2>2, <2>9 DEF OrderInv, Closing
  <2> QED BY <2>1, <2>8, <2>10 DEF Place
<1>9. ASSUME OfHeld(a, c), OfHeld(b, c) PROVE InLine(a, b)
  <2>1. PICK q : q = con[c] OBVIOUS
  <2>2. PICK g \in Int, h \in Nat : g = Gone(q) /\ h = Len(q.held) BY <1>4, <1>5, <2>1, ConFields
  <2>3. PICK j \in 1 .. h : Place(a, c, p + 3, q.held, j) BY <1>1, <1>9, <2>1, <2>2 DEF OfHeld
  <2>4. PICK k \in 1 .. h : Place(b, c, p + 3, q.held, k) BY <1>1, <1>9, <2>1, <2>2 DEF OfHeld
  <2>5. q.held[j].n = g + j /\ q.held[k].n = g + k BY <2>1, <2>2, HeldInOrder
  <2>6. a.rank = p + 3 /\ a.at = j /\ a.n = g + j /\ b.rank = p + 3 /\ b.at = k /\ b.n = g + k
    BY <2>3, <2>4, <2>5 DEF Place
  <2>7. CASE j = k BY <2>3, <2>4, <2>7 DEF Place, InLine
  <2>8. CASE j < k
    <3>1. a.n < b.n BY <2>6, <2>8
    <3> QED BY <2>6, <2>8, <3>1 DEF InLine, Ahead
  <2>9. CASE k < j
    <3>1. b.n < a.n BY <2>6, <2>9
    <3> QED BY <2>6, <2>9, <3>1 DEF InLine, Ahead
  <2> QED BY <2>7, <2>8, <2>9
<1>10. (\E x \in way : OfWay(a, c, x)) \/ OfRefused(a, c) \/ OfHeld(a, c) BY <1>1, LineFacts
<1>11. (\E x \in way : OfWay(b, c, x)) \/ OfRefused(b, c) \/ OfHeld(b, c) BY <1>1, LineFacts
<1>12. CASE OfRefused(a, c) BY <1>8, <1>12 DEF InLine
<1>13. CASE OfRefused(b, c) BY <1>8, <1>13 DEF InLine
<1>14. CASE \E x \in way : OfWay(a, c, x)
  <2>1. CASE \E x \in way : OfWay(b, c, x) BY <1>6, <1>14, <2>1
  <2>2. CASE OfHeld(b, c) BY <1>7, <1>14, <2>2 DEF InLine
  <2> QED BY <1>11, <1>13, <2>1, <2>2
<1>15. CASE OfHeld(a, c)
  <2>1. CASE \E x \in way : OfWay(b, c, x) BY <1>7, <1>15, <2>1 DEF InLine
  <2>2. CASE OfHeld(b, c) BY <1>9, <1>15, <2>2
  <2> QED BY <1>11, <1>13, <2>1, <2>2
<1> QED BY <1>10, <1>12, <1>14, <1>15

(* A connection that lost nothing has every event it reported in line.     *)
LEMMA LineComplete ==
  ASSUME FlowInv, NEW c \in Peer, c \notin lost
  PROVE  {a.n : a \in Line(c)} = host.last[c] + 1 .. con[c].said
<1>1. PICK q \in Connection : q = con[c] BY StateTypes
<1>2. PICK l \in Nat, s \in Nat, h \in Nat : l = host.last[c] /\ s = q.said /\ h = Len(q.held)
  BY <1>1, StateTypes, ConFields
<1>3. Gone(q) = s - h BY <1>2 DEF Gone
<1>4. PICK way, p : way = Way(disp.events, ring) /\ p = intake.published OBVIOUS
<1>5. OrderInv(way, refused, con, host.last, lost) BY <1>4 DEF FlowInv, Flow
<1>6. \A a \in Line(c) : a.n \in l + 1 .. s
  <2>1. \A a \in Line(c) : a.n \in Nat /\ a.n > l /\ a.n <= s BY <1>1, <1>2, PlaceBetween
  <2> QED BY <2>1
<1>7. ASSUME NEW m \in l + 1 .. s PROVE \E a \in Line(c) : a.n = m
  <2>1. CASE m <= s - h
    <3>1. m \in l + 1 .. s - h BY <2>1
    <3>2. (\E x \in way : x.conn = c /\ x.n = m) \/ (\E k \in 1 .. Len(refused) : refused[k].conn = c)
      BY <1>1, <1>2, <1>3, <1>5, <3>1 DEF OrderInv, Complete
    <3>3. CASE \E x \in way : x.conn = c /\ x.n = m
      <4>1. PICK x \in way : x.conn = c /\ x.n = m BY <3>3
      <4>2. PICK a : OfWay(a, c, x) /\ a.n = m BY <1>4, <4>1, WayPlace
      <4>3. a \in Line(c) BY <1>4, <4>2, LineFacts
      <4> QED BY <4>2, <4>3
    <3>4. CASE \E k \in 1 .. Len(refused) : refused[k].conn = c
      <4>1. PICK k \in 1 .. Len(refused) : refused[k].conn = c BY <3>4
      <4>2. refused[k].n = 1 /\ q.said = 1 BY <1>1, <1>5, <4>1 DEF OrderInv, Closing
      <4>3. m = 1 BY <1>2, <4>2
      <4>4. PICK a : a = [rank |-> intake.published + 2, at |-> k, n |-> refused[k].n] OBVIOUS
      <4>5. OfRefused(a, c) BY <4>1, <4>4 DEF OfRefused, Place
      <4>6. a \in Line(c) BY <4>5, LineFacts
      <4>7. a.n = m BY <4>2, <4>3, <4>4
      <4> QED BY <4>6, <4>7
    <3> QED BY <3>2, <3>3, <3>4
  <2>2. CASE m > s - h
    <3>1. PICK k \in 1 .. h : k = m - (s - h) BY <2>2
    <3>2. k \in 1 .. Len(con[c].held) BY <1>1, <1>2
    <3>3. con[c].held[k].conn = c /\ con[c].held[k].n = Gone(con[c]) + k BY <3>2, HeldInOrder
    <3>4. PICK a : a = [rank |-> intake.published + 3, at |-> k, n |-> con[c].held[k].n] OBVIOUS
    <3>5. OfHeld(a, c) BY <3>2, <3>3, <3>4 DEF OfHeld, Place
    <3>6. a \in Line(c) BY <3>5, LineFacts
    <3>7. Gone(con[c]) + k = m BY <1>1, <1>3, <3>1
    <3>8. a.n = m BY <3>3, <3>4, <3>7
    <3> QED BY <3>6, <3>8
  <2> QED BY <2>1, <2>2
<1>8. {a.n : a \in Line(c)} = l + 1 .. s BY <1>6, <1>7
<1> QED BY <1>1, <1>2, <1>8

(* The events of every connection are in order.                            *)
LEMMA OrderHolds ==
  ASSUME FlowInv PROVE EventsInOrder
<1>1. \A c \in Peer : \A a \in Line(c) : a.n > host.last[c] BY PlaceBetween
<1>2. \A c \in Peer : \A a, b \in Line(c) :
        a = b \/ (a.n < b.n /\ Ahead(a, b)) \/ (b.n < a.n /\ Ahead(b, a))
  BY LineOrdered DEF InLine
<1>3. \A c \in Peer : c \notin lost => {a.n : a \in Line(c)} = host.last[c] + 1 .. con[c].said
  BY LineComplete
<1>4. run = "done" /\ ~failed => DrainedEmpty BY DEF FlowInv, LifeInv
<1> QED BY <1>1, <1>2, <1>3, <1>4 DEF EventsInOrder

(* The host takes the events of a connection in the order they happened,   *)
(* and none is missing or doubled unless a target was lost or a task was   *)
(* dropped on the way; a drain that finished left nothing on it            *)
(* (Pending::flush, post_refused, Dispatcher::refused, take_events,        *)
(* Turned::finished).                                                      *)
THEOREM EventsStayInOrder == FlowSpec => []EventsInOrder
<1>1. FlowInv => EventsInOrder BY OrderHolds
<1> QED BY <1>1, FlowInvariant, PTL

(* The ledger counts an event acknowledged, and its octets, only once no   *)
(* batch and no queue holds it (Ledger::settle).                           *)
THEOREM LedgerCountsAll == FlowSpec => []LedgerSound
<1>1. FlowInv => LedgerSound BY LedgerHolds
<1> QED BY <1>1, FlowInvariant, PTL

(* The events of one connection its client can cause, and the octets of    *)
(* all, stay within MAX_PENDING_EVENTS_PER_CONN and half the budget and    *)
(* one message of each connection (Pending::settle).                       *)
THEOREM ClientsAreBounded == FlowSpec => []HeldBounded
<1>1. FlowInv => HeldBounded BY BoundHolds
<1> QED BY <1>1, FlowInvariant, PTL
=============================================================================
