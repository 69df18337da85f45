---------------------------- MODULE TimersProofs ----------------------------
(***************************************************************************)
(* That the clock of a core implements SleepSet, for any number of sleeps, *)
(* any deadlines and a heap of any size.  The loops of the heap are        *)
(* recursive functions: what holds of each round of one is found in its    *)
(* trace, up to the round after which nothing changes.                     *)
(***************************************************************************)
EXTENDS TimersProps, TLAPS, NaturalsInduction, WellFoundedInduction

(* The shape of the state.                                                 *)
Entry == [deadline : Nat, sleep : Sleep, waker : Waker, position : Nat, sequence : Nat]
Key == [slot : Nat, sequence : Nat]
Queue == [slots : Seq(Entry), free : Seq(Nat), heap : Seq(Nat), next_sequence : Nat]

(* Entries know their position, and free slots hold none.                  *)
Shape(t) ==
  /\ t \in Queue
  /\ \A i \in 1 .. Len(t.heap) :
       /\ t.heap[i] \in 1 .. Len(t.slots)
       /\ t.slots[t.heap[i]].position = i /\ t.slots[t.heap[i]].sequence # 0
  /\ \A k \in 1 .. Len(t.slots) : t.slots[k].sequence # 0 =>
       /\ t.slots[k].position \in 1 .. Len(t.heap) /\ t.heap[t.slots[k].position] = k
       /\ t.slots[k].sequence < t.next_sequence
  /\ \A i \in 1 .. Len(t.free) :
       t.free[i] \in 1 .. Len(t.slots) /\ t.slots[t.free[i]].sequence = 0
  /\ \A i, j \in 1 .. Len(t.free) : t.free[i] = t.free[j] => i = j
  /\ t.next_sequence # 0

(* The heap is ordered: no entry is earlier than its parent.               *)
At(t, i) == t.slots[t.heap[i]].deadline
Ordered(t) == \A i \in 2 .. Len(t.heap) : At(t, i \div 2) <= At(t, i)

(* Entries alike but for their position, and clocks that hold such ones.   *)
Alike(e, f) ==
  e.deadline = f.deadline /\ e.sleep = f.sleep /\ e.waker = f.waker /\ e.sequence = f.sequence
Keeps(t, u) ==
  /\ u.free = t.free /\ u.next_sequence = t.next_sequence
  /\ Len(u.slots) = Len(t.slots) /\ Len(u.heap) = Len(t.heap)
  /\ \A k \in 1 .. Len(t.slots) : Alike(t.slots[k], u.slots[k])

-----------------------------------------------------------------------------
(* Sequences and records.                                                  *)

(* The fields of an entry and of a clock.                                  *)
LEMMA EntryFields ==
  ASSUME NEW e \in Entry
  PROVE  /\ e.deadline \in Nat /\ e.sleep \in Sleep /\ e.waker \in Waker
         /\ e.position \in Nat /\ e.sequence \in Nat
BY DEF Entry

(* The fields of a clock.                                                  *)
LEMMA QueueFields ==
  ASSUME NEW t \in Queue
  PROVE  /\ t.slots \in Seq(Entry) /\ t.free \in Seq(Nat) /\ t.heap \in Seq(Nat)
         /\ t.next_sequence \in Nat
         /\ Len(t.slots) \in Nat /\ Len(t.heap) \in Nat /\ Len(t.free) \in Nat
         /\ \A k \in 1 .. Len(t.slots) : t.slots[k] \in Entry
BY DEF Queue

(* What holds of a clock's heap and slots.                                 *)
LEMMA ShapeFacts ==
  ASSUME NEW t, Shape(t)
  PROVE  /\ t \in Queue
         /\ \A i \in 1 .. Len(t.heap) :
              /\ t.heap[i] \in 1 .. Len(t.slots) /\ t.slots[t.heap[i]] \in Entry
              /\ At(t, i) \in Nat /\ t.slots[t.heap[i]].position = i
              /\ t.slots[t.heap[i]].sequence # 0
         /\ \A i, j \in 1 .. Len(t.heap) : t.heap[i] = t.heap[j] => i = j
<1>1. t \in Queue BY DEF Shape
<1>2. \A i \in 1 .. Len(t.heap) :
        /\ t.heap[i] \in 1 .. Len(t.slots) /\ t.slots[t.heap[i]].position = i
        /\ t.slots[t.heap[i]].sequence # 0
  BY DEF Shape
<1>3. \A i \in 1 .. Len(t.heap) : t.slots[t.heap[i]] \in Entry BY <1>1, <1>2, QueueFields
<1>4. \A i \in 1 .. Len(t.heap) : At(t, i) \in Nat BY <1>3, EntryFields DEF At
<1>5. ASSUME NEW i \in 1 .. Len(t.heap), NEW j \in 1 .. Len(t.heap), t.heap[i] = t.heap[j]
      PROVE  i = j
  BY <1>2, <1>5
<1> QED BY <1>1, <1>2, <1>3, <1>4, <1>5

-----------------------------------------------------------------------------
(* A swap.                                                                 *)

(* Two places of the heap exchanged.                                       *)
Exchanged(t, u, i, j) ==
  /\ u \in Queue /\ u.free = t.free /\ u.next_sequence = t.next_sequence
  /\ Len(u.heap) = Len(t.heap) /\ Len(u.slots) = Len(t.slots)
  /\ u.heap[i] = t.heap[j] /\ u.heap[j] = t.heap[i]
  /\ \A k \in 1 .. Len(t.heap) : k # i /\ k # j => u.heap[k] = t.heap[k]
  /\ u.slots[t.heap[j]].position = i /\ u.slots[t.heap[i]].position = j
  /\ \A k \in 1 .. Len(t.slots) : Alike(t.slots[k], u.slots[k])
  /\ \A k \in 1 .. Len(t.slots) : k # t.heap[i] /\ k # t.heap[j] => u.slots[k] = t.slots[k]

(* What a swap makes of the heap and the slots.                            *)
LEMMA SwapParts ==
  ASSUME NEW t, Shape(t), NEW i \in 1 .. Len(t.heap), NEW j \in 1 .. Len(t.heap), i # j
  PROVE  Exchanged(t, Swap(t, i, j), i, j)
<1>1. PICK a \in 1 .. Len(t.slots) : a = t.heap[i] BY ShapeFacts
<1>2. PICK b \in 1 .. Len(t.slots) : b = t.heap[j] BY ShapeFacts
<1>3. a # b BY <1>1, <1>2, ShapeFacts
<1>4. PICK s \in Seq(Entry) : s = t.slots BY ShapeFacts, QueueFields
<1>5. PICK h \in Seq(Nat) : h = t.heap BY ShapeFacts, QueueFields
<1>6. PICK v : v = [s EXCEPT ![b].position = i, ![a].position = j] OBVIOUS
<1>7. PICK g : g = [h EXCEPT ![i] = b, ![j] = a] OBVIOUS
<1>8. a \in 1 .. Len(s) /\ b \in 1 .. Len(s) BY <1>1, <1>2, <1>4
<1>9. s[a] \in Entry /\ s[b] \in Entry BY <1>8
<1>10. i \in Nat /\ j \in Nat BY <1>5
<1>11. PICK e \in Entry : e = [s[b] EXCEPT !.position = i] BY <1>9, <1>10 DEF Entry
<1>12. PICK f \in Entry : f = [s[a] EXCEPT !.position = j] BY <1>9, <1>10 DEF Entry
<1>13. v = [s EXCEPT ![b] = e, ![a] = f] BY <1>3, <1>6, <1>8, <1>11, <1>12
<1>14. v \in Seq(Entry) /\ Len(v) = Len(s) BY <1>8, <1>13
<1>15. v[b] = e /\ v[a] = f /\ \A k \in 1 .. Len(s) : k # a /\ k # b => v[k] = s[k]
  BY <1>3, <1>8, <1>13
<1>16. e.position = i /\ f.position = j /\ Alike(s[b], e) /\ Alike(s[a], f)
  BY <1>9, <1>11, <1>12 DEF Entry, Alike
<1>17. \A k \in 1 .. Len(s) : Alike(s[k], v[k]) BY <1>15, <1>16 DEF Alike
<1>18. i \in 1 .. Len(h) /\ j \in 1 .. Len(h) /\ a \in Nat /\ b \in Nat BY <1>5
<1>19. g \in Seq(Nat) /\ Len(g) = Len(h) BY <1>7, <1>18
<1>20. g[i] = b /\ g[j] = a /\ \A k \in 1 .. Len(h) : k # i /\ k # j => g[k] = h[k]
  BY <1>7, <1>18
<1>21. PICK u : u = Swap(t, i, j) OBVIOUS
<1>22. u = [t EXCEPT !.heap = g, !.slots = v]
  <2>1. Swap(t, i, j) =
          [t EXCEPT !.heap  = [t.heap EXCEPT ![i] = t.heap[j], ![j] = t.heap[i]],
                    !.slots = [t.slots EXCEPT ![t.heap[j]].position = i,
                                              ![t.heap[i]].position = j]]
    BY ShapeFacts DEF Swap, Queue
  <2>2. [t.heap EXCEPT ![i] = t.heap[j], ![j] = t.heap[i]] = g BY <1>1, <1>2, <1>5, <1>7, Zenon
  <2>3. [t.slots EXCEPT ![t.heap[j]].position = i, ![t.heap[i]].position = j] = v
    BY <1>1, <1>2, <1>4, <1>6, Zenon
  <2> QED BY <1>21, <2>1, <2>2, <2>3, Zenon
<1>23. t \in Queue BY ShapeFacts
<1>24. /\ u \in Queue /\ u.heap = g /\ u.slots = v /\ u.free = t.free
       /\ u.next_sequence = t.next_sequence
  BY <1>14, <1>19, <1>22, <1>23 DEF Queue
<1>25. Exchanged(t, u, i, j)
  <2>1. \A k \in 1 .. Len(t.slots) : k # t.heap[i] /\ k # t.heap[j] => u.slots[k] = t.slots[k]
    BY <1>1, <1>2, <1>4, <1>15, <1>24
  <2>2. \A k \in 1 .. Len(t.slots) : Alike(t.slots[k], u.slots[k]) BY <1>4, <1>17, <1>24
  <2>3. u.slots[t.heap[j]].position = i /\ u.slots[t.heap[i]].position = j
    BY <1>1, <1>2, <1>15, <1>16, <1>24
  <2>4. \A k \in 1 .. Len(t.heap) : k # i /\ k # j => u.heap[k] = t.heap[k]
    BY <1>5, <1>20, <1>24
  <2>5. u.heap[i] = t.heap[j] /\ u.heap[j] = t.heap[i] BY <1>1, <1>2, <1>20, <1>24
  <2>6. Len(u.heap) = Len(t.heap) /\ Len(u.slots) = Len(t.slots)
    BY <1>4, <1>5, <1>14, <1>19, <1>24
  <2> QED BY <1>24, <2>1, <2>2, <2>3, <2>4, <2>5, <2>6 DEF Exchanged
<1> QED BY <1>21, <1>25, Zenon

(* A swap keeps the shape and what the entries hold.                       *)
LEMMA SwapKeeps ==
  ASSUME NEW t, Shape(t), NEW i \in 1 .. Len(t.heap), NEW j \in 1 .. Len(t.heap), i # j,
         NEW u, Exchanged(t, u, i, j)
  PROVE  /\ Shape(u) /\ Keeps(t, u)
         /\ At(u, i) = At(t, j) /\ At(u, j) = At(t, i)
         /\ \A k \in 1 .. Len(t.heap) : k # i /\ k # j => At(u, k) = At(t, k)
<1>1. PICK a \in 1 .. Len(t.slots) : a = t.heap[i] BY ShapeFacts
<1>2. PICK b \in 1 .. Len(t.slots) : b = t.heap[j] BY ShapeFacts
<1>3. PICK n \in Nat : n = Len(t.heap) BY ShapeFacts, QueueFields
<1>4. PICK m \in Nat : m = Len(t.slots) BY ShapeFacts, QueueFields
<1>5. /\ u \in Queue /\ u.free = t.free /\ u.next_sequence = t.next_sequence
      /\ Len(u.heap) = n /\ Len(u.slots) = m
  BY <1>3, <1>4 DEF Exchanged
<1>6. u.heap[i] = b /\ u.heap[j] = a /\ \A k \in 1 .. n : k # i /\ k # j => u.heap[k] = t.heap[k]
  BY <1>1, <1>2, <1>3 DEF Exchanged
<1>7. /\ u.slots[b].position = i /\ u.slots[a].position = j
      /\ \A k \in 1 .. m : k # a /\ k # b => u.slots[k] = t.slots[k]
  BY <1>1, <1>2, <1>4 DEF Exchanged
<1>8. \A k \in 1 .. m : Alike(t.slots[k], u.slots[k]) BY <1>4 DEF Exchanged
<1>9. Keeps(t, u) BY <1>3, <1>4, <1>5, <1>8 DEF Keeps
<1>10. \A k \in 1 .. n : t.heap[k] \in 1 .. m /\ t.slots[t.heap[k]].position = k
                        /\ t.slots[t.heap[k]].sequence # 0
  BY <1>3, <1>4 DEF Shape
<1>11. \A k \in 1 .. n : t.heap[k] = a => k = i BY <1>1, <1>3, ShapeFacts
<1>12. \A k \in 1 .. n : t.heap[k] = b => k = j BY <1>2, <1>3, ShapeFacts
<1>13. ASSUME NEW k \in 1 .. n
       PROVE  /\ u.heap[k] \in 1 .. m /\ u.slots[u.heap[k]].position = k
              /\ u.slots[u.heap[k]].sequence # 0
  <2>1. CASE k = i
    <3>1. t.slots[b].sequence # 0 BY <1>2, <1>3, <1>10
    <3>2. u.slots[b].sequence # 0 BY <1>2, <1>4, <1>8, <3>1 DEF Alike
    <3> QED BY <1>2, <1>4, <1>6, <1>7, <2>1, <3>2
  <2>2. CASE k = j
    <3>1. t.slots[a].sequence # 0 BY <1>1, <1>3, <1>10
    <3>2. u.slots[a].sequence # 0 BY <1>1, <1>4, <1>8, <3>1 DEF Alike
    <3> QED BY <1>1, <1>4, <1>6, <1>7, <2>2, <3>2
  <2>3. CASE k # i /\ k # j
    <3>1. u.heap[k] = t.heap[k] BY <1>6, <2>3
    <3>2. t.heap[k] # a /\ t.heap[k] # b BY <1>11, <1>12, <2>3
    <3>3. u.slots[t.heap[k]] = t.slots[t.heap[k]] BY <1>7, <1>10, <3>2
    <3> QED BY <1>10, <3>1, <3>3
  <2> QED BY <2>1, <2>2, <2>3
<1>14. ASSUME NEW k \in 1 .. m, u.slots[k].sequence # 0
       PROVE  /\ u.slots[k].position \in 1 .. n /\ u.heap[u.slots[k].position] = k
              /\ u.slots[k].sequence < u.next_sequence
  <2>1. t.slots[k].sequence = u.slots[k].sequence BY <1>8 DEF Alike
  <2>2. /\ t.slots[k].position \in 1 .. n /\ t.heap[t.slots[k].position] = k
        /\ t.slots[k].sequence < t.next_sequence
    BY <1>3, <1>4, <1>14, <2>1 DEF Shape
  <2>3. u.slots[k].sequence < u.next_sequence BY <1>5, <2>1, <2>2
  <2>4. CASE k = a BY <1>3, <1>6, <1>7, <2>3, <2>4
  <2>5. CASE k = b BY <1>3, <1>6, <1>7, <2>3, <2>5
  <2>6. CASE k # a /\ k # b
    <3>1. u.slots[k] = t.slots[k] BY <1>7, <2>6
    <3>2. t.slots[k].position # i /\ t.slots[k].position # j BY <1>1, <1>2, <2>2, <2>6
    <3> QED BY <1>6, <2>2, <2>3, <3>1, <3>2
  <2> QED BY <2>4, <2>5, <2>6
<1>15. \A k \in 1 .. Len(u.free) : u.free[k] \in 1 .. m /\ u.slots[u.free[k]].sequence = 0
  <2>1. ASSUME NEW k \in 1 .. Len(t.free)
        PROVE  t.free[k] \in 1 .. m /\ u.slots[t.free[k]].sequence = 0
    <3>1. t.free[k] \in 1 .. m /\ t.slots[t.free[k]].sequence = 0 BY <1>4 DEF Shape
    <3> QED BY <1>8, <3>1 DEF Alike
  <2> QED BY <1>5, <2>1
<1>16. Shape(u)
  <2>1. u.next_sequence # 0 /\ \A k, l \in 1 .. Len(u.free) : u.free[k] = u.free[l] => k = l
    BY <1>5 DEF Shape
  <2> QED BY <1>5, <1>13, <1>14, <1>15, <2>1 DEF Shape
<1>17. At(u, i) = At(t, j) /\ At(u, j) = At(t, i)
  BY <1>1, <1>2, <1>4, <1>6, <1>8 DEF At, Alike
<1>18. ASSUME NEW k \in 1 .. n, k # i, k # j PROVE At(u, k) = At(t, k)
  BY <1>6, <1>8, <1>10, <1>18 DEF At, Alike
<1> QED BY <1>3, <1>9, <1>16, <1>17, <1>18

-----------------------------------------------------------------------------
(* Loops: what a recursive function computes, through its trace.           *)

(* A set of naturals that is not empty has a least member.                 *)
LEMMA LeastNat ==
  ASSUME NEW T \in SUBSET Nat, T # {}
  PROVE  \E m \in T : \A k \in T : m <= k
<1>1. PICK R : R = OpToRel(<, Nat) OBVIOUS
<1>2. IsWellFoundedOn(R, Nat) BY <1>1, NatLessThanWellFounded
<1>3. PICK m \in T : \A y \in T : ~(<<y, m>> \in R) BY <1>2, WFMin
<1>4. \A y \in Nat : y < m => <<y, m>> \in R BY <1>1 DEF OpToRel
<1>5. \A y \in T : y \in Nat /\ m \in Nat /\ ~(y < m) BY <1>3, <1>4
<1>6. \A y \in T : m <= y BY <1>5
<1> QED BY <1>6

(* A set that holds 0 and, up to n, the successor of each of its members   *)
(* holds everything up to n.                                               *)
LEMMA UpTo ==
  ASSUME NEW n \in Nat, NEW S, 0 \in S, \A k \in 1 .. n : k - 1 \in S => k \in S
  PROVE  \A k \in 0 .. n : k \in S
<1>1. SUFFICES ASSUME (0 .. n) \ S # {} PROVE FALSE OBVIOUS
<1>2. PICK m \in (0 .. n) \ S : \A k \in (0 .. n) \ S : m <= k
  <2>1. (0 .. n) \ S \in SUBSET Nat OBVIOUS
  <2> QED BY <1>1, <2>1, LeastNat, Zenon
<1>3. m \in 1 .. n BY <1>2
<1>4. m - 1 \in 0 .. n /\ ~(m <= m - 1) BY <1>3
<1>5. m - 1 \in S BY <1>2, <1>4
<1> QED BY <1>2, <1>3, <1>5

(* n rounds of a loop from b, within V.                                    *)
Rounds(V, b, n, st, f) ==
  f \in [0 .. n -> V] /\ f[0] = b /\ \A k \in 1 .. n : f[k] = st[f[k - 1]]

(* A loop has its rounds from any start.                                   *)
LEMMA Trace ==
  ASSUME NEW V, NEW b \in V, NEW n \in Nat, NEW st \in [V -> V]
  PROVE  \E f : Rounds(V, b, n, st, f)
<1> DEFINE S == {m \in 0 .. n : \E f \in [0 .. n -> V] :
                   f[0] = b /\ \A k \in 1 .. m : f[k] = st[f[k - 1]]}
<1>1. 0 \in S
  <2>1. PICK f : f = [k \in 0 .. n |-> b] OBVIOUS
  <2>2. f \in [0 .. n -> V] /\ f[0] = b BY <2>1
  <2> QED BY <2>2
<1>2. ASSUME NEW m \in 1 .. n, m - 1 \in S PROVE m \in S
  <2>1. PICK f \in [0 .. n -> V] : f[0] = b /\ \A k \in 1 .. m - 1 : f[k] = st[f[k - 1]]
    BY <1>2
  <2>2. m - 1 \in 0 .. n OBVIOUS
  <2>3. st[f[m - 1]] \in V BY <2>1, <2>2
  <2>4. PICK g : g = [f EXCEPT ![m] = st[f[m - 1]]] OBVIOUS
  <2>5. g \in [0 .. n -> V] BY <2>1, <2>3, <2>4
  <2>6. g[m] = st[f[m - 1]] /\ \A k \in 0 .. n : k # m => g[k] = f[k] BY <2>1, <2>4
  <2>7. g[0] = b BY <2>1, <2>6
  <2>8. \A k \in 1 .. m : g[k] = st[g[k - 1]]
    <3>1. SUFFICES ASSUME NEW k \in 1 .. m PROVE g[k] = st[g[k - 1]] OBVIOUS
    <3>2. k - 1 \in 0 .. n /\ k - 1 # m /\ k \in 0 .. n OBVIOUS
    <3>3. g[k - 1] = f[k - 1] BY <2>6, <3>2
    <3>4. CASE k = m BY <2>6, <3>3, <3>4
    <3>5. CASE k # m
      <4>1. k \in 1 .. m - 1 BY <3>5
      <4>2. g[k] = f[k] BY <2>6, <3>2, <3>5
      <4> QED BY <2>1, <3>3, <4>1, <4>2
    <3> QED BY <3>4, <3>5
  <2> QED BY <2>5, <2>7, <2>8
<1> HIDE DEF S
<1>3. n \in S
  <2>1. n \in 0 .. n OBVIOUS
  <2> QED BY <1>1, <1>2, <2>1, UpTo
<1> QED BY <1>3 DEF S, Rounds

(* A function that does what a round does, as long as it is within V.      *)
Proceeds(V, b, n, st, g) ==
  g[0] = b /\ \A k \in 1 .. n : g[k - 1] \in V => g[k] = st[g[k - 1]]

(* The rounds of a loop are determined by its start.                       *)
LEMMA SameRounds ==
  ASSUME NEW V, NEW b, NEW n \in Nat, NEW st, NEW f, Rounds(V, b, n, st, f),
         NEW g, Proceeds(V, b, n, st, g)
  PROVE  \A k \in 0 .. n : g[k] = f[k]
<1> DEFINE S == {k \in 0 .. n : g[k] = f[k]}
<1>1. 0 \in S BY DEF Rounds, Proceeds
<1>2. ASSUME NEW k \in 1 .. n, k - 1 \in S PROVE k \in S
  <2>1. g[k - 1] = f[k - 1] /\ f[k - 1] \in V BY <1>2 DEF Rounds
  <2>2. g[k] = f[k] BY <2>1 DEF Rounds, Proceeds
  <2> QED BY <2>2
<1> HIDE DEF S
<1>3. \A k \in 0 .. n : k \in S BY <1>1, <1>2, UpTo
<1> QED BY <1>3 DEF S

(* Rounds of sift_up's loop from b, within V.                              *)
Rises(V, b, n, f) ==
  f \in [0 .. n -> V] /\ f[0] = b /\ \A k \in 1 .. n : f[k] = Rise(f[k - 1])

(* The rounds of sift_up.                                                  *)
LEMMA RiseRounds ==
  ASSUME NEW t, NEW i \in Nat, NEW V, NEW b \in V, b = [timers |-> t, at |-> i],
         \A x \in V : Rise(x) \in V
  PROVE  \E f : Rises(V, b, i, f) /\ sift_up(t, i) = f[i].timers
<1>1. PICK n \in Nat : n = i OBVIOUS
<1>3. PICK st \in [V -> V] : st = [x \in V |-> Rise(x)]
  <2>1. [x \in V |-> Rise(x)] \in [V -> V] OBVIOUS
  <2> QED BY <2>1, Zenon
<1>4. PICK f : Rounds(V, b, n, st, f) BY Trace
<1>5. f \in [0 .. n -> V] /\ f[0] = b BY <1>4 DEF Rounds
<1>6. \A k \in 1 .. n : f[k] = Rise(f[k - 1])
  <2>1. ASSUME NEW k \in 1 .. n PROVE f[k] = Rise(f[k - 1])
    <3>1. f[k - 1] \in V BY <1>5
    <3> QED BY <1>3, <1>4, <3>1 DEF Rounds
  <2> QED BY <2>1
<1> DEFINE Follows(h) == h = [k \in 0 .. n |-> IF k = 0 THEN b ELSE Rise(h[k - 1])]
<1>7. Follows(f)
  <2>1. \A k \in 0 .. n : f[k] = IF k = 0 THEN b ELSE Rise(f[k - 1]) BY <1>5, <1>6
  <2> QED BY <1>5, <2>1
<1>8. PICK g : g = CHOOSE h : Follows(h) OBVIOUS
<1>9. Follows(g) BY <1>7, <1>8
<1>10. sift_up(t, i) = g[n].timers BY <1>1, <1>8 DEF sift_up
<1>11. g[0] = b /\ \A k \in 1 .. n : g[k] = Rise(g[k - 1])
  <2>1. 0 \in 0 .. n /\ \A k \in 1 .. n : k \in 0 .. n /\ k # 0 OBVIOUS
  <2> QED BY <1>9, <2>1
<1> HIDE DEF Follows
<1>12. Proceeds(V, b, n, st, g) BY <1>3, <1>11 DEF Proceeds
<1>13. \A k \in 0 .. n : g[k] = f[k] BY <1>4, <1>12, SameRounds
<1>14. g[n] = f[n] BY <1>13
<1>15. Rises(V, b, n, f) BY <1>5, <1>6 DEF Rises
<1> QED BY <1>1, <1>10, <1>14, <1>15

(* Rounds of sift_down's loop from b, within V.                            *)
Sinks(V, b, n, f) ==
  f \in [0 .. n -> V] /\ f[0] = b /\ \A k \in 1 .. n : f[k] = Sink(f[k - 1])

(* The rounds of sift_down.                                                *)
LEMMA SinkRounds ==
  ASSUME NEW t \in Queue, NEW i \in Nat, NEW V, NEW b \in V, b = [timers |-> t, at |-> i],
         \A x \in V : Sink(x) \in V
  PROVE  \E f : Sinks(V, b, Len(t.heap), f) /\ sift_down(t, i) = f[Len(t.heap)].timers
<1>1. PICK n \in Nat : n = Len(t.heap) BY QueueFields
<1>3. PICK st \in [V -> V] : st = [x \in V |-> Sink(x)]
  <2>1. [x \in V |-> Sink(x)] \in [V -> V] OBVIOUS
  <2> QED BY <2>1, Zenon
<1>4. PICK f : Rounds(V, b, n, st, f) BY Trace
<1>5. f \in [0 .. n -> V] /\ f[0] = b BY <1>4 DEF Rounds
<1>6. \A k \in 1 .. n : f[k] = Sink(f[k - 1])
  <2>1. ASSUME NEW k \in 1 .. n PROVE f[k] = Sink(f[k - 1])
    <3>1. f[k - 1] \in V BY <1>5
    <3> QED BY <1>3, <1>4, <3>1 DEF Rounds
  <2> QED BY <2>1
<1> DEFINE Follows(h) == h = [k \in 0 .. n |-> IF k = 0 THEN b ELSE Sink(h[k - 1])]
<1>7. Follows(f)
  <2>1. \A k \in 0 .. n : f[k] = IF k = 0 THEN b ELSE Sink(f[k - 1]) BY <1>5, <1>6
  <2> QED BY <1>5, <2>1
<1>8. PICK g : g = CHOOSE h : Follows(h) OBVIOUS
<1>9. Follows(g) BY <1>7, <1>8
<1>10. sift_down(t, i) = g[n].timers BY <1>1, <1>8 DEF sift_down
<1>11. g[0] = b /\ \A k \in 1 .. n : g[k] = Sink(g[k - 1])
  <2>1. 0 \in 0 .. n /\ \A k \in 1 .. n : k \in 0 .. n /\ k # 0 OBVIOUS
  <2> QED BY <1>9, <2>1
<1> HIDE DEF Follows
<1>12. Proceeds(V, b, n, st, g) BY <1>3, <1>11 DEF Proceeds
<1>13. \A k \in 0 .. n : g[k] = f[k] BY <1>4, <1>12, SameRounds
<1>14. g[n] = f[n] BY <1>13
<1>15. Sinks(V, b, n, f) BY <1>5, <1>6 DEF Sinks
<1> QED BY <1>1, <1>10, <1>14, <1>15

(* Rounds of fire's loop from b, within V.                                 *)
Fires(V, b, n, at, f) ==
  f \in [0 .. n -> V] /\ f[0] = b /\ \A k \in 1 .. n : f[k] = FireFirst(f[k - 1], at)

(* The rounds of fire.                                                     *)
LEMMA FireRounds ==
  ASSUME NEW t \in Queue, NEW at, NEW V, NEW b \in V, b = [timers |-> t, wakes |-> {}],
         \A x \in V : FireFirst(x, at) \in V
  PROVE  \E f : Fires(V, b, Len(t.heap), at, f) /\ fire(t, at) = f[Len(t.heap)]
<1>1. PICK n \in Nat : n = Len(t.heap) BY QueueFields
<1>3. PICK st \in [V -> V] : st = [x \in V |-> FireFirst(x, at)]
  <2>1. [x \in V |-> FireFirst(x, at)] \in [V -> V] OBVIOUS
  <2> QED BY <2>1, Zenon
<1>4. PICK f : Rounds(V, b, n, st, f) BY Trace
<1>5. f \in [0 .. n -> V] /\ f[0] = b BY <1>4 DEF Rounds
<1>6. \A k \in 1 .. n : f[k] = FireFirst(f[k - 1], at)
  <2>1. ASSUME NEW k \in 1 .. n PROVE f[k] = FireFirst(f[k - 1], at)
    <3>1. f[k - 1] \in V BY <1>5
    <3> QED BY <1>3, <1>4, <3>1 DEF Rounds
  <2> QED BY <2>1
<1> DEFINE Follows(h) == h = [k \in 0 .. n |-> IF k = 0 THEN b ELSE FireFirst(h[k - 1], at)]
<1>7. Follows(f)
  <2>1. \A k \in 0 .. n : f[k] = IF k = 0 THEN b ELSE FireFirst(f[k - 1], at) BY <1>5, <1>6
  <2> QED BY <1>5, <2>1
<1>8. PICK g : g = CHOOSE h : Follows(h) OBVIOUS
<1>9. Follows(g) BY <1>7, <1>8
<1>10. fire(t, at) = g[n] BY <1>1, <1>8 DEF fire
<1>11. g[0] = b /\ \A k \in 1 .. n : g[k] = FireFirst(g[k - 1], at)
  <2>1. 0 \in 0 .. n /\ \A k \in 1 .. n : k \in 0 .. n /\ k # 0 OBVIOUS
  <2> QED BY <1>9, <2>1
<1> HIDE DEF Follows
<1>12. Proceeds(V, b, n, st, g) BY <1>3, <1>11 DEF Proceeds
<1>13. \A k \in 0 .. n : g[k] = f[k] BY <1>4, <1>12, SameRounds
<1>14. g[n] = f[n] BY <1>13
<1>15. Fires(V, b, n, at, f) BY <1>5, <1>6 DEF Fires
<1> QED BY <1>1, <1>10, <1>14, <1>15

-----------------------------------------------------------------------------
(* sift_up.                                                                *)

(* The place above a place.                                                *)
LEMMA Half ==
  ASSUME NEW i \in Nat, i > 1
  PROVE  /\ i \div 2 \in Nat /\ 1 <= i \div 2 /\ i \div 2 < i
         /\ 2 * (i \div 2) <= i /\ i <= 2 * (i \div 2) + 1
OBVIOUS

(* What keeps another keeps what that one keeps.                           *)
LEMMA KeepsOn ==
  ASSUME NEW t, NEW u, NEW v, Keeps(t, u), Keeps(u, v)
  PROVE  Keeps(t, v)
BY DEF Keeps, Alike

(* Every clock keeps itself.                                               *)
LEMMA KeepsSelf ==
  ASSUME NEW t
  PROVE  Keeps(t, t)
BY DEF Keeps, Alike

(* The heap is ordered but for the entry at i, which may have to rise.     *)
Rising(t, i) ==
  /\ \A j \in 2 .. Len(t.heap) : j # i => At(t, j \div 2) <= At(t, j)
  /\ \A j \in 2 .. Len(t.heap) : j \div 2 = i /\ i > 1 => At(t, i \div 2) <= At(t, j)
RisingFrom(t) ==
  {x \in [timers : Queue, at : Nat] :
     /\ Shape(x.timers) /\ Keeps(t, x.timers)
     /\ x.at \in 1 .. Len(t.heap) /\ Rising(x.timers, x.at)}

(* An entry earlier than its parent changes places with it.                *)
LEMMA RisingSwap ==
  ASSUME NEW t, Shape(t), NEW i \in 2 .. Len(t.heap), Rising(t, i), NEW p, p = i \div 2,
         At(t, i) < At(t, p), NEW u, Exchanged(t, u, i, p)
  PROVE  Shape(u) /\ Keeps(t, u) /\ p \in 1 .. Len(t.heap) /\ p < i /\ Rising(u, p)
<1>1. PICK n \in Nat : n = Len(t.heap) BY ShapeFacts, QueueFields
<1>2. i \in Nat /\ i > 1 /\ i \in 1 .. n BY <1>1
<1>3. p \in Nat /\ p \in 1 .. n /\ p < i BY <1>1, <1>2, Half
<1>4. /\ Shape(u) /\ Keeps(t, u) /\ At(u, i) = At(t, p) /\ At(u, p) = At(t, i)
      /\ \A k \in 1 .. n : k # i /\ k # p => At(u, k) = At(t, k)
  BY <1>1, <1>2, <1>3, SwapKeeps
<1>5. Len(u.heap) = n BY <1>1, <1>4 DEF Keeps
<1>6. \A k \in 1 .. n : At(t, k) \in Nat BY <1>1, ShapeFacts
<1>7. \A j \in 2 .. n : j # i => At(t, j \div 2) <= At(t, j) BY <1>1 DEF Rising
<1>8. \A j \in 2 .. n : j \div 2 = i => At(t, p) <= At(t, j) BY <1>1, <1>2 DEF Rising
<1>9. \A j \in 2 .. n : j \div 2 \in 1 .. n /\ j \div 2 < j /\ j \in 1 .. n BY Half
<1>10. ASSUME NEW j \in 2 .. n, j # p PROVE At(u, j \div 2) <= At(u, j)
  <2>1. PICK q \in 1 .. n : q = j \div 2 /\ q < j BY <1>9
  <2>2. CASE j = i BY <1>2, <1>3, <1>4, <1>6, <2>1, <2>2
  <2>3. CASE j # i /\ q = i
    <3>1. At(t, p) <= At(t, j) BY <1>8, <2>1, <2>3
    <3>2. At(u, j) = At(t, j) BY <1>4, <1>9, <1>10, <2>3
    <3> QED BY <1>4, <2>1, <2>3, <3>1, <3>2
  <2>4. CASE j # i /\ q = p
    <3>1. At(t, p) <= At(t, j) BY <1>7, <2>1, <2>4
    <3>2. At(u, j) = At(t, j) BY <1>4, <1>9, <1>10, <2>4
    <3>3. At(t, i) <= At(t, j) BY <1>2, <1>3, <1>6, <1>9, <3>1
    <3> QED BY <1>4, <2>1, <2>4, <3>2, <3>3
  <2>5. CASE j # i /\ q # i /\ q # p
    <3>1. At(t, q) <= At(t, j) BY <1>7, <2>1, <2>5
    <3>2. At(u, j) = At(t, j) /\ At(u, q) = At(t, q) BY <1>4, <1>9, <1>10, <2>1, <2>5
    <3> QED BY <2>1, <3>1, <3>2
  <2> QED BY <2>2, <2>3, <2>4, <2>5
<1>11. ASSUME NEW j \in 2 .. n, j \div 2 = p, p > 1 PROVE At(u, p \div 2) <= At(u, j)
  <2>1. p \in 2 .. n /\ p # i BY <1>3, <1>11
  <2>2. PICK q \in 1 .. n : q = p \div 2 /\ q < p BY <1>9, <2>1
  <2>3. At(t, q) <= At(t, p) BY <1>7, <2>1, <2>2
  <2>4. At(u, q) = At(t, q) BY <1>3, <1>4, <2>2
  <2>5. j # p BY <1>9, <1>11
  <2>6. CASE j = i BY <1>4, <2>2, <2>3, <2>4, <2>6
  <2>7. CASE j # i
    <3>1. At(t, p) <= At(t, j) BY <1>7, <1>11, <2>7
    <3>2. At(u, j) = At(t, j) BY <1>4, <1>9, <2>5, <2>7
    <3>3. At(t, q) <= At(t, j) BY <1>3, <1>6, <1>9, <2>2, <2>3, <3>1
    <3> QED BY <2>2, <2>4, <3>2, <3>3
  <2> QED BY <2>6, <2>7
<1>12. Rising(u, p) BY <1>5, <1>10, <1>11 DEF Rising
<1> QED BY <1>1, <1>3, <1>4, <1>12

(* A round of sift_up: the entry is in its place, or one place higher.     *)
LEMMA RiseRound ==
  ASSUME NEW t, NEW x \in RisingFrom(t)
  PROVE  /\ Rise(x) \in RisingFrom(t)
         /\ (Rise(x) = x /\ Ordered(x.timers)) \/ Rise(x).at < x.at
<1>1. PICK c \in Queue : c = x.timers BY DEF RisingFrom
<1>2. PICK i \in Nat : i = x.at BY DEF RisingFrom
<1>3. Shape(c) /\ Keeps(t, c) /\ i \in 1 .. Len(t.heap) /\ Rising(c, i)
  BY <1>1, <1>2 DEF RisingFrom
<1>4. Len(c.heap) = Len(t.heap) BY <1>3 DEF Keeps
<1>5. PICK p : p = i \div 2 OBVIOUS
<1>6. CASE i <= 1 \/ At(c, i) >= At(c, p)
  <2>1. Rise(x) = x BY <1>1, <1>2, <1>5, <1>6 DEF Rise, At, deadline_of
  <2>2. Ordered(c)
    <3>1. ASSUME NEW j \in 2 .. Len(c.heap) PROVE At(c, j \div 2) <= At(c, j)
      <4>1. CASE j = i
        <5>1. i > 1 /\ At(c, i) >= At(c, p) BY <1>2, <1>6, <4>1
        <5>2. i \in 1 .. Len(c.heap) /\ p \in 1 .. Len(c.heap) BY <1>3, <1>4, <1>5, <5>1, Half
        <5>3. At(c, i) \in Nat /\ At(c, p) \in Nat BY <1>3, <5>2, ShapeFacts
        <5> QED BY <1>5, <4>1, <5>1, <5>3
      <4>2. CASE j # i BY <1>3, <4>2 DEF Rising
      <4> QED BY <4>1, <4>2
    <3> QED BY <3>1 DEF Ordered
  <2> QED BY <1>1, <2>1, <2>2
<1>7. CASE ~(i <= 1 \/ At(c, i) >= At(c, p))
  <2>1. i \in 2 .. Len(c.heap) /\ p \in 1 .. Len(c.heap) /\ i # p
    BY <1>2, <1>3, <1>4, <1>5, <1>7, Half
  <2>2. At(c, i) \in Nat /\ At(c, p) \in Nat BY <1>3, <2>1, ShapeFacts
  <2>3. At(c, i) < At(c, p) BY <1>7, <2>2
  <2>4. PICK u : u = Swap(c, i, p) OBVIOUS
  <2>5. Exchanged(c, u, i, p) BY <1>3, <2>1, <2>4, SwapParts
  <2>6. Shape(u) /\ Keeps(c, u) /\ p \in 1 .. Len(c.heap) /\ p < i /\ Rising(u, p)
    BY <1>3, <1>5, <2>1, <2>3, <2>5, RisingSwap
  <2>7. Rise(x) = [timers |-> u, at |-> p]
    BY <1>1, <1>2, <1>5, <1>7, <2>4 DEF Rise, At, deadline_of
  <2>8. u \in Queue /\ Keeps(t, u) BY <1>3, <2>6, KeepsOn DEF Shape
  <2>9. Rise(x) \in RisingFrom(t) BY <1>4, <2>6, <2>7, <2>8 DEF RisingFrom
  <2> QED BY <1>2, <2>6, <2>7, <2>9
<1> QED BY <1>6, <1>7

(* sift_up orders a heap with one entry too low.                           *)
LEMMA SiftUp ==
  ASSUME NEW t, Shape(t), NEW i \in 1 .. Len(t.heap), Rising(t, i)
  PROVE  Shape(sift_up(t, i)) /\ Keeps(t, sift_up(t, i)) /\ Ordered(sift_up(t, i))
<1>1. i \in Nat OBVIOUS
<1>2. PICK b : b = [timers |-> t, at |-> i] OBVIOUS
<1>3. b \in RisingFrom(t) BY <1>1, <1>2, KeepsSelf, ShapeFacts DEF RisingFrom
<1>4. \A x \in RisingFrom(t) : Rise(x) \in RisingFrom(t) BY RiseRound
<1>5. PICK f \in [0 .. i -> RisingFrom(t)] :
        f[0] = b /\ (\A k \in 1 .. i : f[k] = Rise(f[k - 1])) /\ sift_up(t, i) = f[i].timers
  <2>1. PICK V : V = RisingFrom(t) OBVIOUS
  <2>2. b \in V /\ \A x \in V : Rise(x) \in V BY <1>3, <1>4, <2>1
  <2>3. PICK f : Rises(V, b, i, f) /\ sift_up(t, i) = f[i].timers BY <1>1, <1>2, <2>2, RiseRounds
  <2> QED BY <2>1, <2>3, Zenon DEF Rises
<1> DEFINE S == {k \in 0 .. i : (Rise(f[k]) = f[k] /\ Ordered(f[k].timers)) \/ f[k].at <= i - k}
<1>6. 0 \in S BY <1>1, <1>2, <1>5
<1>7. ASSUME NEW k \in 1 .. i, k - 1 \in S PROVE k \in S
  <2>1. f[k - 1] \in RisingFrom(t) /\ f[k] \in RisingFrom(t) /\ f[k] = Rise(f[k - 1]) BY <1>1, <1>5
  <2>2. f[k - 1].at \in Nat /\ f[k].at \in Nat BY <2>1 DEF RisingFrom
  <2>3. CASE Rise(f[k - 1]) = f[k - 1] /\ Ordered(f[k - 1].timers) BY <2>1, <2>3
  <2>4. CASE ~(Rise(f[k - 1]) = f[k - 1] /\ Ordered(f[k - 1].timers))
    <3>1. f[k - 1].at <= i - (k - 1) BY <1>7, <2>4
    <3>2. f[k].at < f[k - 1].at BY <2>1, <2>4, RiseRound
    <3>3. f[k].at <= i - k BY <1>1, <2>2, <3>1, <3>2
    <3> QED BY <3>3
  <2> QED BY <2>3, <2>4
<1> HIDE DEF S
<1>8. \A k \in 0 .. i : k \in S BY <1>1, <1>6, <1>7, UpTo
<1>9. f[i] \in RisingFrom(t) BY <1>1, <1>5
<1>10. Shape(f[i].timers) /\ Keeps(t, f[i].timers) /\ f[i].at >= 1 BY <1>9 DEF RisingFrom
<1>11. Ordered(f[i].timers)
  <2>1. i \in S BY <1>1, <1>8
  <2>2. ~(f[i].at <= i - i) BY <1>1, <1>9, <1>10 DEF RisingFrom
  <2> QED BY <2>1, <2>2 DEF S
<1> QED BY <1>5, <1>10, <1>11

(* sift_up leaves alone an entry that is not earlier than its parent.      *)
LEMMA SiftUpStays ==
  ASSUME NEW t, Shape(t), NEW i \in 1 .. Len(t.heap), i <= 1 \/ At(t, i) >= At(t, i \div 2)
  PROVE  sift_up(t, i) = t
<1>1. i \in Nat OBVIOUS
<1>2. PICK b : b = [timers |-> t, at |-> i] OBVIOUS
<1>3. Rise(b) = b BY <1>2 DEF Rise, At, deadline_of
<1>4. PICK V : V = {b} OBVIOUS
<1>5. b \in V /\ \A x \in V : Rise(x) \in V BY <1>3, <1>4
<1>6. PICK f : Rises(V, b, i, f) /\ sift_up(t, i) = f[i].timers BY <1>1, <1>2, <1>5, RiseRounds
<1>7. f[i] = b BY <1>1, <1>4, <1>6 DEF Rises
<1> QED BY <1>2, <1>6, <1>7

-----------------------------------------------------------------------------
(* sift_down.                                                              *)

(* The heap is ordered but for the entry at i, which may have to sink.     *)
Sinking(t, i) ==
  /\ \A j \in 2 .. Len(t.heap) : j \div 2 # i => At(t, j \div 2) <= At(t, j)
  /\ \A j \in 2 .. Len(t.heap) : j \div 2 = i /\ i > 1 => At(t, i \div 2) <= At(t, j)
SinkingFrom(t) ==
  {x \in [timers : Queue, at : Nat] :
     /\ Shape(x.timers) /\ Keeps(t, x.timers)
     /\ x.at \in 1 .. Len(t.heap) /\ Sinking(x.timers, x.at)}

(* Which of an entry and its children is earliest.                         *)
Earliest(t, i) == Earlier(t, 2 * i + 1, Earlier(t, 2 * i, i))

(* It is the entry or a child, and no child is earlier.                    *)
LEMMA EarliestChild ==
  ASSUME NEW t, Shape(t), NEW i \in 1 .. Len(t.heap), NEW e, e = Earliest(t, i)
  PROVE  /\ e \in 1 .. Len(t.heap)
         /\ e = i \/ (e \div 2 = i /\ i < e /\ At(t, e) < At(t, i))
         /\ \A j \in 2 .. Len(t.heap) : j \div 2 = i => At(t, e) <= At(t, j)
<1>1. PICK n \in Nat : n = Len(t.heap) BY ShapeFacts, QueueFields
<1>2. \A k \in 1 .. n : At(t, k) \in Nat BY <1>1, ShapeFacts
<1>3. PICK c : c = Earlier(t, 2 * i, i) OBVIOUS
<1>4. i \in Nat /\ i \in 1 .. n BY <1>1
<1>5. /\ c \in 1 .. n /\ c \in {i, 2 * i} /\ At(t, c) <= At(t, i)
      /\ 2 * i <= n => At(t, c) <= At(t, 2 * i)
      /\ c # i => At(t, c) < At(t, i)
  <2>1. CASE 2 * i <= n /\ At(t, 2 * i) < At(t, i)
    <3>1. c = 2 * i BY <1>1, <1>3, <2>1 DEF Earlier, At, deadline_of
    <3>2. c \in 1 .. n BY <1>4, <2>1, <3>1
    <3> QED BY <1>2, <1>4, <2>1, <3>1, <3>2
  <2>2. CASE ~(2 * i <= n /\ At(t, 2 * i) < At(t, i))
    <3>1. c = i BY <1>1, <1>3, <2>2 DEF Earlier, At, deadline_of
    <3>2. ASSUME 2 * i <= n PROVE At(t, i) <= At(t, 2 * i)
      <4>1. 2 * i \in 1 .. n BY <1>4, <3>2
      <4>2. At(t, 2 * i) \in Nat /\ At(t, i) \in Nat BY <1>2, <1>4, <4>1
      <4> QED BY <2>2, <3>2, <4>2
    <3>3. At(t, i) <= At(t, i) BY <1>2, <1>4
    <3> QED BY <1>4, <3>1, <3>2, <3>3
  <2> QED BY <2>1, <2>2
<1>6. /\ e \in 1 .. n /\ e \in {c, 2 * i + 1} /\ At(t, e) <= At(t, c)
      /\ 2 * i + 1 <= n => At(t, e) <= At(t, 2 * i + 1)
      /\ e # c => At(t, e) < At(t, c)
  <2>1. CASE 2 * i + 1 <= n /\ At(t, 2 * i + 1) < At(t, c)
    <3>1. e = 2 * i + 1 BY <1>1, <1>3, <2>1 DEF Earliest, Earlier, At, deadline_of
    <3>2. e \in 1 .. n BY <1>4, <2>1, <3>1
    <3> QED BY <1>2, <1>5, <2>1, <3>1, <3>2
  <2>2. CASE ~(2 * i + 1 <= n /\ At(t, 2 * i + 1) < At(t, c))
    <3>1. e = c BY <1>1, <1>3, <2>2 DEF Earliest, Earlier, At, deadline_of
    <3>2. ASSUME 2 * i + 1 <= n PROVE At(t, c) <= At(t, 2 * i + 1)
      <4>1. 2 * i + 1 \in 1 .. n BY <1>4, <3>2
      <4>2. At(t, 2 * i + 1) \in Nat /\ At(t, c) \in Nat BY <1>2, <1>5, <4>1
      <4> QED BY <2>2, <3>2, <4>2
    <3>3. At(t, c) <= At(t, c) BY <1>2, <1>5
    <3> QED BY <1>5, <3>1, <3>2, <3>3
  <2> QED BY <2>1, <2>2
<1>7. At(t, e) \in Nat /\ At(t, c) \in Nat /\ At(t, i) \in Nat BY <1>2, <1>4, <1>5, <1>6
<1>8. e = i \/ (e \div 2 = i /\ i < e /\ At(t, e) < At(t, i))
  <2>1. CASE e = c
    <3>1. CASE c = i BY <2>1, <3>1
    <3>2. CASE c # i
      <4>1. c = 2 * i BY <1>5, <3>2
      <4>2. (2 * i) \div 2 = i /\ i < 2 * i BY <1>4
      <4> QED BY <1>5, <2>1, <3>2, <4>1, <4>2
    <3> QED BY <3>1, <3>2
  <2>2. CASE e # c
    <3>1. e = 2 * i + 1 BY <1>6, <2>2
    <3>2. (2 * i + 1) \div 2 = i /\ i < 2 * i + 1 BY <1>4
    <3>3. At(t, e) < At(t, i) BY <1>5, <1>6, <1>7, <2>2
    <3> QED BY <3>1, <3>2, <3>3
  <2> QED BY <2>1, <2>2
<1>9. ASSUME NEW j \in 2 .. n, j \div 2 = i PROVE At(t, e) <= At(t, j)
  <2>1. j \in Nat /\ j > 1 OBVIOUS
  <2>2. j = 2 * i \/ j = 2 * i + 1 BY <1>4, <1>9, <2>1, Half
  <2>3. At(t, j) \in Nat
    <3>1. j \in 1 .. n OBVIOUS
    <3> QED BY <1>2, <3>1
  <2>4. CASE j = 2 * i
    <3>1. At(t, c) <= At(t, j) BY <1>5, <2>4
    <3> QED BY <1>6, <1>7, <2>3, <3>1
  <2>5. CASE j = 2 * i + 1 BY <1>6, <2>5
  <2> QED BY <2>2, <2>4, <2>5
<1> QED BY <1>1, <1>6, <1>8, <1>9

(* An entry later than a child changes places with the earliest.           *)
LEMMA SinkingSwap ==
  ASSUME NEW t, Shape(t), NEW i \in 1 .. Len(t.heap), Sinking(t, i), NEW e \in 1 .. Len(t.heap),
         e \div 2 = i, i < e, At(t, e) < At(t, i),
         \A j \in 2 .. Len(t.heap) : j \div 2 = i => At(t, e) <= At(t, j),
         NEW u, Exchanged(t, u, i, e)
  PROVE  Shape(u) /\ Keeps(t, u) /\ Sinking(u, e)
<1>1. PICK n \in Nat : n = Len(t.heap) BY ShapeFacts, QueueFields
<1>2. i \in Nat /\ i \in 1 .. n /\ e \in Nat /\ e \in 1 .. n /\ e \in 2 .. n BY <1>1
<1>3. /\ Shape(u) /\ Keeps(t, u) /\ At(u, i) = At(t, e) /\ At(u, e) = At(t, i)
      /\ \A k \in 1 .. n : k # i /\ k # e => At(u, k) = At(t, k)
  BY <1>1, <1>2, SwapKeeps
<1>4. Len(u.heap) = n BY <1>1, <1>3 DEF Keeps
<1>5. \A k \in 1 .. n : At(t, k) \in Nat BY <1>1, ShapeFacts
<1>6. \A j \in 2 .. n : j \div 2 # i => At(t, j \div 2) <= At(t, j) BY <1>1 DEF Sinking
<1>7. \A j \in 2 .. n : j \div 2 = i /\ i > 1 => At(t, i \div 2) <= At(t, j) BY <1>1 DEF Sinking
<1>8. \A j \in 2 .. n : j \div 2 \in 1 .. n /\ j \div 2 < j /\ j \in 1 .. n BY Half
<1>9. ASSUME NEW j \in 2 .. n, j \div 2 # e PROVE At(u, j \div 2) <= At(u, j)
  <2>1. PICK q \in 1 .. n : q = j \div 2 /\ q < j BY <1>8
  <2>2. CASE j = e BY <1>2, <1>3, <1>5, <2>1, <2>2
  <2>3. CASE j # e /\ q = i
    <3>1. At(t, e) <= At(t, j) BY <1>1, <2>1, <2>3
    <3>2. j # i BY <2>1, <2>3
    <3>3. At(u, j) = At(t, j) BY <1>3, <1>8, <2>3, <3>2
    <3> QED BY <1>3, <2>1, <2>3, <3>1, <3>3
  <2>4. CASE j = i
    <3>1. At(t, q) <= At(t, e) BY <1>2, <1>7, <2>1, <2>4
    <3>2. q # i /\ q # e BY <1>2, <2>1, <2>4
    <3>3. At(u, q) = At(t, q) BY <1>3, <3>2
    <3> QED BY <1>3, <2>1, <2>4, <3>1, <3>3
  <2>5. CASE j # e /\ j # i /\ q # i
    <3>1. At(t, q) <= At(t, j) BY <1>6, <2>1, <2>5
    <3>2. At(u, j) = At(t, j) /\ At(u, q) = At(t, q) BY <1>3, <1>8, <1>9, <2>1, <2>5
    <3> QED BY <2>1, <3>1, <3>2
  <2> QED BY <2>2, <2>3, <2>4, <2>5
<1>10. ASSUME NEW j \in 2 .. n, j \div 2 = e, e > 1 PROVE At(u, e \div 2) <= At(u, j)
  <2>1. At(t, e) <= At(t, j) BY <1>2, <1>6, <1>10
  <2>2. j # e /\ j # i BY <1>2, <1>8, <1>10
  <2>3. At(u, j) = At(t, j) BY <1>3, <1>8, <2>2
  <2> QED BY <1>3, <2>1, <2>3
<1>11. Sinking(u, e) BY <1>4, <1>9, <1>10 DEF Sinking
<1> QED BY <1>3, <1>11

(* A round of sift_down: the entry is in its place, or one place lower.    *)
LEMMA SinkRound ==
  ASSUME NEW t, NEW x \in SinkingFrom(t)
  PROVE  /\ Sink(x) \in SinkingFrom(t)
         /\ (Sink(x) = x /\ Ordered(x.timers)) \/ x.at < Sink(x).at
<1>1. PICK c \in Queue : c = x.timers BY DEF SinkingFrom
<1>2. PICK i \in Nat : i = x.at BY DEF SinkingFrom
<1>3. Shape(c) /\ Keeps(t, c) /\ i \in 1 .. Len(t.heap) /\ Sinking(c, i)
  BY <1>1, <1>2 DEF SinkingFrom
<1>4. Len(c.heap) = Len(t.heap) BY <1>3 DEF Keeps
<1>5. PICK e : e = Earliest(c, i) OBVIOUS
<1>6. /\ e \in 1 .. Len(c.heap)
      /\ e = i \/ (e \div 2 = i /\ i < e /\ At(c, e) < At(c, i))
      /\ \A j \in 2 .. Len(c.heap) : j \div 2 = i => At(c, e) <= At(c, j)
  BY <1>3, <1>4, <1>5, EarliestChild
<1>7. CASE e = i
  <2>1. Sink(x) = x BY <1>1, <1>2, <1>5, <1>7 DEF Sink, Earliest
  <2>2. Ordered(c)
    <3>1. ASSUME NEW j \in 2 .. Len(c.heap) PROVE At(c, j \div 2) <= At(c, j)
      <4>1. CASE j \div 2 = i BY <1>6, <1>7, <4>1
      <4>2. CASE j \div 2 # i BY <1>3, <4>2 DEF Sinking
      <4> QED BY <4>1, <4>2
    <3> QED BY <3>1 DEF Ordered
  <2> QED BY <1>1, <2>1, <2>2
<1>8. CASE e # i
  <2>1. PICK u : u = Swap(c, i, e) OBVIOUS
  <2>2. Exchanged(c, u, i, e) BY <1>3, <1>4, <1>6, <1>8, <2>1, SwapParts
  <2>3. Shape(u) /\ Keeps(c, u) /\ Sinking(u, e) BY <1>3, <1>4, <1>6, <1>8, <2>2, SinkingSwap
  <2>4. Sink(x) = [timers |-> u, at |-> e] BY <1>1, <1>2, <1>5, <1>8, <2>1 DEF Sink, Earliest
  <2>5. u \in Queue /\ Keeps(t, u) BY <1>3, <2>3, KeepsOn DEF Shape
  <2>6. e \in Nat BY <1>6
  <2>7. Sink(x) \in SinkingFrom(t) BY <1>4, <1>6, <2>3, <2>4, <2>5, <2>6 DEF SinkingFrom
  <2> QED BY <1>2, <1>6, <1>8, <2>4, <2>7
<1> QED BY <1>7, <1>8

(* sift_down orders a heap with one entry too high.                        *)
LEMMA SiftDown ==
  ASSUME NEW t, Shape(t), NEW i \in 1 .. Len(t.heap), Sinking(t, i)
  PROVE  Shape(sift_down(t, i)) /\ Keeps(t, sift_down(t, i)) /\ Ordered(sift_down(t, i))
<1>1. PICK n \in Nat : n = Len(t.heap) BY ShapeFacts, QueueFields
<1>2. PICK b : b = [timers |-> t, at |-> i] OBVIOUS
<1>3. i \in Nat /\ i >= 1 /\ t \in Queue BY <1>1, ShapeFacts
<1>4. b \in SinkingFrom(t) BY <1>2, <1>3, KeepsSelf DEF SinkingFrom
<1>5. PICK f \in [0 .. n -> SinkingFrom(t)] :
        f[0] = b /\ (\A k \in 1 .. n : f[k] = Sink(f[k - 1])) /\ sift_down(t, i) = f[n].timers
  <2>1. PICK V : V = SinkingFrom(t) OBVIOUS
  <2>2. b \in V /\ \A x \in V : Sink(x) \in V BY <1>4, <2>1, SinkRound
  <2>3. PICK f : Sinks(V, b, n, f) /\ sift_down(t, i) = f[n].timers
    BY <1>1, <1>2, <1>3, <2>2, SinkRounds
  <2> QED BY <2>1, <2>3, Zenon DEF Sinks
<1> DEFINE S == {k \in 0 .. n : (Sink(f[k]) = f[k] /\ Ordered(f[k].timers)) \/ f[k].at >= i + k}
<1>6. 0 \in S BY <1>1, <1>2, <1>3, <1>5
<1>7. ASSUME NEW k \in 1 .. n, k - 1 \in S PROVE k \in S
  <2>1. f[k - 1] \in SinkingFrom(t) /\ f[k] \in SinkingFrom(t) /\ f[k] = Sink(f[k - 1])
    BY <1>1, <1>5
  <2>2. f[k - 1].at \in Nat /\ f[k].at \in Nat BY <2>1 DEF SinkingFrom
  <2>3. CASE Sink(f[k - 1]) = f[k - 1] /\ Ordered(f[k - 1].timers) BY <2>1, <2>3
  <2>4. CASE ~(Sink(f[k - 1]) = f[k - 1] /\ Ordered(f[k - 1].timers))
    <3>1. f[k - 1].at >= i + (k - 1) BY <1>7, <2>4
    <3>2. f[k - 1].at < f[k].at BY <2>1, <2>4, SinkRound
    <3>3. f[k].at >= i + k BY <1>1, <1>3, <2>2, <3>1, <3>2
    <3> QED BY <3>3
  <2> QED BY <2>3, <2>4
<1> HIDE DEF S
<1>8. \A k \in 0 .. n : k \in S BY <1>1, <1>6, <1>7, UpTo
<1>9. f[n] \in SinkingFrom(t) BY <1>1, <1>5
<1>10. Shape(f[n].timers) /\ Keeps(t, f[n].timers) /\ f[n].at \in 1 .. n
  BY <1>1, <1>9 DEF SinkingFrom
<1>11. Ordered(f[n].timers)
  <2>1. n \in S BY <1>1, <1>8
  <2>2. ~(f[n].at >= i + n) BY <1>1, <1>3, <1>10
  <2> QED BY <2>1, <2>2 DEF S
<1> QED BY <1>5, <1>10, <1>11

(* sift_down leaves an ordered heap alone.                                 *)
LEMMA SiftDownStays ==
  ASSUME NEW t, Shape(t), NEW i \in 1 .. Len(t.heap), Ordered(t)
  PROVE  sift_down(t, i) = t
<1>1. PICK n \in Nat : n = Len(t.heap) BY ShapeFacts, QueueFields
<1>2. PICK b : b = [timers |-> t, at |-> i] OBVIOUS
<1>3. i \in Nat /\ t \in Queue BY <1>1, ShapeFacts
<1>4. PICK e : e = Earliest(t, i) OBVIOUS
<1>5. e \in 1 .. n /\ (e = i \/ (e \div 2 = i /\ i < e /\ At(t, e) < At(t, i)))
  BY <1>1, <1>4, EarliestChild
<1>6. e = i
  <2>1. SUFFICES ASSUME e # i PROVE FALSE OBVIOUS
  <2>2. e \in 2 .. n BY <1>1, <1>3, <1>5, <2>1
  <2>3. At(t, i) <= At(t, e) BY <1>1, <1>5, <2>1, <2>2 DEF Ordered
  <2>4. At(t, i) \in Nat /\ At(t, e) \in Nat BY <1>1, <1>5, ShapeFacts
  <2> QED BY <1>5, <2>1, <2>3, <2>4
<1>7. Sink(b) = b BY <1>2, <1>4, <1>6 DEF Sink, Earliest
<1>8. PICK V : V = {b} OBVIOUS
<1>9. b \in V /\ \A x \in V : Sink(x) \in V BY <1>7, <1>8
<1>10. PICK f : Sinks(V, b, n, f) /\ sift_down(t, i) = f[n].timers
  BY <1>1, <1>2, <1>3, <1>9, SinkRounds
<1>11. f[n] = b BY <1>1, <1>8, <1>10 DEF Sinks
<1> QED BY <1>2, <1>10, <1>11

-----------------------------------------------------------------------------
(* take.                                                                   *)

(* An empty slot is typed as an entry.                                     *)
LEMMA VacantEntry == Vacant \in Entry /\ Vacant.sequence = 0
<1>1. PICK s \in Sleep : s = CHOOSE x \in Sleep : TRUE BY ClockAssumption
<1>2. PICK w \in Waker : w = CHOOSE x \in Waker : TRUE BY ClockAssumption
<1>3. Vacant = [deadline |-> 0, sleep |-> s, waker |-> w, position |-> 0, sequence |-> 0]
  BY <1>1, <1>2 DEF Vacant
<1> QED BY <1>3 DEF Entry

(* The last place of the heap cut off, and its slot freed.                 *)
Cut(m, slot) ==
  [m EXCEPT !.slots[slot] = Vacant, !.free = Append(@, slot),
            !.heap = SubSeq(@, 1, Len(m.heap) - 1)]

(* What is left keeps its shape.                                           *)
LEMMA CutKeeps ==
  ASSUME NEW m, Shape(m), NEW slot \in 1 .. Len(m.slots), NEW n \in Nat, n = Len(m.heap), n > 0,
         m.heap[n] = slot
  PROVE  /\ Shape(Cut(m, slot)) /\ Len(Cut(m, slot).heap) = n - 1
         /\ Len(Cut(m, slot).slots) = Len(m.slots)
         /\ Cut(m, slot).next_sequence = m.next_sequence /\ Cut(m, slot).slots[slot].sequence = 0
         /\ \A k \in 1 .. Len(m.slots) : k # slot => Alike(m.slots[k], Cut(m, slot).slots[k])
         /\ \A k \in 1 .. n - 1 : At(Cut(m, slot), k) = At(m, k)
<1>1. PICK s \in Seq(Entry) : s = m.slots BY ShapeFacts, QueueFields
<1>2. PICK h \in Seq(Nat) : h = m.heap BY ShapeFacts, QueueFields
<1>3. PICK r \in Seq(Nat) : r = m.free BY ShapeFacts, QueueFields
<1>4. slot \in Nat /\ slot \in 1 .. Len(s) BY <1>1
<1>5. PICK v : v = [s EXCEPT ![slot] = Vacant] OBVIOUS
<1>6. /\ v \in Seq(Entry) /\ Len(v) = Len(s) /\ v[slot] = Vacant
      /\ \A k \in 1 .. Len(s) : k # slot => v[k] = s[k]
  BY <1>4, <1>5, VacantEntry
<1>7. PICK g : g = SubSeq(h, 1, n - 1) OBVIOUS
<1>8. g \in Seq(Nat) /\ Len(g) = n - 1 /\ \A k \in 1 .. n - 1 : g[k] = h[k] BY <1>2, <1>7
<1>9. PICK q : q = Append(r, slot) OBVIOUS
<1>10. /\ q \in Seq(Nat) /\ Len(q) = Len(r) + 1 /\ q[Len(r) + 1] = slot
       /\ \A k \in 1 .. Len(r) : q[k] = r[k]
  BY <1>4, <1>9
<1>11. PICK c : c = Cut(m, slot) OBVIOUS
<1>12. m \in Queue BY ShapeFacts
<1>13. c = [m EXCEPT !.slots = v, !.free = q, !.heap = g]
  BY <1>1, <1>2, <1>3, <1>5, <1>7, <1>9, <1>11, <1>12 DEF Cut, Queue
<1>14. /\ c \in Queue /\ c.slots = v /\ c.free = q /\ c.heap = g
       /\ c.next_sequence = m.next_sequence
  BY <1>6, <1>8, <1>10, <1>12, <1>13 DEF Queue
<1>15. \A k \in 1 .. n : /\ h[k] \in 1 .. Len(s) /\ s[h[k]].position = k /\ s[h[k]].sequence # 0
                         /\ h[k] = slot => k = n
  BY <1>1, <1>2, ShapeFacts
<1>16. \A k \in 1 .. n - 1 : g[k] = h[k] /\ v[h[k]] = s[h[k]]
  <2>1. ASSUME NEW k \in 1 .. n - 1 PROVE g[k] = h[k] /\ v[h[k]] = s[h[k]]
    <3>1. k \in 1 .. n /\ k # n OBVIOUS
    <3> QED BY <1>6, <1>8, <1>15, <3>1
  <2> QED BY <2>1
<1>17. \A k \in 1 .. n - 1 :
         g[k] \in 1 .. Len(v) /\ v[g[k]].position = k /\ v[g[k]].sequence # 0
  <2>1. ASSUME NEW k \in 1 .. n - 1
        PROVE  g[k] \in 1 .. Len(v) /\ v[g[k]].position = k /\ v[g[k]].sequence # 0
    <3>1. k \in 1 .. n OBVIOUS
    <3>2. g[k] = h[k] /\ v[g[k]] = s[h[k]] BY <1>16
    <3>3. h[k] \in 1 .. Len(s) /\ s[h[k]].position = k /\ s[h[k]].sequence # 0 BY <1>15, <3>1
    <3> QED BY <1>6, <3>2, <3>3
  <2> QED BY <2>1
<1>18. ASSUME NEW k \in 1 .. Len(v), v[k].sequence # 0
       PROVE  /\ v[k].position \in 1 .. n - 1 /\ g[v[k].position] = k
              /\ v[k].sequence < m.next_sequence
  <2>1. k # slot /\ k \in 1 .. Len(s) BY <1>6, <1>18, VacantEntry
  <2>2. v[k] = s[k] BY <1>6, <2>1
  <2>3. s[k].position \in 1 .. n /\ h[s[k].position] = k /\ s[k].sequence < m.next_sequence
    BY <1>1, <1>2, <1>18, <2>1, <2>2 DEF Shape
  <2>4. s[k].position # n BY <1>2, <2>1, <2>3
  <2>5. s[k].position \in 1 .. n - 1 BY <2>3, <2>4
  <2> QED BY <1>8, <2>2, <2>3, <2>5
<1>19. \A k \in 1 .. Len(r) : r[k] \in 1 .. Len(s) /\ s[r[k]].sequence = 0
  BY <1>1, <1>3 DEF Shape
<1>20. s[slot].sequence # 0
  <2>1. n \in 1 .. n OBVIOUS
  <2> QED BY <1>2, <1>15, <2>1
<1>21. \A k \in 1 .. Len(q) : q[k] \in 1 .. Len(v) /\ v[q[k]].sequence = 0
  <2>1. ASSUME NEW k \in 1 .. Len(q) PROVE q[k] \in 1 .. Len(v) /\ v[q[k]].sequence = 0
    <3>1. CASE k = Len(r) + 1 BY <1>4, <1>6, <1>10, <3>1, VacantEntry
    <3>2. CASE k # Len(r) + 1
      <4>1. k \in 1 .. Len(r) BY <1>10, <3>2
      <4>2. q[k] = r[k] /\ r[k] \in 1 .. Len(s) /\ s[r[k]].sequence = 0 BY <1>10, <1>19, <4>1
      <4>3. r[k] # slot BY <1>20, <4>2
      <4> QED BY <1>6, <4>2, <4>3
    <3> QED BY <3>1, <3>2
  <2> QED BY <2>1
<1>22. \A j, k \in 1 .. Len(q) : q[j] = q[k] => j = k
  <2>1. ASSUME NEW j \in 1 .. Len(q), NEW k \in 1 .. Len(q), q[j] = q[k] PROVE j = k
    <3>1. \A l \in 1 .. Len(q) : l = Len(r) + 1 \/ (l \in 1 .. Len(r) /\ q[l] = r[l] /\ r[l] # slot)
      <4>1. ASSUME NEW l \in 1 .. Len(q), l # Len(r) + 1
            PROVE  l \in 1 .. Len(r) /\ q[l] = r[l] /\ r[l] # slot
        <5>1. l \in 1 .. Len(r) BY <1>10, <4>1
        <5>2. s[r[l]].sequence = 0 BY <1>19, <5>1
        <5>3. r[l] # slot BY <1>20, <5>2
        <5> QED BY <1>10, <5>1, <5>3
      <4> QED BY <4>1
    <3>2. CASE j = Len(r) + 1 BY <1>10, <2>1, <3>1, <3>2
    <3>3. CASE k = Len(r) + 1 BY <1>10, <2>1, <3>1, <3>3
    <3>4. CASE j # Len(r) + 1 /\ k # Len(r) + 1
      <4>1. j \in 1 .. Len(r) /\ k \in 1 .. Len(r) /\ r[j] = r[k] BY <2>1, <3>1, <3>4
      <4> QED BY <1>3, <4>1 DEF Shape
    <3> QED BY <3>2, <3>3, <3>4
  <2> QED BY <2>1
<1>23. Shape(c)
  <2>1. m.next_sequence # 0 BY DEF Shape
  <2> QED BY <1>8, <1>14, <1>17, <1>18, <1>21, <1>22, <2>1 DEF Shape
<1>24. \A k \in 1 .. n - 1 : At(c, k) = At(m, k)
  BY <1>1, <1>2, <1>14, <1>16 DEF At
<1>25. \A k \in 1 .. Len(m.slots) : k # slot => Alike(m.slots[k], c.slots[k])
  BY <1>1, <1>6, <1>14 DEF Alike
<1> QED BY <1>1, <1>6, <1>8, <1>11, <1>14, <1>23, <1>24, <1>25, VacantEntry

(* A slot freed, and every other entry kept.                               *)
Removed(t, r, slot) ==
  /\ Shape(r) /\ Ordered(r) /\ Len(r.heap) = Len(t.heap) - 1 /\ Len(r.slots) = Len(t.slots)
  /\ r.next_sequence = t.next_sequence /\ r.slots[slot].sequence = 0
  /\ \A k \in 1 .. Len(t.slots) : k # slot => Alike(t.slots[k], r.slots[k])

(* The last entry in a hole at p rises or sinks to its place.              *)
LEMMA Refilled ==
  ASSUME NEW c, Shape(c), NEW p \in 1 .. Len(c.heap),
         \A j \in 2 .. Len(c.heap) : j # p /\ j \div 2 # p => At(c, j \div 2) <= At(c, j),
         \A j \in 2 .. Len(c.heap) : j \div 2 = p /\ p > 1 => At(c, p \div 2) <= At(c, j)
  PROVE  /\ Shape(sift_down(sift_up(c, p), p)) /\ Ordered(sift_down(sift_up(c, p), p))
         /\ Keeps(c, sift_down(sift_up(c, p), p))
<1>1. PICK n \in Nat : n = Len(c.heap) BY ShapeFacts, QueueFields
<1>2. p \in Nat /\ p \in 1 .. n BY <1>1
<1>3. \A k \in 1 .. n : At(c, k) \in Nat BY <1>1, ShapeFacts
<1>4. CASE p > 1 /\ At(c, p) < At(c, p \div 2)
  <2>1. p \div 2 \in 1 .. n BY <1>2, <1>4, Half
  <2>2. ASSUME NEW j \in 2 .. n, j # p PROVE At(c, j \div 2) <= At(c, j)
    <3>1. CASE j \div 2 = p
      <4>1. At(c, p \div 2) <= At(c, j) BY <1>1, <1>4, <3>1
      <4>2. j \in 1 .. n OBVIOUS
      <4>3. At(c, j) \in Nat /\ At(c, p) \in Nat /\ At(c, p \div 2) \in Nat
        BY <1>2, <1>3, <2>1, <4>2
      <4> QED BY <1>4, <3>1, <4>1, <4>3
    <3>2. CASE j \div 2 # p BY <1>1, <2>2, <3>2
    <3> QED BY <3>1, <3>2
  <2>3. Rising(c, p) BY <1>1, <2>2 DEF Rising
  <2>4. PICK u : u = sift_up(c, p) OBVIOUS
  <2>5. Shape(u) /\ Keeps(c, u) /\ Ordered(u) BY <2>3, <2>4, SiftUp
  <2>6. p \in 1 .. Len(u.heap) BY <2>5 DEF Keeps
  <2>7. sift_down(u, p) = u BY <2>5, <2>6, SiftDownStays
  <2> QED BY <2>4, <2>5, <2>7
<1>5. CASE ~(p > 1 /\ At(c, p) < At(c, p \div 2))
  <2>1. p <= 1 \/ (At(c, p) >= At(c, p \div 2) /\ At(c, p \div 2) <= At(c, p))
    <3>1. CASE p > 1
      <4>1. p \div 2 \in 1 .. n BY <1>2, <3>1, Half
      <4>2. At(c, p) \in Nat /\ At(c, p \div 2) \in Nat BY <1>2, <1>3, <4>1
      <4> QED BY <1>5, <3>1, <4>2
    <3> QED BY <1>2, <3>1
  <2>2. sift_up(c, p) = c BY <2>1, SiftUpStays
  <2>3. ASSUME NEW j \in 2 .. n, j \div 2 # p PROVE At(c, j \div 2) <= At(c, j)
    <3>1. CASE j = p BY <1>2, <2>1, <3>1
    <3>2. CASE j # p BY <1>1, <2>3, <3>2
    <3> QED BY <3>1, <3>2
  <2>4. Sinking(c, p) BY <1>1, <2>3 DEF Sinking
  <2> QED BY <2>2, <2>4, SiftDown
<1> QED BY <1>4, <1>5

(* take frees a slot of the heap and keeps the heap ordered.               *)
LEMMA TakeRemoves ==
  ASSUME NEW t, Shape(t), Ordered(t), NEW slot \in 1 .. Len(t.slots), t.slots[slot].sequence # 0
  PROVE  Removed(t, take(t, slot), slot)
<1>1. PICK n \in Nat : n = Len(t.heap) BY ShapeFacts, QueueFields
<1>2. PICK p \in 1 .. n : p = t.slots[slot].position /\ t.heap[p] = slot BY <1>1 DEF Shape
<1>3. PICK m : m = IF p # n THEN Swap(t, p, n) ELSE t OBVIOUS
<1>4. p \in Nat /\ n > 0 /\ n \in 1 .. n BY <1>2
<1>5. /\ Shape(m) /\ Keeps(t, m) /\ m.heap[n] = slot
      /\ \A k \in 1 .. n : k # p /\ k # n => At(m, k) = At(t, k)
      /\ At(m, p) = At(t, n)
  <2>1. CASE p = n
    <3>1. m = t BY <1>3, <2>1
    <3> QED BY <1>2, <2>1, <3>1, KeepsSelf
  <2>2. CASE p # n
    <3>1. m = Swap(t, p, n) BY <1>3, <2>2
    <3>2. Exchanged(t, m, p, n) BY <1>1, <1>2, <1>4, <2>2, <3>1, SwapParts
    <3>3. m.heap[n] = slot BY <1>2, <3>2 DEF Exchanged
    <3> QED BY <1>1, <1>2, <1>4, <2>2, <3>2, <3>3, SwapKeeps
  <2> QED BY <2>1, <2>2
<1>6. Len(m.heap) = n /\ Len(m.slots) = Len(t.slots) /\ m.next_sequence = t.next_sequence
  BY <1>1, <1>5 DEF Keeps
<1>7. PICK c : c = Cut(m, slot) OBVIOUS
<1>8. /\ Shape(c) /\ Len(c.heap) = n - 1 /\ Len(c.slots) = Len(m.slots)
      /\ c.next_sequence = m.next_sequence /\ c.slots[slot].sequence = 0
      /\ \A k \in 1 .. Len(m.slots) : k # slot => Alike(m.slots[k], c.slots[k])
      /\ \A k \in 1 .. n - 1 : At(c, k) = At(m, k)
  BY <1>4, <1>5, <1>6, <1>7, CutKeeps
<1>9. take(t, slot) = IF p < n THEN sift_down(sift_up(c, p), p) ELSE c
  BY <1>1, <1>2, <1>3, <1>6, <1>7 DEF take, Cut
<1>10. \A k \in 1 .. Len(t.slots) : k # slot => Alike(t.slots[k], c.slots[k])
  <2>1. \A k \in 1 .. Len(t.slots) : Alike(t.slots[k], m.slots[k]) BY <1>5 DEF Keeps
  <2> QED BY <1>6, <1>8, <2>1 DEF Alike
<1>11. \A k \in 1 .. n - 1 : k # p => At(c, k) = At(t, k) BY <1>1, <1>5, <1>8
<1>12. \A j \in 2 .. n - 1 : /\ j \div 2 \in 1 .. n - 1 /\ j \div 2 < j /\ j \in 1 .. n - 1
                             /\ At(t, j \div 2) <= At(t, j)
  BY <1>1, Half DEF Ordered
<1>13. \A j \in 2 .. n - 1 : j # p /\ j \div 2 # p => At(c, j \div 2) <= At(c, j)
  <2>1. ASSUME NEW j \in 2 .. n - 1, j # p, j \div 2 # p PROVE At(c, j \div 2) <= At(c, j)
    <3>1. PICK q \in 1 .. n - 1 : q = j \div 2 BY <1>12
    <3>2. At(c, q) = At(t, q) /\ At(c, j) = At(t, j) BY <1>11, <1>12, <2>1, <3>1
    <3> QED BY <1>12, <3>1, <3>2
  <2> QED BY <2>1
<1>14. CASE p = n
  <2>1. take(t, slot) = c BY <1>4, <1>9, <1>14
  <2>2. Ordered(c)
    <3>1. ASSUME NEW j \in 2 .. n - 1 PROVE At(c, j \div 2) <= At(c, j)
      <4>1. j # p /\ j \div 2 # p BY <1>4, <1>12, <1>14
      <4> QED BY <1>13, <4>1
    <3> QED BY <1>8, <3>1 DEF Ordered
  <2> QED BY <1>1, <1>6, <1>8, <1>10, <2>1, <2>2 DEF Removed
<1>15. CASE p # n
  <2>1. p < n /\ p \in 1 .. n - 1 BY <1>2, <1>15
  <2>2. ASSUME NEW j \in 2 .. n - 1, j \div 2 = p, p > 1 PROVE At(c, p \div 2) <= At(c, j)
    <3>1. p \in 2 .. n - 1 BY <1>4, <2>1, <2>2
    <3>2. PICK q \in 1 .. n - 1 : q = p \div 2 /\ q < p /\ At(t, q) <= At(t, p) BY <1>12, <3>1
    <3>3. At(t, p) <= At(t, j) /\ j # p BY <1>12, <2>2
    <3>4. At(c, q) = At(t, q) /\ At(c, j) = At(t, j) BY <1>11, <1>12, <3>2, <3>3
    <3>5. j \in 1 .. n /\ q \in 1 .. n OBVIOUS
    <3>6. At(t, q) \in Nat /\ At(t, p) \in Nat /\ At(t, j) \in Nat BY <1>1, <3>5, ShapeFacts
    <3>7. At(c, q) <= At(c, j) BY <3>2, <3>3, <3>4, <3>6
    <3> QED BY <3>2, <3>7
  <2>3. PICK r : r = sift_down(sift_up(c, p), p) OBVIOUS
  <2>4. Shape(r) /\ Ordered(r) /\ Keeps(c, r) BY <1>8, <1>13, <2>1, <2>2, <2>3, Refilled
  <2>5. take(t, slot) = r BY <1>9, <2>1, <2>3
  <2>6. /\ Len(r.heap) = n - 1 /\ Len(r.slots) = Len(t.slots) /\ r.next_sequence = t.next_sequence
        /\ \A k \in 1 .. Len(t.slots) : Alike(c.slots[k], r.slots[k])
    BY <1>6, <1>8, <2>4 DEF Keeps
  <2>7. r.slots[slot].sequence = 0 BY <1>8, <2>6 DEF Alike
  <2>8. \A k \in 1 .. Len(t.slots) : k # slot => Alike(t.slots[k], r.slots[k])
    BY <1>10, <2>6 DEF Alike
  <2> QED BY <1>1, <2>4, <2>5, <2>6, <2>7, <2>8 DEF Removed
<1> QED BY <1>14, <1>15

-----------------------------------------------------------------------------
(* insert.                                                                 *)

(* A slot taken for an entry, and every other entry kept.                  *)
Added(t, r, slot, s, d, w) ==
  /\ Shape(r) /\ Ordered(r) /\ r.next_sequence = t.next_sequence + 1
  /\ slot \in 1 .. Len(r.slots) /\ Len(t.slots) <= Len(r.slots)
  /\ slot \in 1 .. Len(t.slots) => t.slots[slot].sequence = 0
  /\ \A k \in 1 .. Len(r.slots) : k # slot =>
       k \in 1 .. Len(t.slots) /\ Alike(t.slots[k], r.slots[k])
  /\ r.slots[slot].deadline = d /\ r.slots[slot].sleep = s /\ r.slots[slot].waker = w
  /\ r.slots[slot].sequence = t.next_sequence

(* The slots, the free ones and the slot that insert takes.                *)
Room(t, slot, v, q) ==
  /\ v \in Seq(Entry) /\ slot \in 1 .. Len(v) /\ Len(t.slots) <= Len(v)
  /\ slot \in 1 .. Len(t.slots) => t.slots[slot].sequence = 0
  /\ \A k \in 1 .. Len(v) : k # slot => k \in 1 .. Len(t.slots) /\ v[k] = t.slots[k]
  /\ q \in Seq(Nat)
  /\ \A k \in 1 .. Len(q) : k \in 1 .. Len(t.free) /\ q[k] = t.free[k] /\ q[k] # slot

(* insert finds room in a free slot, or in one more.                       *)
LEMMA RoomMade ==
  ASSUME NEW t, Shape(t)
  PROVE  Room(t, IF t.free # <<>> THEN t.free[Len(t.free)] ELSE Len(t.slots) + 1,
                 IF t.free # <<>> THEN t.slots ELSE Append(t.slots, Vacant),
                 IF t.free # <<>> THEN SubSeq(t.free, 1, Len(t.free) - 1) ELSE <<>>)
<1>1. PICK s \in Seq(Entry) : s = t.slots BY ShapeFacts, QueueFields
<1>2. PICK r \in Seq(Nat) : r = t.free BY ShapeFacts, QueueFields
<1>3. CASE r # <<>>
  <2>1. PICK n \in Nat : n = Len(r) /\ n \in 1 .. Len(r) /\ n > 0 BY <1>3
  <2>2. PICK a : a = r[n] OBVIOUS
  <2>3. a \in 1 .. Len(s) /\ s[a].sequence = 0 BY <1>1, <1>2, <2>1, <2>2 DEF Shape
  <2>4. PICK q : q = SubSeq(r, 1, n - 1) OBVIOUS
  <2>5. q \in Seq(Nat) /\ Len(q) = n - 1 /\ \A k \in 1 .. n - 1 : q[k] = r[k] BY <2>1, <2>4
  <2>6. ASSUME NEW k \in 1 .. Len(q) PROVE k \in 1 .. Len(r) /\ q[k] = r[k] /\ q[k] # a
    <3>1. k \in 1 .. n - 1 /\ k \in 1 .. Len(r) /\ k # n BY <2>1, <2>5
    <3>2. r[k] # r[n] BY <1>2, <2>1, <3>1 DEF Shape
    <3> QED BY <2>2, <2>5, <3>1, <3>2
  <2>7. Room(t, a, s, q) BY <1>1, <1>2, <2>3, <2>5, <2>6 DEF Room
  <2> QED BY <1>1, <1>2, <1>3, <2>1, <2>2, <2>4, <2>7
<1>4. CASE r = <<>>
  <2>1. PICK m \in Nat : m = Len(s) BY <1>1
  <2>2. PICK v : v = Append(s, Vacant) OBVIOUS
  <2>3. v \in Seq(Entry) /\ Len(v) = m + 1 /\ \A k \in 1 .. m : v[k] = s[k]
    BY <2>1, <2>2, VacantEntry
  <2>4. ~(m + 1 \in 1 .. m) /\ m + 1 \in 1 .. m + 1 BY <2>1
  <2>5. \A k \in 1 .. m + 1 : k # m + 1 => k \in 1 .. m BY <2>1
  <2>6. <<>> \in Seq(Nat) /\ \A k \in 1 .. Len(<<>>) : FALSE OBVIOUS
  <2>7. Room(t, m + 1, v, <<>>) BY <1>1, <2>1, <2>3, <2>4, <2>5, <2>6 DEF Room
  <2> QED BY <1>1, <1>2, <1>4, <2>1, <2>2, <2>7
<1> QED BY <1>3, <1>4

(* insert puts an entry into a slot that held none, and keeps the heap     *)
(* ordered.                                                                *)
LEMMA InsertAdds ==
  ASSUME NEW t, Shape(t), Ordered(t), NEW s \in Sleep, NEW d \in Nat, NEW w \in Waker
  PROVE  /\ Added(t, insert(t, s, d, w).timers, insert(t, s, d, w).key.slot, s, d, w)
         /\ insert(t, s, d, w).key.sequence = t.next_sequence
         /\ insert(t, s, d, w).key \in Key
<1>1. PICK n \in Nat : n = Len(t.heap) BY ShapeFacts, QueueFields
<1>2. PICK slot : slot = IF t.free # <<>> THEN t.free[Len(t.free)] ELSE Len(t.slots) + 1 OBVIOUS
<1>3. PICK v : v = IF t.free # <<>> THEN t.slots ELSE Append(t.slots, Vacant) OBVIOUS
<1>4. PICK q : q = IF t.free # <<>> THEN SubSeq(t.free, 1, Len(t.free) - 1) ELSE <<>> OBVIOUS
<1>5. Room(t, slot, v, q) BY <1>2, <1>3, <1>4, RoomMade
<1>6. PICK c \in Nat : c = t.next_sequence BY ShapeFacts, QueueFields
<1>7. PICK h \in Seq(Nat) : h = t.heap BY ShapeFacts, QueueFields
<1>8. PICK e : e = [deadline |-> d, sleep |-> s, waker |-> w, position |-> n + 1, sequence |-> c]
  OBVIOUS
<1>9. e \in Entry BY <1>1, <1>6, <1>8 DEF Entry
<1>10. /\ v \in Seq(Entry) /\ slot \in 1 .. Len(v) /\ Len(t.slots) <= Len(v)
       /\ slot \in 1 .. Len(t.slots) => t.slots[slot].sequence = 0
       /\ \A k \in 1 .. Len(v) : k # slot => k \in 1 .. Len(t.slots) /\ v[k] = t.slots[k]
  BY <1>5 DEF Room
<1>11. PICK x : x = [v EXCEPT ![slot] = e] OBVIOUS
<1>12. /\ x \in Seq(Entry) /\ Len(x) = Len(v) /\ x[slot] = e
       /\ \A k \in 1 .. Len(v) : k # slot => x[k] = v[k]
  BY <1>9, <1>10, <1>11
<1>13. PICK g : g = Append(h, slot) OBVIOUS
<1>14. slot \in Nat BY <1>10
<1>15. g \in Seq(Nat) /\ Len(g) = n + 1 /\ g[n + 1] = slot /\ \A k \in 1 .. n : g[k] = h[k]
  BY <1>1, <1>7, <1>13, <1>14
<1>16. PICK p : p = [slots |-> x, free |-> q, heap |-> g, next_sequence |-> c + 1] OBVIOUS
<1>17. p \in Queue /\ p.slots = x /\ p.free = q /\ p.heap = g /\ p.next_sequence = c + 1
  BY <1>5, <1>6, <1>12, <1>15, <1>16 DEF Queue, Room
<1>18. insert(t, s, d, w) = [timers |-> sift_up(p, n + 1), key |-> [slot |-> slot, sequence |-> c]]
  <2>1. insert(t, s, d, w) =
          [timers |-> sift_up(p, Len(p.heap)), key |-> [slot |-> slot, sequence |-> c]]
    BY <1>1, <1>2, <1>3, <1>4, <1>6, <1>7, <1>8, <1>11, <1>13, <1>16, Zenon DEF insert
  <2> QED BY <1>15, <1>17, <2>1
<1>19. c # 0 /\ Len(t.slots) \in Nat /\ Len(v) \in Nat
  BY <1>6, <1>10, ShapeFacts, QueueFields DEF Shape
<1>20. \A k \in 1 .. n : h[k] \in 1 .. Len(t.slots) /\ t.slots[h[k]].position = k
                         /\ t.slots[h[k]].sequence # 0
  BY <1>1, <1>7 DEF Shape
<1>21. \A k \in 1 .. n : /\ h[k] \in 1 .. Len(x) /\ h[k] # slot /\ g[k] = h[k]
                         /\ x[h[k]] = t.slots[h[k]]
  <2>1. ASSUME NEW k \in 1 .. n
        PROVE  /\ h[k] \in 1 .. Len(x) /\ h[k] # slot /\ g[k] = h[k]
               /\ x[h[k]] = t.slots[h[k]]
    <3>1. h[k] \in 1 .. Len(t.slots) /\ t.slots[h[k]].sequence # 0 BY <1>20
    <3>2. h[k] # slot BY <1>10, <3>1
    <3>3. h[k] \in 1 .. Len(v) BY <1>10, <1>19, <3>1
    <3> QED BY <1>10, <1>12, <1>15, <3>2, <3>3
  <2> QED BY <2>1
<1>22. ASSUME NEW k \in 1 .. n + 1
       PROVE  g[k] \in 1 .. Len(x) /\ x[g[k]].position = k /\ x[g[k]].sequence # 0
  <2>1. CASE k = n + 1 BY <1>8, <1>10, <1>12, <1>15, <1>19, <2>1
  <2>2. CASE k # n + 1
    <3>1. k \in 1 .. n BY <1>1, <2>2
    <3>2. g[k] = h[k] /\ h[k] \in 1 .. Len(x) /\ x[g[k]] = t.slots[h[k]] BY <1>21, <3>1
    <3> QED BY <1>20, <3>1, <3>2
  <2> QED BY <2>1, <2>2
<1>23. ASSUME NEW k \in 1 .. Len(x), x[k].sequence # 0
       PROVE  /\ x[k].position \in 1 .. n + 1 /\ g[x[k].position] = k
              /\ x[k].sequence < c + 1
  <2>1. CASE k = slot BY <1>1, <1>6, <1>8, <1>12, <1>15, <2>1
  <2>2. CASE k # slot
    <3>1. k \in 1 .. Len(t.slots) /\ x[k] = t.slots[k] BY <1>10, <1>12, <2>2
    <3>2. PICK l \in 1 .. n : l = t.slots[k].position /\ h[l] = k /\ t.slots[k].sequence < c
      BY <1>1, <1>6, <1>7, <1>23, <3>1 DEF Shape
    <3>3. g[l] = k /\ l \in 1 .. n + 1 BY <1>15, <3>2
    <3>4. t.slots[k].sequence \in Nat BY <1>12, <3>1, EntryFields
    <3> QED BY <1>6, <3>1, <3>2, <3>3, <3>4
  <2> QED BY <2>1, <2>2
<1>24. \A k \in 1 .. Len(q) : k \in 1 .. Len(t.free) /\ q[k] = t.free[k] /\ q[k] # slot
  BY <1>5 DEF Room
<1>25. ASSUME NEW k \in 1 .. Len(q) PROVE q[k] \in 1 .. Len(x) /\ x[q[k]].sequence = 0
  <2>1. q[k] \in 1 .. Len(t.slots) /\ t.slots[q[k]].sequence = 0 BY <1>24 DEF Shape
  <2>2. q[k] \in 1 .. Len(v) BY <1>10, <1>19, <2>1
  <2> QED BY <1>10, <1>12, <1>24, <2>1, <2>2
<1>26. \A j, k \in 1 .. Len(q) : q[j] = q[k] => j = k BY <1>24 DEF Shape
<1>27. Shape(p)
  <2>1. c + 1 # 0 BY <1>6
  <2> QED BY <1>15, <1>17, <1>22, <1>23, <1>25, <1>26, <2>1 DEF Shape
<1>28. \A k \in 1 .. n : At(p, k) = At(t, k) BY <1>7, <1>17, <1>21 DEF At
<1>29. Rising(p, n + 1)
  <2>1. ASSUME NEW j \in 2 .. n + 1 PROVE j \div 2 \in 1 .. n /\ j \div 2 < j
    BY <1>1, Half
  <2>2. ASSUME NEW j \in 2 .. n + 1, j # n + 1 PROVE At(p, j \div 2) <= At(p, j)
    <3>1. j \in 2 .. n /\ j \in 1 .. n BY <1>1, <2>2
    <3>2. At(t, j \div 2) <= At(t, j) BY <1>1, <3>1 DEF Ordered
    <3> QED BY <1>28, <2>1, <3>1, <3>2
  <2>3. ASSUME NEW j \in 2 .. n + 1, j \div 2 = n + 1 PROVE FALSE BY <1>1, <2>1, <2>3
  <2> QED BY <1>15, <1>17, <2>2, <2>3 DEF Rising
<1>30. PICK r : r = sift_up(p, n + 1) OBVIOUS
<1>31. n + 1 \in 1 .. Len(p.heap) BY <1>1, <1>15, <1>17
<1>32. Shape(r) /\ Keeps(p, r) /\ Ordered(r) BY <1>27, <1>29, <1>30, <1>31, SiftUp
<1>33. /\ r.next_sequence = c + 1 /\ Len(r.slots) = Len(v)
       /\ \A k \in 1 .. Len(v) : Alike(x[k], r.slots[k])
  BY <1>12, <1>17, <1>32 DEF Keeps
<1>34. \A k \in 1 .. Len(v) : k # slot => k \in 1 .. Len(t.slots) /\ Alike(t.slots[k], r.slots[k])
  BY <1>10, <1>12, <1>33
<1>35. Alike(e, r.slots[slot]) BY <1>10, <1>12, <1>33
<1>36. Added(t, r, slot, s, d, w)
  BY <1>6, <1>8, <1>10, <1>32, <1>33, <1>34, <1>35 DEF Added, Alike
<1>37. insert(t, s, d, w).timers = r /\ insert(t, s, d, w).key = [slot |-> slot, sequence |-> c]
  BY <1>18, <1>30
<1> QED BY <1>6, <1>14, <1>36, <1>37 DEF Key

-----------------------------------------------------------------------------
(* fire.                                                                   *)

(* The root of an ordered heap is the earliest.                            *)
LEMMA RootLeast ==
  ASSUME NEW t, Shape(t), Ordered(t)
  PROVE  \A i \in 1 .. Len(t.heap) : At(t, 1) <= At(t, i)
<1>1. PICK n \in Nat : n = Len(t.heap) BY ShapeFacts, QueueFields
<1>2. \A i \in 1 .. n : At(t, i) \in Nat BY <1>1, ShapeFacts
<1>3. PICK T : T = {i \in 1 .. n : ~(At(t, 1) <= At(t, i))} OBVIOUS
<1>4. T = {}
  <2>1. SUFFICES ASSUME T # {} PROVE FALSE OBVIOUS
  <2>2. T \in SUBSET Nat BY <1>3
  <2>3. PICK m \in T : \A k \in T : m <= k BY <2>1, <2>2, LeastNat, Zenon
  <2>4. m \in 1 .. n /\ ~(At(t, 1) <= At(t, m)) BY <1>3, <2>3
  <2>5. m > 1
    <3>1. 1 \in 1 .. n BY <2>4
    <3>2. At(t, 1) <= At(t, 1) BY <1>2, <3>1
    <3> QED BY <2>4, <3>2
  <2>6. PICK p \in 1 .. n : p = m \div 2 /\ p < m BY <2>4, <2>5, Half
  <2>7. m \in 2 .. n BY <2>4, <2>5
  <2>8. At(t, p) <= At(t, m) BY <1>1, <2>6, <2>7 DEF Ordered
  <2>9. ~(p \in T) BY <2>3, <2>4, <2>6
  <2>10. At(t, 1) <= At(t, p) BY <1>3, <2>9
  <2>11. 1 \in 1 .. n BY <2>4
  <2>12. At(t, 1) \in Nat /\ At(t, p) \in Nat /\ At(t, m) \in Nat BY <1>2, <2>4, <2>11
  <2> QED BY <2>4, <2>8, <2>10, <2>12
<1> QED BY <1>1, <1>3, <1>4

(* What fire has done to the clock t so far: u is left, and the wakes made.*)
Went(t, u, k) == t.slots[k].sequence # 0 /\ u.slots[k].sequence = 0
WakeOf(e) == [sleep |-> e.sleep, waker |-> e.waker]
Wake == [sleep : Sleep, waker : Waker]
Firing(t, u, wakes, at) ==
  /\ Shape(u) /\ Ordered(u) /\ Len(u.slots) = Len(t.slots) /\ u.next_sequence = t.next_sequence
  /\ \A k \in 1 .. Len(t.slots) :
       IF Went(t, u, k) THEN t.slots[k].deadline <= at ELSE Alike(t.slots[k], u.slots[k])
  /\ wakes = {WakeOf(t.slots[k]) : k \in {j \in 1 .. Len(t.slots) : Went(t, u, j)}}
FiringFrom(t, at) ==
  {x \in [timers : Queue, wakes : SUBSET Wake] : Firing(t, x.timers, x.wakes, at)}

(* Nothing that is due is left.                                            *)
NoneDue(u, at) ==
  \A k \in 1 .. Len(u.slots) : u.slots[k].sequence # 0 => u.slots[k].deadline > at

(* A round of fire that takes the root.                                    *)
LEMMA FireTakes ==
  ASSUME NEW t, Shape(t), NEW at \in Nat, NEW u, NEW wakes, Firing(t, u, wakes, at),
         NEW a \in 1 .. Len(u.slots), u.slots[a].sequence # 0, u.slots[a].deadline <= at,
         NEW r, Removed(u, r, a)
  PROVE  Firing(t, r, wakes \cup {WakeOf(u.slots[a])}, at) /\ WakeOf(u.slots[a]) \in Wake
<1>1. PICK m \in Nat : m = Len(t.slots) BY ShapeFacts, QueueFields
<1>2. Len(u.slots) = m /\ u.next_sequence = t.next_sequence /\ Shape(u) BY <1>1 DEF Firing
<1>3. /\ Shape(r) /\ Ordered(r) /\ Len(r.slots) = m /\ r.next_sequence = t.next_sequence
      /\ r.slots[a].sequence = 0
      /\ \A k \in 1 .. m : k # a => Alike(u.slots[k], r.slots[k])
  BY <1>2 DEF Removed
<1>4. a \in 1 .. m BY <1>2
<1>5. \A k \in 1 .. m :
        IF Went(t, u, k) THEN t.slots[k].deadline <= at ELSE Alike(t.slots[k], u.slots[k])
  BY <1>1 DEF Firing
<1>6. ~Went(t, u, a) /\ Alike(t.slots[a], u.slots[a]) BY <1>4, <1>5 DEF Went
<1>7. Went(t, r, a) /\ t.slots[a].deadline <= at /\ WakeOf(t.slots[a]) = WakeOf(u.slots[a])
  BY <1>3, <1>6 DEF Went, Alike, WakeOf
<1>8. \A k \in 1 .. m : k # a => (Went(t, r, k) <=> Went(t, u, k)) BY <1>3 DEF Went, Alike
<1>9. ASSUME NEW k \in 1 .. m
      PROVE  IF Went(t, r, k) THEN t.slots[k].deadline <= at ELSE Alike(t.slots[k], r.slots[k])
  <2>1. CASE k = a BY <1>7, <2>1
  <2>2. CASE k # a BY <1>3, <1>5, <1>8, <2>2 DEF Alike
  <2> QED BY <2>1, <2>2
<1>10. wakes = {WakeOf(t.slots[k]) : k \in {j \in 1 .. m : Went(t, u, j)}} BY <1>1 DEF Firing
<1>11. {j \in 1 .. m : Went(t, r, j)} = {j \in 1 .. m : Went(t, u, j)} \cup {a}
  BY <1>4, <1>7, <1>8
<1>12. wakes \cup {WakeOf(u.slots[a])} = {WakeOf(t.slots[k]) : k \in {j \in 1 .. m : Went(t, r, j)}}
  <2>1. {WakeOf(t.slots[k]) : k \in {j \in 1 .. m : Went(t, u, j)} \cup {a}} =
          {WakeOf(t.slots[k]) : k \in {j \in 1 .. m : Went(t, u, j)}} \cup {WakeOf(t.slots[a])}
    OBVIOUS
  <2> QED BY <1>7, <1>10, <1>11, <2>1
<1>13. WakeOf(u.slots[a]) \in Wake
  <2>1. u.slots[a] \in Entry BY <1>2, ShapeFacts, QueueFields
  <2> QED BY <2>1, EntryFields DEF WakeOf, Wake
<1> QED BY <1>1, <1>3, <1>9, <1>12, <1>13 DEF Firing

(* A round of fire: nothing is due, or the heap is shorter.                *)
LEMMA FireRound ==
  ASSUME NEW t, Shape(t), NEW at \in Nat, NEW x \in FiringFrom(t, at)
  PROVE  /\ FireFirst(x, at) \in FiringFrom(t, at)
         /\ \/ FireFirst(x, at) = x /\ NoneDue(x.timers, at)
            \/ Len(FireFirst(x, at).timers.heap) < Len(x.timers.heap)
<1>1. PICK u \in Queue : u = x.timers BY DEF FiringFrom
<1>2. PICK wakes \in SUBSET Wake : wakes = x.wakes BY DEF FiringFrom
<1>3. Firing(t, u, wakes, at) BY <1>1, <1>2 DEF FiringFrom
<1>4. Shape(u) /\ Ordered(u) BY <1>3 DEF Firing
<1>5. PICK h \in Seq(Nat) : h = u.heap BY QueueFields
<1>6. CASE h = <<>>
  <2>1. FireFirst(x, at) = x BY <1>1, <1>5, <1>6 DEF FireFirst
  <2>2. ~(\E i : i \in 1 .. Len(h)) BY <1>6
  <2>3. NoneDue(u, at)
    <3>1. ASSUME NEW k \in 1 .. Len(u.slots) PROVE u.slots[k].sequence = 0
      BY <1>4, <1>5, <2>2 DEF Shape
    <3> QED BY <3>1 DEF NoneDue
  <2> QED BY <1>1, <2>1, <2>3
<1>7. CASE h # <<>>
  <2>1. 1 \in 1 .. Len(h) BY <1>7
  <2>2. PICK a : a = h[1] OBVIOUS
  <2>3. a \in 1 .. Len(u.slots) /\ u.slots[a].sequence # 0 /\ At(u, 1) = u.slots[a].deadline
        /\ At(u, 1) \in Nat
    BY <1>4, <1>5, <2>1, <2>2, ShapeFacts DEF At
  <2>4. CASE u.slots[a].deadline > at
    <3>1. FireFirst(x, at) = x BY <1>1, <1>5, <2>2, <2>4 DEF FireFirst, deadline_of
    <3>2. ASSUME NEW k \in 1 .. Len(u.slots), u.slots[k].sequence # 0
          PROVE  u.slots[k].deadline > at
      <4>1. PICK i \in 1 .. Len(u.heap) : u.heap[i] = k BY <1>4, <3>2 DEF Shape
      <4>2. At(u, 1) <= At(u, i) /\ At(u, i) \in Nat BY <1>4, RootLeast, ShapeFacts
      <4>3. At(u, i) = u.slots[k].deadline BY <4>1 DEF At
      <4> QED BY <2>3, <2>4, <4>2, <4>3
    <3>3. NoneDue(u, at) BY <3>2 DEF NoneDue
    <3> QED BY <1>1, <3>1, <3>3
  <2>5. CASE ~(u.slots[a].deadline > at)
    <3>1. u.slots[a].deadline <= at BY <2>3, <2>5
    <3>2. PICK r : r = take(u, a) OBVIOUS
    <3>3. Removed(u, r, a) BY <1>4, <2>3, <3>2, TakeRemoves
    <3>4. Firing(t, r, wakes \cup {WakeOf(u.slots[a])}, at) /\ WakeOf(u.slots[a]) \in Wake
      BY <1>3, <2>3, <3>1, <3>3, FireTakes
    <3>5. FireFirst(x, at) = [timers |-> r, wakes |-> wakes \cup {WakeOf(u.slots[a])}]
      BY <1>1, <1>2, <1>5, <1>7, <2>2, <2>5, <3>2, Zenon DEF FireFirst, deadline_of, WakeOf
    <3>6. r \in Queue /\ Len(r.heap) = Len(u.heap) - 1 BY <3>3 DEF Removed, Shape
    <3>7. Len(u.heap) \in Nat BY QueueFields
    <3>8. Len(FireFirst(x, at).timers.heap) < Len(x.timers.heap) BY <1>1, <3>5, <3>6, <3>7
    <3>9. PICK y : y = wakes \cup {WakeOf(u.slots[a])} OBVIOUS
    <3>10. y \in SUBSET Wake BY <3>4, <3>9
    <3>11. PICK z : z = [timers |-> r, wakes |-> y] OBVIOUS
    <3>12. z \in [timers : Queue, wakes : SUBSET Wake] /\ z.timers = r /\ z.wakes = y
      BY <3>6, <3>10, <3>11
    <3>13. z \in FiringFrom(t, at) BY <3>4, <3>9, <3>12 DEF FiringFrom
    <3>14. FireFirst(x, at) \in FiringFrom(t, at) BY <3>5, <3>9, <3>11, <3>13
    <3> QED BY <3>8, <3>14
  <2> QED BY <2>4, <2>5
<1> QED BY <1>6, <1>7

(* fire takes exactly what is due, and wakes it.                           *)
LEMMA FireSweeps ==
  ASSUME NEW t, Shape(t), Ordered(t), NEW at \in Nat
  PROVE  /\ Firing(t, fire(t, at).timers, fire(t, at).wakes, at)
         /\ NoneDue(fire(t, at).timers, at) /\ fire(t, at).wakes \in SUBSET Wake
<1>1. PICK n \in Nat : n = Len(t.heap) BY ShapeFacts, QueueFields
<1>2. PICK b : b = [timers |-> t, wakes |-> {}] OBVIOUS
<1>3. t \in Queue BY ShapeFacts
<1>4. b \in FiringFrom(t, at)
  <2>1. \A k \in 1 .. Len(t.slots) : ~Went(t, t, k) /\ Alike(t.slots[k], t.slots[k])
    BY DEF Went, Alike
  <2>2. {} = {WakeOf(t.slots[k]) : k \in {j \in 1 .. Len(t.slots) : Went(t, t, j)}} BY <2>1
  <2>3. Firing(t, t, {}, at) BY <2>1, <2>2 DEF Firing
  <2> QED BY <1>2, <1>3, <2>3 DEF FiringFrom
<1>5. PICK f \in [0 .. n -> FiringFrom(t, at)] :
        f[0] = b /\ (\A k \in 1 .. n : f[k] = FireFirst(f[k - 1], at)) /\ fire(t, at) = f[n]
  <2>1. PICK V : V = FiringFrom(t, at) OBVIOUS
  <2>2. b \in V /\ \A x \in V : FireFirst(x, at) \in V BY <1>4, <2>1, FireRound
  <2>3. PICK f : Fires(V, b, n, at, f) /\ fire(t, at) = f[n]
    BY <1>1, <1>2, <1>3, <2>2, FireRounds
  <2> QED BY <2>1, <2>3, Zenon DEF Fires
<1> DEFINE S == {k \in 0 .. n : \/ FireFirst(f[k], at) = f[k] /\ NoneDue(f[k].timers, at)
                                \/ Len(f[k].timers.heap) <= n - k}
<1>6. 0 \in S BY <1>1, <1>2, <1>5
<1>7. \A k \in 0 .. n : Len(f[k].timers.heap) \in Nat
  <2>1. ASSUME NEW k \in 0 .. n PROVE Len(f[k].timers.heap) \in Nat
    <3>1. f[k].timers \in Queue BY <1>5 DEF FiringFrom
    <3> QED BY <3>1, QueueFields
  <2> QED BY <2>1
<1>8. ASSUME NEW k \in 1 .. n, k - 1 \in S PROVE k \in S
  <2>1. k - 1 \in 0 .. n /\ k \in 0 .. n OBVIOUS
  <2>2. f[k - 1] \in FiringFrom(t, at) /\ f[k] = FireFirst(f[k - 1], at) BY <1>5, <2>1
  <2>3. CASE FireFirst(f[k - 1], at) = f[k - 1] /\ NoneDue(f[k - 1].timers, at)
    BY <2>1, <2>2, <2>3
  <2>4. CASE ~(FireFirst(f[k - 1], at) = f[k - 1] /\ NoneDue(f[k - 1].timers, at))
    <3>1. Len(f[k].timers.heap) < Len(f[k - 1].timers.heap) BY <2>2, <2>4, FireRound
    <3>2. Len(f[k - 1].timers.heap) <= n - (k - 1) BY <1>8, <2>4
    <3>3. Len(f[k].timers.heap) \in Nat /\ Len(f[k - 1].timers.heap) \in Nat BY <1>7, <2>1
    <3>4. Len(f[k].timers.heap) <= n - k BY <3>1, <3>2, <3>3
    <3> QED BY <2>1, <3>4
  <2> QED BY <2>3, <2>4
<1> HIDE DEF S
<1>9. n \in S
  <2>1. n \in 0 .. n OBVIOUS
  <2> QED BY <1>6, <1>8, <2>1, UpTo
<1>10. n \in 0 .. n /\ f[n] \in FiringFrom(t, at) BY <1>5
<1>11. NoneDue(f[n].timers, at)
  <2>1. CASE FireFirst(f[n], at) = f[n] /\ NoneDue(f[n].timers, at) BY <2>1
  <2>2. CASE Len(f[n].timers.heap) <= n - n
    <3>1. Len(f[n].timers.heap) = 0 BY <1>7, <1>10, <2>2
    <3>2. FireFirst(f[n], at) \in FiringFrom(t, at) BY <1>10, FireRound
    <3>3. FireFirst(f[n], at).timers \in Queue BY <3>2 DEF FiringFrom
    <3>4. ~(Len(FireFirst(f[n], at).timers.heap) < 0) BY <3>3, QueueFields
    <3> QED BY <1>10, <3>1, <3>4, FireRound
  <2> QED BY <1>9, <2>1, <2>2 DEF S
<1> QED BY <1>5, <1>10, <1>11 DEF FiringFrom

-----------------------------------------------------------------------------
(* The invariant.                                                          *)

(* A sleep's key opens the entry it registered, or the entry was fired:    *)
(* whoever has its slot since, the sleep is due.                           *)
Opens(t, x, n, s) ==
  /\ x.live /\ x.key.slot \in 1 .. Len(t.slots) /\ x.key.sequence \in 1 .. t.next_sequence - 1
  /\ IF t.slots[x.key.slot].sequence = x.key.sequence
     THEN t.slots[x.key.slot].sleep = s /\ t.slots[x.key.slot].deadline = x.deadline
     ELSE x.deadline <= n
Keyed(t, z, n) == \A s \in Sleep : z[s].key # None => Opens(t, z[s], n, s)

(* An entry is that of the sleep that holds its key.                       *)
Held(t, z) ==
  \A k \in 1 .. Len(t.slots) : t.slots[k].sequence # 0 =>
    z[t.slots[k].sleep].key = [slot |-> k, sequence |-> t.slots[k].sequence]

Sleeping == [live : BOOLEAN, deadline : Nat, key : Key]

(* The clock's entries, keys and sleeps agree.                             *)
ClockInv ==
  /\ now \in Nat /\ sleeps \in [Sleep -> Sleeping] /\ woken \in SUBSET Wake
  /\ Shape(timers) /\ Ordered(timers)
  /\ Keyed(timers, sleeps, now) /\ Held(timers, sleeps)

(* What is known of a sleep.                                               *)
LEMMA SleepFields ==
  ASSUME NEW z \in [Sleep -> Sleeping], NEW s \in Sleep
  PROVE  /\ z[s].live \in BOOLEAN /\ z[s].deadline \in Nat
         /\ z[s].key.slot \in Nat /\ z[s].key.sequence \in Nat /\ z[s].key \in Key
BY DEF Sleeping, Key

(* No key is a key.                                                        *)
LEMMA NoKey == None \in Key /\ Gone \in Sleeping
BY DEF None, Gone, Sleeping, Key

(* An entry's key is not None, and tells its slot.                         *)
LEMMA HeldKey ==
  ASSUME NEW t, Shape(t), NEW z, Held(t, z), NEW k \in 1 .. Len(t.slots), t.slots[k].sequence # 0
  PROVE  /\ z[t.slots[k].sleep].key # None /\ z[t.slots[k].sleep].key.slot = k
         /\ z[t.slots[k].sleep].key.sequence = t.slots[k].sequence /\ t.slots[k].sleep \in Sleep
<1>1. z[t.slots[k].sleep].key = [slot |-> k, sequence |-> t.slots[k].sequence] BY DEF Held
<1>2. t.slots[k].sleep \in Sleep BY ShapeFacts, QueueFields, EntryFields
<1> QED BY <1>1, <1>2 DEF None

(* The entries of some slots gone, and every other kept.                   *)
Without(t, r, D) ==
  /\ Shape(r) /\ Ordered(r) /\ Len(r.slots) = Len(t.slots) /\ r.next_sequence = t.next_sequence
  /\ \A k \in 1 .. Len(t.slots) :
       IF k \in D THEN r.slots[k].sequence = 0 ELSE Alike(t.slots[k], r.slots[k])

(* The slots of a sleep's entries.                                         *)
SlotsOf(t, s) == {k \in 1 .. Len(t.slots) : t.slots[k].sequence # 0 /\ t.slots[k].sleep = s}

(* remove takes the entry of this sleep, whoever has its slot since.       *)
LEMMA RemoveOwn ==
  ASSUME NEW t, Shape(t), Ordered(t), NEW z \in [Sleep -> Sleeping], NEW n,
         Keyed(t, z, n), Held(t, z), NEW s \in Sleep
  PROVE  Without(t, remove(t, z[s].key), SlotsOf(t, s))
<1>1. PICK key \in Key : key = z[s].key BY SleepFields
<1>2. \A k \in SlotsOf(t, s) : /\ key # None /\ key.slot = k /\ key.sequence = t.slots[k].sequence
  <2>1. ASSUME NEW k \in SlotsOf(t, s)
        PROVE  key # None /\ key.slot = k /\ key.sequence = t.slots[k].sequence
    <3>1. k \in 1 .. Len(t.slots) /\ t.slots[k].sequence # 0 /\ t.slots[k].sleep = s
      BY DEF SlotsOf
    <3> QED BY <1>1, <3>1, HeldKey
  <2> QED BY <2>1
<1>3. CASE Registered(t, key)
  <2>1. key # None /\ t.slots[key.slot].sequence = key.sequence BY <1>3 DEF Registered
  <2>2. Opens(t, z[s], n, s) BY <1>1, <2>1 DEF Keyed
  <2>3. /\ key.slot \in 1 .. Len(t.slots) /\ key.sequence \in 1 .. t.next_sequence - 1
        /\ t.slots[key.slot].sleep = s
    BY <1>1, <2>1, <2>2 DEF Opens
  <2>4. key.sequence # 0 BY <2>3, ShapeFacts, QueueFields
  <2>5. PICK r : r = take(t, key.slot) OBVIOUS
  <2>6. Removed(t, r, key.slot) BY <2>1, <2>3, <2>4, <2>5, TakeRemoves
  <2>7. \A k \in 1 .. Len(t.slots) : k \in SlotsOf(t, s) <=> k = key.slot
    BY <1>2, <2>1, <2>3, <2>4 DEF SlotsOf
  <2>8. Without(t, r, SlotsOf(t, s)) BY <2>6, <2>7 DEF Removed, Without
  <2>9. remove(t, key) = r BY <1>3, <2>5 DEF remove
  <2> QED BY <1>1, <2>8, <2>9
<1>4. CASE ~Registered(t, key)
  <2>1. remove(t, key) = t BY <1>4 DEF remove
  <2>2. \A k \in 1 .. Len(t.slots) : ~(k \in SlotsOf(t, s)) BY <1>2, <1>4 DEF Registered
  <2>3. Without(t, t, SlotsOf(t, s)) BY <2>2 DEF Without, Alike
  <2> QED BY <1>1, <2>1, <2>3
<1> QED BY <1>3, <1>4

(* A sleep that ended leaves the keys of the others.                       *)
LEMMA EndKeeps ==
  ASSUME NEW t, Shape(t), NEW z \in [Sleep -> Sleeping], NEW n, Keyed(t, z, n), Held(t, z),
         NEW s \in Sleep, NEW r, Without(t, r, SlotsOf(t, s)),
         NEW y, y = [z EXCEPT ![s] = Gone]
  PROVE  y \in [Sleep -> Sleeping] /\ Keyed(r, y, n) /\ Held(r, y)
<1>1. y \in [Sleep -> Sleeping] /\ y[s] = Gone /\ \A u \in Sleep : u # s => y[u] = z[u]
  BY NoKey
<1>2. /\ Shape(r) /\ Len(r.slots) = Len(t.slots) /\ r.next_sequence = t.next_sequence
      /\ \A k \in 1 .. Len(t.slots) :
           IF k \in SlotsOf(t, s) THEN r.slots[k].sequence = 0 ELSE Alike(t.slots[k], r.slots[k])
  BY DEF Without
<1>3. ASSUME NEW u \in Sleep, y[u].key # None PROVE Opens(r, y[u], n, u)
  <2>1. u # s /\ y[u] = z[u] BY <1>1, <1>3 DEF Gone
  <2>2. Opens(t, z[u], n, u) BY <1>3, <2>1 DEF Keyed
  <2>3. PICK key \in Key : key = z[u].key BY SleepFields
  <2>4. PICK k \in 1 .. Len(t.slots) : k = key.slot BY <2>2, <2>3 DEF Opens
  <2>5. z[u].live /\ key.sequence \in 1 .. t.next_sequence - 1 /\ key.sequence # 0
    BY <2>2, <2>3, ShapeFacts, QueueFields DEF Opens
  <2>6. CASE t.slots[k].sequence = key.sequence
    <3>1. t.slots[k].sleep = u /\ t.slots[k].deadline = z[u].deadline
      BY <2>2, <2>3, <2>4, <2>6 DEF Opens
    <3>2. Alike(t.slots[k], r.slots[k]) BY <1>2, <2>1, <3>1 DEF SlotsOf
    <3>3. r.slots[k].sleep = u /\ r.slots[k].deadline = z[u].deadline
          /\ r.slots[k].sequence = key.sequence
      BY <2>6, <3>1, <3>2 DEF Alike
    <3> QED BY <1>2, <2>1, <2>3, <2>4, <2>5, <3>3 DEF Opens
  <2>7. CASE t.slots[k].sequence # key.sequence
    <3>1. z[u].deadline <= n BY <2>2, <2>3, <2>4, <2>7 DEF Opens
    <3>2. r.slots[k].sequence = 0 \/ r.slots[k].sequence = t.slots[k].sequence
      BY <1>2 DEF Alike
    <3>3. r.slots[k].sequence # key.sequence BY <2>5, <2>7, <3>2
    <3> QED BY <1>2, <2>1, <2>3, <2>4, <2>5, <3>1, <3>3 DEF Opens
  <2> QED BY <2>6, <2>7
<1>4. ASSUME NEW k \in 1 .. Len(r.slots), r.slots[k].sequence # 0
      PROVE  y[r.slots[k].sleep].key = [slot |-> k, sequence |-> r.slots[k].sequence]
  <2>1. k \in 1 .. Len(t.slots) /\ ~(k \in SlotsOf(t, s)) BY <1>2, <1>4
  <2>2. Alike(t.slots[k], r.slots[k]) BY <1>2, <2>1
  <2>3. t.slots[k].sequence # 0 /\ t.slots[k].sleep # s
        /\ r.slots[k].sleep = t.slots[k].sleep /\ r.slots[k].sequence = t.slots[k].sequence
    BY <1>4, <2>1, <2>2 DEF Alike, SlotsOf
  <2>4. t.slots[k].sleep \in Sleep
        /\ z[t.slots[k].sleep].key = [slot |-> k, sequence |-> t.slots[k].sequence]
    BY <2>1, <2>3, HeldKey DEF Held
  <2> QED BY <1>1, <2>3, <2>4
<1> QED BY <1>1, <1>3, <1>4 DEF Keyed, Held

(* The slots of what is due.                                               *)
DueSlots(t, at) ==
  {k \in 1 .. Len(t.slots) : t.slots[k].sequence # 0 /\ t.slots[k].deadline <= at}

(* fire takes what is due and nothing else.                                *)
LEMMA FireDue ==
  ASSUME NEW t, Shape(t), Ordered(t), NEW at \in Nat
  PROVE  /\ Without(t, fire(t, at).timers, DueSlots(t, at))
         /\ fire(t, at).wakes = {WakeOf(t.slots[k]) : k \in DueSlots(t, at)}
         /\ fire(t, at).wakes \in SUBSET Wake
<1>1. PICK u : u = fire(t, at).timers OBVIOUS
<1>2. PICK wakes : wakes = fire(t, at).wakes OBVIOUS
<1>3. Firing(t, u, wakes, at) /\ NoneDue(u, at) /\ wakes \in SUBSET Wake
  BY <1>1, <1>2, FireSweeps
<1>4. /\ Shape(u) /\ Ordered(u) /\ Len(u.slots) = Len(t.slots) /\ u.next_sequence = t.next_sequence
      /\ \A k \in 1 .. Len(t.slots) :
           IF Went(t, u, k) THEN t.slots[k].deadline <= at ELSE Alike(t.slots[k], u.slots[k])
      /\ wakes = {WakeOf(t.slots[k]) : k \in {j \in 1 .. Len(t.slots) : Went(t, u, j)}}
  BY <1>3 DEF Firing
<1>5. ASSUME NEW k \in 1 .. Len(t.slots) PROVE Went(t, u, k) <=> k \in DueSlots(t, at)
  <2>1. CASE Went(t, u, k) BY <1>4, <2>1 DEF Went, DueSlots
  <2>2. CASE ~Went(t, u, k)
    <3>1. Alike(t.slots[k], u.slots[k]) BY <1>4, <2>2
    <3>2. u.slots[k] \in Entry BY <1>4, ShapeFacts, QueueFields
    <3>3. u.slots[k].sequence # 0 => u.slots[k].deadline > at BY <1>3, <1>4 DEF NoneDue
    <3>4. u.slots[k].deadline \in Nat BY <3>2, EntryFields
    <3> QED BY <2>2, <3>1, <3>3, <3>4 DEF Alike, DueSlots
  <2> QED BY <2>1, <2>2
<1>6. {j \in 1 .. Len(t.slots) : Went(t, u, j)} = DueSlots(t, at) BY <1>5 DEF DueSlots
<1>7. \A k \in 1 .. Len(t.slots) :
        IF k \in DueSlots(t, at) THEN u.slots[k].sequence = 0 ELSE Alike(t.slots[k], u.slots[k])
  BY <1>4, <1>5 DEF Went
<1>8. Without(t, u, DueSlots(t, at)) BY <1>4, <1>7 DEF Without
<1> QED BY <1>1, <1>2, <1>3, <1>4, <1>6, <1>8

(* A sleep whose entry is fired is due.                                    *)
LEMMA FireKeeps ==
  ASSUME NEW t, Shape(t), NEW z \in [Sleep -> Sleeping], NEW n, Keyed(t, z, n), Held(t, z),
         NEW r, Without(t, r, DueSlots(t, n))
  PROVE  Keyed(r, z, n) /\ Held(r, z)
<1>1. /\ Shape(r) /\ Len(r.slots) = Len(t.slots) /\ r.next_sequence = t.next_sequence
      /\ \A k \in 1 .. Len(t.slots) :
           IF k \in DueSlots(t, n) THEN r.slots[k].sequence = 0 ELSE Alike(t.slots[k], r.slots[k])
  BY DEF Without
<1>2. ASSUME NEW u \in Sleep, z[u].key # None PROVE Opens(r, z[u], n, u)
  <2>1. Opens(t, z[u], n, u) BY <1>2 DEF Keyed
  <2>2. PICK key \in Key : key = z[u].key BY SleepFields
  <2>3. PICK k \in 1 .. Len(t.slots) : k = key.slot BY <2>1, <2>2 DEF Opens
  <2>4. z[u].live /\ key.sequence \in 1 .. t.next_sequence - 1 /\ key.sequence # 0
    BY <2>1, <2>2, ShapeFacts, QueueFields DEF Opens
  <2>5. CASE r.slots[k].sequence = key.sequence
    <3>1. Alike(t.slots[k], r.slots[k]) BY <1>1, <2>4, <2>5
    <3>2. t.slots[k].sequence = key.sequence BY <2>5, <3>1 DEF Alike
    <3>3. t.slots[k].sleep = u /\ t.slots[k].deadline = z[u].deadline
      BY <2>1, <2>2, <2>3, <3>2 DEF Opens
    <3>4. r.slots[k].sleep = u /\ r.slots[k].deadline = z[u].deadline BY <3>1, <3>3 DEF Alike
    <3> QED BY <1>1, <2>2, <2>3, <2>4, <2>5, <3>4 DEF Opens
  <2>6. CASE r.slots[k].sequence # key.sequence
    <3>1. z[u].deadline <= n
      <4>1. CASE t.slots[k].sequence = key.sequence
        <5>1. t.slots[k].deadline = z[u].deadline BY <2>1, <2>2, <2>3, <4>1 DEF Opens
        <5>2. k \in DueSlots(t, n) BY <1>1, <2>6, <4>1 DEF Alike
        <5> QED BY <5>1, <5>2 DEF DueSlots
      <4>2. CASE t.slots[k].sequence # key.sequence BY <2>1, <2>2, <2>3, <4>2 DEF Opens
      <4> QED BY <4>1, <4>2
    <3> QED BY <1>1, <2>2, <2>3, <2>4, <2>6, <3>1 DEF Opens
  <2> QED BY <2>5, <2>6
<1>3. ASSUME NEW k \in 1 .. Len(r.slots), r.slots[k].sequence # 0
      PROVE  z[r.slots[k].sleep].key = [slot |-> k, sequence |-> r.slots[k].sequence]
  <2>1. k \in 1 .. Len(t.slots) /\ Alike(t.slots[k], r.slots[k]) BY <1>1, <1>3
  <2>2. t.slots[k].sequence # 0 BY <1>3, <2>1 DEF Alike
  <2>3. z[t.slots[k].sleep].key = [slot |-> k, sequence |-> t.slots[k].sequence]
    BY <2>1, <2>2 DEF Held
  <2> QED BY <2>1, <2>3 DEF Alike
<1> QED BY <1>2, <1>3 DEF Keyed, Held
(* The waker of one entry replaced.                                        *)
Rewoken(t, r, slot, w) ==
  /\ Shape(r) /\ Ordered(r) /\ Len(r.slots) = Len(t.slots) /\ r.next_sequence = t.next_sequence
  /\ \A k \in 1 .. Len(t.slots) : k # slot => r.slots[k] = t.slots[k]
  /\ r.slots[slot].deadline = t.slots[slot].deadline /\ r.slots[slot].sleep = t.slots[slot].sleep
  /\ r.slots[slot].sequence = t.slots[slot].sequence /\ r.slots[slot].waker = w

(* refresh replaces a waker and moves nothing.                             *)
LEMMA RefreshRewakes ==
  ASSUME NEW t, Shape(t), Ordered(t), NEW slot \in 1 .. Len(t.slots), NEW w \in Waker
  PROVE  Rewoken(t, [t EXCEPT !.slots[slot].waker = w], slot, w)
<1>1. PICK s \in Seq(Entry) : s = t.slots BY ShapeFacts, QueueFields
<1>2. PICK e : e = [s[slot] EXCEPT !.waker = w] OBVIOUS
<1>3. s[slot] \in Entry BY <1>1
<1>4. /\ e \in Entry /\ e.waker = w /\ e.deadline = s[slot].deadline /\ e.sleep = s[slot].sleep
      /\ e.sequence = s[slot].sequence /\ e.position = s[slot].position
  BY <1>2, <1>3 DEF Entry
<1>5. PICK v : v = [s EXCEPT ![slot] = e] OBVIOUS
<1>6. /\ v \in Seq(Entry) /\ Len(v) = Len(s) /\ v[slot] = e
      /\ \A k \in 1 .. Len(s) : k # slot => v[k] = s[k]
  BY <1>1, <1>4, <1>5
<1>7. PICK r : r = [t EXCEPT !.slots[slot].waker = w] OBVIOUS
<1>8. t \in Queue BY ShapeFacts
<1>9. r = [t EXCEPT !.slots = v]
  <2>1. [t EXCEPT !.slots[slot].waker = w] =
          [t EXCEPT !.slots = [t.slots EXCEPT ![slot] = [t.slots[slot] EXCEPT !.waker = w]]]
    BY <1>8 DEF Queue
  <2> QED BY <1>1, <1>2, <1>5, <1>7, <2>1, Zenon
<1>10. /\ r \in Queue /\ r.slots = v /\ r.heap = t.heap /\ r.free = t.free
       /\ r.next_sequence = t.next_sequence
  BY <1>6, <1>8, <1>9 DEF Queue
<1>11. \A k \in 1 .. Len(s) : /\ v[k].deadline = s[k].deadline /\ v[k].sequence = s[k].sequence
                              /\ v[k].position = s[k].position
  BY <1>4, <1>6
<1>12. \A i \in 1 .. Len(t.heap) :
         /\ t.heap[i] \in 1 .. Len(s) /\ s[t.heap[i]].position = i /\ s[t.heap[i]].sequence # 0
  BY <1>1 DEF Shape
<1>13. \A i \in 1 .. Len(t.heap) :
         /\ t.heap[i] \in 1 .. Len(v) /\ v[t.heap[i]].position = i /\ v[t.heap[i]].sequence # 0
  BY <1>6, <1>11, <1>12
<1>14. \A k \in 1 .. Len(v) : v[k].sequence # 0 =>
         /\ v[k].position \in 1 .. Len(t.heap) /\ t.heap[v[k].position] = k
         /\ v[k].sequence < t.next_sequence
  <2>1. ASSUME NEW k \in 1 .. Len(v), v[k].sequence # 0
        PROVE  /\ v[k].position \in 1 .. Len(t.heap) /\ t.heap[v[k].position] = k
               /\ v[k].sequence < t.next_sequence
    <3>1. /\ k \in 1 .. Len(s) /\ v[k].position = s[k].position
          /\ v[k].sequence = s[k].sequence /\ s[k].sequence # 0
      BY <1>6, <1>11, <2>1
    <3>2. /\ s[k].position \in 1 .. Len(t.heap) /\ t.heap[s[k].position] = k
          /\ s[k].sequence < t.next_sequence
      BY <1>1, <3>1 DEF Shape
    <3> QED BY <3>1, <3>2
  <2> QED BY <2>1
<1>15. \A i \in 1 .. Len(t.free) : t.free[i] \in 1 .. Len(v) /\ v[t.free[i]].sequence = 0
  <2>1. \A i \in 1 .. Len(t.free) : t.free[i] \in 1 .. Len(s) /\ s[t.free[i]].sequence = 0
    BY <1>1 DEF Shape
  <2> QED BY <1>6, <1>11, <2>1
<1>16. Shape(r)
  <2>1. t.next_sequence # 0 /\ \A i, j \in 1 .. Len(t.free) : t.free[i] = t.free[j] => i = j
    BY DEF Shape
  <2> QED BY <1>10, <1>13, <1>14, <1>15, <2>1 DEF Shape
<1>17. Ordered(r)
  <2>1. \A i \in 1 .. Len(t.heap) : At(r, i) = At(t, i) BY <1>1, <1>10, <1>11, <1>12 DEF At
  <2>2. PICK n \in Nat : n = Len(t.heap) BY <1>8, QueueFields
  <2>3. ASSUME NEW i \in 2 .. n PROVE At(r, i \div 2) <= At(r, i)
    <3>1. i \div 2 \in 1 .. n /\ i \in 1 .. n BY <2>2, Half
    <3>2. At(t, i \div 2) <= At(t, i) BY <2>2 DEF Ordered
    <3> QED BY <2>1, <2>2, <3>1, <3>2
  <2> QED BY <1>10, <2>2, <2>3 DEF Ordered
<1>18. Rewoken(t, r, slot, w) BY <1>1, <1>4, <1>6, <1>10, <1>16, <1>17 DEF Rewoken
<1> QED BY <1>7, <1>18, Zenon

(* A poll before the deadline finds the entry the sleep registered.        *)
LEMMA PollFinds ==
  ASSUME NEW t, Shape(t), NEW z \in [Sleep -> Sleeping], NEW n \in Nat, Keyed(t, z, n),
         NEW s \in Sleep, z[s].key # None, n < z[s].deadline
  PROVE  /\ Registered(t, z[s].key) /\ z[s].key.slot \in 1 .. Len(t.slots)
         /\ t.slots[z[s].key.slot].sleep = s /\ t.slots[z[s].key.slot].deadline = z[s].deadline
         /\ t.slots[z[s].key.slot].sequence # 0
<1>1. Opens(t, z[s], n, s) BY DEF Keyed
<1>2. z[s].deadline \in Nat /\ ~(z[s].deadline <= n) BY SleepFields
<1>3. z[s].key.sequence \in 1 .. t.next_sequence - 1 BY <1>1 DEF Opens
<1>4. z[s].key.sequence # 0 BY <1>3, ShapeFacts, QueueFields
<1> QED BY <1>1, <1>2, <1>4 DEF Opens, Registered

(* A replaced waker leaves the keys.                                       *)
LEMMA RefreshKeeps ==
  ASSUME NEW t, NEW z, NEW n, Keyed(t, z, n), Held(t, z),
         NEW slot \in 1 .. Len(t.slots), NEW w, NEW r, Rewoken(t, r, slot, w)
  PROVE  Keyed(r, z, n) /\ Held(r, z)
<1>1. /\ Len(r.slots) = Len(t.slots) /\ r.next_sequence = t.next_sequence
      /\ \A k \in 1 .. Len(t.slots) :
           /\ r.slots[k].sequence = t.slots[k].sequence /\ r.slots[k].sleep = t.slots[k].sleep
           /\ r.slots[k].deadline = t.slots[k].deadline
  BY DEF Rewoken
<1>2. ASSUME NEW u \in Sleep, z[u].key # None PROVE Opens(r, z[u], n, u)
  <2>1. Opens(t, z[u], n, u) BY <1>2 DEF Keyed
  <2>2. PICK k \in 1 .. Len(t.slots) : k = z[u].key.slot BY <2>1 DEF Opens
  <2> QED BY <1>1, <2>1, <2>2 DEF Opens
<1>3. Held(r, z) BY <1>1 DEF Held
<1> QED BY <1>2, <1>3 DEF Keyed

(* What the first poll of a sleep does.                                    *)
Registers(t, r, z, y, s, w, key) ==
  /\ z[s].live /\ z[s].key = None /\ key \in Key /\ key.sequence = t.next_sequence
  /\ Added(t, r, key.slot, s, z[s].deadline, w) /\ y = [z EXCEPT ![s].key = key]

(* A sleep registered leaves the keys of the others.                       *)
LEMMA InsertKeeps ==
  ASSUME NEW t, Shape(t), NEW z \in [Sleep -> Sleeping], NEW n, Keyed(t, z, n), Held(t, z),
         NEW s \in Sleep, NEW w, NEW r, NEW y, NEW key, Registers(t, r, z, y, s, w, key)
  PROVE  y \in [Sleep -> Sleeping] /\ Keyed(r, y, n) /\ Held(r, y)
<1> USE DEF Registers
<1>1. z[s] \in Sleeping OBVIOUS
<1>2. PICK x : x = [z[s] EXCEPT !.key = key] OBVIOUS
<1>3. x \in Sleeping /\ x.key = key /\ x.live = z[s].live /\ x.deadline = z[s].deadline
  BY <1>1, <1>2 DEF Sleeping
<1>4. y \in [Sleep -> Sleeping] /\ y[s] = x /\ \A u \in Sleep : u # s => y[u] = z[u]
  BY <1>2, <1>3
<1>5. PICK slot : slot = key.slot OBVIOUS
<1>6. PICK c \in Nat : c = t.next_sequence /\ c # 0 BY ShapeFacts, QueueFields DEF Shape
<1>7. /\ r.next_sequence = c + 1 /\ slot \in 1 .. Len(r.slots) /\ Len(t.slots) <= Len(r.slots)
      /\ slot \in 1 .. Len(t.slots) => t.slots[slot].sequence = 0
      /\ \A k \in 1 .. Len(r.slots) : k # slot =>
           k \in 1 .. Len(t.slots) /\ Alike(t.slots[k], r.slots[k])
      /\ r.slots[slot].deadline = z[s].deadline /\ r.slots[slot].sleep = s
      /\ r.slots[slot].sequence = c /\ Shape(r)
  BY <1>5, <1>6 DEF Added
<1>8. Len(t.slots) \in Nat /\ Len(r.slots) \in Nat BY <1>7, ShapeFacts, QueueFields
<1>9. ASSUME NEW u \in Sleep, y[u].key # None PROVE Opens(r, y[u], n, u)
  <2>1. CASE u = s
    <3>1. c \in 1 .. (c + 1) - 1 BY <1>6
    <3> QED BY <1>3, <1>4, <1>5, <1>6, <1>7, <2>1, <3>1 DEF Opens
  <2>2. CASE u # s
    <3>1. y[u] = z[u] /\ Opens(t, z[u], n, u) BY <1>4, <1>9, <2>2 DEF Keyed
    <3>2. PICK k \in 1 .. Len(t.slots) : k = z[u].key.slot BY <3>1 DEF Opens
    <3>3. z[u].live /\ z[u].key.sequence \in 1 .. c - 1 BY <1>6, <3>1 DEF Opens
    <3>4. k \in 1 .. Len(r.slots) /\ z[u].key.sequence \in 1 .. (c + 1) - 1
          /\ z[u].key.sequence # c /\ z[u].key.sequence # 0
      BY <1>6, <1>7, <1>8, <3>3
    <3>5. CASE k = slot
      <4>1. t.slots[k].sequence # z[u].key.sequence BY <1>7, <3>4, <3>5
      <4>2. z[u].deadline <= n BY <3>1, <3>2, <4>1 DEF Opens
      <4>3. r.slots[k].sequence # z[u].key.sequence BY <1>7, <3>4, <3>5
      <4> QED BY <1>7, <3>1, <3>2, <3>3, <3>4, <4>2, <4>3 DEF Opens
    <3>6. CASE k # slot
      <4>1. Alike(t.slots[k], r.slots[k]) BY <1>7, <3>4, <3>6
      <4>2. /\ r.slots[k].sequence = t.slots[k].sequence /\ r.slots[k].sleep = t.slots[k].sleep
            /\ r.slots[k].deadline = t.slots[k].deadline
        BY <4>1 DEF Alike
      <4>3. IF t.slots[k].sequence = z[u].key.sequence
            THEN t.slots[k].sleep = u /\ t.slots[k].deadline = z[u].deadline
            ELSE z[u].deadline <= n
        BY <3>1, <3>2 DEF Opens
      <4>4. IF r.slots[k].sequence = z[u].key.sequence
            THEN r.slots[k].sleep = u /\ r.slots[k].deadline = z[u].deadline
            ELSE z[u].deadline <= n
        BY <4>2, <4>3
      <4>5. z[u].key.sequence \in 1 .. r.next_sequence - 1 BY <1>7, <3>4
      <4> QED BY <3>1, <3>2, <3>3, <3>4, <4>4, <4>5, Zenon DEF Opens
    <3> QED BY <3>5, <3>6
  <2> QED BY <2>1, <2>2
<1>10. ASSUME NEW k \in 1 .. Len(r.slots), r.slots[k].sequence # 0
       PROVE  y[r.slots[k].sleep].key = [slot |-> k, sequence |-> r.slots[k].sequence]
  <2>1. CASE k = slot
    <3>1. key = [slot |-> slot, sequence |-> c] BY <1>5, <1>6 DEF Key
    <3> QED BY <1>3, <1>4, <1>7, <2>1, <3>1
  <2>2. CASE k # slot
    <3>1. k \in 1 .. Len(t.slots) /\ Alike(t.slots[k], r.slots[k]) BY <1>7, <2>2
    <3>2. t.slots[k].sequence # 0 BY <1>10, <3>1 DEF Alike
    <3>3. z[t.slots[k].sleep].key # None /\ t.slots[k].sleep \in Sleep BY <3>1, <3>2, HeldKey
    <3>4. z[t.slots[k].sleep].key = [slot |-> k, sequence |-> t.slots[k].sequence]
      BY <3>1, <3>2 DEF Held
    <3>5. t.slots[k].sleep # s BY <3>3
    <3> QED BY <1>4, <3>1, <3>3, <3>4, <3>5 DEF Alike
  <2> QED BY <2>1, <2>2
<1> QED BY <1>4, <1>9, <1>10 DEF Keyed, Held

(* A sleep that begins leaves the keys of the others.                      *)
LEMMA StartKeeps ==
  ASSUME NEW t, Shape(t), NEW z \in [Sleep -> Sleeping], NEW n, Keyed(t, z, n), Held(t, z),
         NEW s \in Sleep, ~z[s].live, NEW x \in Sleeping, x.key = None,
         NEW y, y = [z EXCEPT ![s] = x]
  PROVE  y \in [Sleep -> Sleeping] /\ Keyed(t, y, n) /\ Held(t, y)
<1>1. y \in [Sleep -> Sleeping] /\ y[s] = x /\ \A u \in Sleep : u # s => y[u] = z[u] OBVIOUS
<1>2. z[s].key = None BY DEF Keyed, Opens
<1>3. Keyed(t, y, n) BY <1>1 DEF Keyed
<1>4. ASSUME NEW k \in 1 .. Len(t.slots), t.slots[k].sequence # 0
      PROVE  y[t.slots[k].sleep].key = [slot |-> k, sequence |-> t.slots[k].sequence]
  <2>1. /\ z[t.slots[k].sleep].key = [slot |-> k, sequence |-> t.slots[k].sequence]
        /\ z[t.slots[k].sleep].key # None /\ t.slots[k].sleep \in Sleep
    BY <1>4, HeldKey DEF Held
  <2>2. t.slots[k].sleep # s BY <1>2, <2>1
  <2> QED BY <1>1, <2>1, <2>2
<1> QED BY <1>1, <1>3, <1>4 DEF Held

-----------------------------------------------------------------------------
(* The invariant holds.                                                    *)

(* It holds at first.                                                      *)
LEMMA ClockInvInit == ClockInit => ClockInv
<1> SUFFICES ASSUME ClockInit PROVE ClockInv OBVIOUS
<1>1. PICK t : t = [slots |-> <<>>, free |-> <<>>, heap |-> <<>>, next_sequence |-> 1] OBVIOUS
<1>2. timers = t /\ now = 0 /\ woken = {} /\ sleeps = [s \in Sleep |-> Gone]
  BY <1>1 DEF ClockInit
<1>3. <<>> \in Seq(Entry) /\ <<>> \in Seq(Nat) /\ Len(<<>>) = 0 OBVIOUS
<1>4. t \in Queue BY <1>1, <1>3 DEF Queue
<1>5. /\ t.slots = <<>> /\ t.free = <<>> /\ t.heap = <<>> /\ t.next_sequence = 1
      /\ Len(t.slots) = 0 /\ Len(t.free) = 0 /\ Len(t.heap) = 0
  BY <1>1
<1>6. Shape(t) /\ Ordered(t) BY <1>4, <1>5 DEF Shape, Ordered
<1>7. sleeps \in [Sleep -> Sleeping] /\ \A s \in Sleep : sleeps[s].key = None
  BY <1>2, NoKey DEF Gone
<1>8. Keyed(t, sleeps, now) BY <1>7 DEF Keyed
<1>9. Held(t, sleeps) BY <1>5 DEF Held
<1>10. now \in Nat /\ woken \in SUBSET Wake BY <1>2
<1> QED BY <1>2, <1>6, <1>7, <1>8, <1>9, <1>10 DEF ClockInv

(* What the invariant says.                                                *)
LEMMA ClockFacts ==
  ASSUME ClockInv
  PROVE  /\ now \in Nat /\ sleeps \in [Sleep -> Sleeping] /\ woken \in SUBSET Wake
         /\ Shape(timers) /\ Ordered(timers)
         /\ Keyed(timers, sleeps, now) /\ Held(timers, sleeps)
BY DEF ClockInv

(* A sleep begins.                                                         *)
LEMMA StartStep ==
  ASSUME ClockInv, NEW s \in Sleep, NEW d \in Durations, Start(s, d)
  PROVE  ClockInv'
<1>1. PICK D \in Nat : D = IF now + d > MaxInstant THEN Never ELSE now + d
  BY ClockFacts, ClockAssumption DEF Never
<1>2. PICK x : x = [live |-> TRUE, deadline |-> D, key |-> None] OBVIOUS
<1>3. x \in Sleeping /\ x.key = None BY <1>2, NoKey DEF Sleeping
<1>4. /\ ~sleeps[s].live /\ sleeps' = [sleeps EXCEPT ![s] = x]
      /\ now' = now /\ timers' = timers /\ woken' = woken
  BY <1>1, <1>2 DEF Start
<1>5. sleeps' \in [Sleep -> Sleeping] /\ Keyed(timers, sleeps', now) /\ Held(timers, sleeps')
  BY <1>3, <1>4, ClockFacts, StartKeeps
<1> QED BY <1>4, <1>5, ClockFacts DEF ClockInv

(* A sleep ends.                                                           *)
LEMMA EndedStep ==
  ASSUME ClockInv, NEW s \in Sleep, Ended(s)
  PROVE  ClockInv'
<1>1. /\ timers' = remove(timers, sleeps[s].key) /\ sleeps' = [sleeps EXCEPT ![s] = Gone]
      /\ woken' = {x \in woken : x.sleep # s} /\ now' = now
  BY DEF Ended
<1>2. Without(timers, timers', SlotsOf(timers, s)) BY <1>1, ClockFacts, RemoveOwn
<1>3. sleeps' \in [Sleep -> Sleeping] /\ Keyed(timers', sleeps', now) /\ Held(timers', sleeps')
  BY <1>1, <1>2, ClockFacts, EndKeeps
<1>4. Shape(timers') /\ Ordered(timers') BY <1>2 DEF Without
<1>5. woken' \in SUBSET Wake /\ now' \in Nat BY <1>1, ClockFacts
<1> QED BY <1>1, <1>3, <1>4, <1>5 DEF ClockInv

(* A poll that waits on replaces the waker of its sleep's entry.           *)
LEMMA RefreshStep ==
  ASSUME ClockInv, NEW s \in Sleep, NEW w \in Waker, now < sleeps[s].deadline,
         sleeps[s].key # None, timers' = refresh(timers, sleeps[s].key, w),
         UNCHANGED <<now, sleeps, woken>>
  PROVE  ClockInv' /\ Rewoken(timers, timers', sleeps[s].key.slot, w)
<1>1. PICK slot \in 1 .. Len(timers.slots) : slot = sleeps[s].key.slot
  BY ClockFacts, PollFinds
<1>2. Registered(timers, sleeps[s].key) BY ClockFacts, PollFinds
<1>3. timers' = [timers EXCEPT !.slots[slot].waker = w] BY <1>1, <1>2 DEF refresh
<1>4. Rewoken(timers, timers', slot, w) BY <1>3, ClockFacts, RefreshRewakes
<1>5. Keyed(timers', sleeps, now) /\ Held(timers', sleeps) BY <1>4, ClockFacts, RefreshKeeps
<1>6. Shape(timers') /\ Ordered(timers') BY <1>4 DEF Rewoken
<1> QED BY <1>1, <1>4, <1>5, <1>6, ClockFacts DEF ClockInv

(* The first poll registers the sleep.                                     *)
LEMMA InsertStep ==
  ASSUME ClockInv, NEW s \in Sleep, NEW w \in Waker, sleeps[s].live, sleeps[s].key = None,
         timers' = insert(timers, s, sleeps[s].deadline, w).timers,
         sleeps' = [sleeps EXCEPT ![s].key = insert(timers, s, sleeps[s].deadline, w).key],
         UNCHANGED <<now, woken>>
  PROVE  /\ ClockInv'
         /\ Added(timers, timers', insert(timers, s, sleeps[s].deadline, w).key.slot, s,
                  sleeps[s].deadline, w)
<1>1. sleeps[s].deadline \in Nat BY ClockFacts, SleepFields
<1>2. PICK key \in Key : key = insert(timers, s, sleeps[s].deadline, w).key
  BY <1>1, ClockFacts, InsertAdds
<1>3. /\ Added(timers, timers', key.slot, s, sleeps[s].deadline, w)
      /\ key.sequence = timers.next_sequence
  BY <1>1, <1>2, ClockFacts, InsertAdds
<1>4. sleeps' = [sleeps EXCEPT ![s].key = key] BY <1>2
<1>5. sleeps' \in [Sleep -> Sleeping] /\ Keyed(timers', sleeps', now) /\ Held(timers', sleeps')
  <2>1. Registers(timers, timers', sleeps, sleeps', s, w, key) BY <1>3, <1>4 DEF Registers
  <2> QED BY <2>1, ClockFacts, InsertKeeps
<1>6. Shape(timers') /\ Ordered(timers') BY <1>3 DEF Added
<1> QED BY <1>2, <1>3, <1>5, <1>6, ClockFacts DEF ClockInv

(* The core fires.                                                         *)
LEMMA FireStep ==
  ASSUME ClockInv, Fire
  PROVE  /\ ClockInv' /\ Without(timers, timers', DueSlots(timers, now))
         /\ woken' = woken \cup {WakeOf(timers.slots[k]) : k \in DueSlots(timers, now)}
         /\ {WakeOf(timers.slots[k]) : k \in DueSlots(timers, now)} # {}
<1>1. PICK wakes : wakes = fire(timers, now).wakes OBVIOUS
<1>2. /\ timers' = fire(timers, now).timers /\ woken' = woken \cup wakes /\ wakes # {}
      /\ now' = now /\ sleeps' = sleeps
  BY <1>1 DEF Fire
<1>3. /\ Without(timers, timers', DueSlots(timers, now))
      /\ wakes = {WakeOf(timers.slots[k]) : k \in DueSlots(timers, now)} /\ wakes \in SUBSET Wake
  BY <1>1, <1>2, ClockFacts, FireDue
<1>4. Keyed(timers', sleeps, now) /\ Held(timers', sleeps) BY <1>3, ClockFacts, FireKeeps
<1>5. Shape(timers') /\ Ordered(timers') BY <1>3 DEF Without
<1>6. woken' \in SUBSET Wake BY <1>2, <1>3, ClockFacts
<1>7. ClockInv' BY <1>2, <1>4, <1>5, <1>6, ClockFacts DEF ClockInv
<1> QED BY <1>2, <1>3, <1>7

(* Time passes.                                                            *)
LEMMA TickStep ==
  ASSUME ClockInv, Tick
  PROVE  ClockInv'
<1>1. now' = now + 1 /\ now' \in Nat /\ timers' = timers /\ sleeps' = sleeps /\ woken' = woken
  BY ClockFacts DEF Tick
<1>2. ASSUME NEW s \in Sleep, sleeps[s].key # None PROVE Opens(timers, sleeps[s], now + 1, s)
  <2>1. Opens(timers, sleeps[s], now, s) BY <1>2, ClockFacts DEF Keyed
  <2>2. sleeps[s].deadline \in Nat /\ now \in Nat BY ClockFacts, SleepFields
  <2>3. sleeps[s].deadline <= now => sleeps[s].deadline <= now + 1 BY <2>2
  <2> QED BY <2>1, <2>3, Zenon DEF Opens
<1>3. Keyed(timers, sleeps, now + 1) BY <1>2 DEF Keyed
<1> QED BY <1>1, <1>3, ClockFacts DEF ClockInv

(* Every step keeps it.                                                    *)
LEMMA ClockInvStep == ClockInv /\ [ClockNext]_clockVars => ClockInv'
<1> SUFFICES ASSUME ClockInv, [ClockNext]_clockVars PROVE ClockInv' OBVIOUS
<1>1. CASE UNCHANGED clockVars BY <1>1 DEF clockVars, ClockInv
<1>2. ASSUME NEW s \in Sleep, NEW d \in Durations, Start(s, d) PROVE ClockInv' BY <1>2, StartStep
<1>3. ASSUME NEW s \in Sleep, NEW w \in Waker, Poll(s, w) PROVE ClockInv'
  <2>1. CASE Ended(s) BY <2>1, EndedStep
  <2>2. CASE /\ now < sleeps[s].deadline /\ sleeps[s].key # None
             /\ timers' = refresh(timers, sleeps[s].key, w) /\ UNCHANGED <<now, sleeps, woken>>
    BY <2>2, RefreshStep
  <2>3. CASE /\ sleeps[s].live /\ sleeps[s].key = None
             /\ timers' = insert(timers, s, sleeps[s].deadline, w).timers
             /\ sleeps' = [sleeps EXCEPT ![s].key = insert(timers, s, sleeps[s].deadline, w).key]
             /\ UNCHANGED <<now, woken>>
    BY <2>3, InsertStep
  <2> QED BY <1>3, <2>1, <2>2, <2>3, Zenon DEF Poll
<1>4. ASSUME NEW s \in Sleep, DropSleep(s) PROVE ClockInv' BY <1>4, EndedStep DEF DropSleep
<1>5. CASE Fire BY <1>5, FireStep
<1>6. CASE Tick BY <1>6, TickStep
<1> QED BY <1>1, <1>2, <1>3, <1>4, <1>5, <1>6, Zenon DEF ClockNext

(* The heap of a core's clock is ordered and its entries know their        *)
(* places; a sleep's key opens the entry that sleep registered and no      *)
(* other, and a sleep whose entry is gone is due: whatever sleeps come and *)
(* go and whoever takes a slot again (sift_up, sift_down, take,            *)
(* entry_mut, Key::sequence).                                              *)
THEOREM ClockInvariant == ClockSpec => []ClockInv
BY ClockInvInit, ClockInvStep, PTL DEF ClockSpec

-----------------------------------------------------------------------------
(* The clock implements SleepSet.                                          *)

(* What SleepSet knows of an entry, of a clock and of the sleeps.          *)
Arm(e) == [sleep |-> e.sleep, deadline |-> e.deadline, waker |-> e.waker]
Arms(t) == {Arm(t.slots[k]) : k \in {j \in 1 .. Len(t.slots) : t.slots[j].sequence # 0}}
Lives(z) == {[sleep |-> s, deadline |-> z[s].deadline] : s \in {x \in Sleep : z[x].live}}
ArmedBy(t) == {Arm(e) : e \in {t.slots[t.heap[i]] : i \in DOMAIN t.heap}}
OfSleep(s, X) == {x \in X : x.sleep = s}

(* What the heap leads to is what the slots hold.                          *)
LEMMA HeapArms ==
  ASSUME NEW t, Shape(t)
  PROVE  ArmedBy(t) = Arms(t)
<1>1. PICK h \in Seq(Nat) : h = t.heap BY ShapeFacts, QueueFields
<1>2. DOMAIN h = 1 .. Len(h) BY <1>1
<1>3. ASSUME NEW i \in DOMAIN h
      PROVE  h[i] \in {j \in 1 .. Len(t.slots) : t.slots[j].sequence # 0}
  BY <1>1, <1>2, ShapeFacts
<1>4. ASSUME NEW k \in {j \in 1 .. Len(t.slots) : t.slots[j].sequence # 0}
      PROVE  \E i \in DOMAIN h : h[i] = k
  BY <1>1, <1>2 DEF Shape
<1>5. ASSUME NEW x \in ArmedBy(t) PROVE x \in Arms(t)
  <2>1. PICK i \in DOMAIN h : x = Arm(t.slots[h[i]]) BY <1>1 DEF ArmedBy
  <2> QED BY <1>3, <2>1 DEF Arms
<1>6. ASSUME NEW x \in Arms(t) PROVE x \in ArmedBy(t)
  <2>1. PICK k \in {j \in 1 .. Len(t.slots) : t.slots[j].sequence # 0} : x = Arm(t.slots[k])
    BY DEF Arms
  <2>2. PICK i \in DOMAIN h : h[i] = k BY <1>4
  <2> QED BY <1>1, <2>1, <2>2 DEF ArmedBy
<1> QED BY <1>5, <1>6

(* An armed sleep has its entry.                                           *)
LEMMA ArmsHave ==
  ASSUME NEW t, NEW x
  PROVE  x \in Arms(t) <=> \E k \in 1 .. Len(t.slots) :
                             t.slots[k].sequence # 0 /\ x = Arm(t.slots[k])
BY DEF Arms

(* The parts of what is armed.                                             *)
LEMMA ArmParts ==
  ASSUME NEW e
  PROVE  Arm(e).sleep = e.sleep /\ Arm(e).deadline = e.deadline /\ Arm(e).waker = e.waker
BY DEF Arm

(* Entries alike arm the same.                                             *)
LEMMA AlikeArms ==
  ASSUME NEW e, NEW f, Alike(e, f)
  PROVE  Arm(e) = Arm(f) /\ e.sequence = f.sequence
BY DEF Arm, Alike

(* A sleep that ends is armed no more, and every other is as it was.       *)
LEMMA EndArms ==
  ASSUME NEW t, NEW r, NEW s, Without(t, r, SlotsOf(t, s))
  PROVE  Arms(r) = Arms(t) \ OfSleep(s, Arms(t))
<1>1. /\ Len(r.slots) = Len(t.slots)
      /\ \A k \in 1 .. Len(t.slots) :
           IF k \in SlotsOf(t, s) THEN r.slots[k].sequence = 0 ELSE Alike(t.slots[k], r.slots[k])
  BY DEF Without
<1>2. ASSUME NEW x \in Arms(r) PROVE x \in Arms(t) /\ x.sleep # s
  <2>1. PICK k \in 1 .. Len(t.slots) : r.slots[k].sequence # 0 /\ x = Arm(r.slots[k])
    BY <1>1, ArmsHave
  <2>2. ~(k \in SlotsOf(t, s)) /\ Alike(t.slots[k], r.slots[k]) BY <1>1, <2>1
  <2>3. t.slots[k].sequence # 0 /\ x = Arm(t.slots[k]) BY <2>1, <2>2, AlikeArms
  <2>4. x.sleep # s BY <2>2, <2>3, ArmParts DEF SlotsOf
  <2> QED BY <2>3, <2>4, ArmsHave
<1>3. ASSUME NEW x \in Arms(t), x.sleep # s PROVE x \in Arms(r)
  <2>1. PICK k \in 1 .. Len(t.slots) : t.slots[k].sequence # 0 /\ x = Arm(t.slots[k])
    BY ArmsHave
  <2>2. ~(k \in SlotsOf(t, s)) BY <1>3, <2>1, ArmParts DEF SlotsOf
  <2>3. r.slots[k].sequence # 0 /\ x = Arm(r.slots[k]) BY <1>1, <2>1, <2>2, AlikeArms
  <2> QED BY <1>1, <2>3, ArmsHave
<1> QED BY <1>2, <1>3 DEF OfSleep

(* A fire disarms what is due, and every other is as it was.               *)
LEMMA FireArms ==
  ASSUME NEW t, NEW r, NEW n, Without(t, r, DueSlots(t, n))
  PROVE  /\ Arms(r) = Arms(t) \ {a \in Arms(t) : a.deadline <= n}
         /\ {WakeOf(t.slots[k]) : k \in DueSlots(t, n)} =
              {[sleep |-> a.sleep, waker |-> a.waker] : a \in {b \in Arms(t) : b.deadline <= n}}
<1>1. /\ Len(r.slots) = Len(t.slots)
      /\ \A k \in 1 .. Len(t.slots) :
           IF k \in DueSlots(t, n) THEN r.slots[k].sequence = 0 ELSE Alike(t.slots[k], r.slots[k])
  BY DEF Without
<1>2. ASSUME NEW x \in Arms(r) PROVE x \in Arms(t) /\ ~(x.deadline <= n)
  <2>1. PICK k \in 1 .. Len(t.slots) : r.slots[k].sequence # 0 /\ x = Arm(r.slots[k])
    BY <1>1, ArmsHave
  <2>2. ~(k \in DueSlots(t, n)) /\ Alike(t.slots[k], r.slots[k]) BY <1>1, <2>1
  <2>3. t.slots[k].sequence # 0 /\ x = Arm(t.slots[k]) BY <2>1, <2>2, AlikeArms
  <2>4. ~(x.deadline <= n) BY <2>2, <2>3, ArmParts DEF DueSlots
  <2> QED BY <2>3, <2>4, ArmsHave
<1>3. ASSUME NEW x \in Arms(t), ~(x.deadline <= n) PROVE x \in Arms(r)
  <2>1. PICK k \in 1 .. Len(t.slots) : t.slots[k].sequence # 0 /\ x = Arm(t.slots[k])
    BY ArmsHave
  <2>2. ~(k \in DueSlots(t, n)) BY <1>3, <2>1, ArmParts DEF DueSlots
  <2>3. r.slots[k].sequence # 0 /\ x = Arm(r.slots[k]) BY <1>1, <2>1, <2>2, AlikeArms
  <2> QED BY <1>1, <2>3, ArmsHave
<1>4. PICK B : B = {b \in Arms(t) : b.deadline <= n} OBVIOUS
<1>5. ASSUME NEW k \in DueSlots(t, n)
      PROVE  /\ Arm(t.slots[k]) \in B
             /\ WakeOf(t.slots[k]) =
                  [sleep |-> Arm(t.slots[k]).sleep, waker |-> Arm(t.slots[k]).waker]
  <2>1. k \in 1 .. Len(t.slots) /\ t.slots[k].sequence # 0 /\ t.slots[k].deadline <= n
    BY DEF DueSlots
  <2> QED BY <1>4, <2>1, ArmsHave, ArmParts DEF WakeOf
<1>6. ASSUME NEW a \in B
      PROVE  \E k \in DueSlots(t, n) : WakeOf(t.slots[k]) = [sleep |-> a.sleep, waker |-> a.waker]
  <2>1. PICK k \in 1 .. Len(t.slots) : t.slots[k].sequence # 0 /\ a = Arm(t.slots[k])
    BY <1>4, ArmsHave
  <2>2. a.deadline <= n BY <1>4
  <2>3. k \in DueSlots(t, n) BY <2>1, <2>2, ArmParts DEF DueSlots
  <2> QED BY <2>1, <2>3, ArmParts DEF WakeOf
<1>7. {WakeOf(t.slots[k]) : k \in DueSlots(t, n)} =
        {[sleep |-> a.sleep, waker |-> a.waker] : a \in B}
  <2>1. PICK L : L = {WakeOf(t.slots[k]) : k \in DueSlots(t, n)} OBVIOUS
  <2>2. PICK R : R = {[sleep |-> a.sleep, waker |-> a.waker] : a \in B} OBVIOUS
  <2>3. ASSUME NEW x \in L PROVE x \in R
    <3>1. PICK k \in DueSlots(t, n) : x = WakeOf(t.slots[k]) BY <2>1
    <3>2. PICK a \in B : x = [sleep |-> a.sleep, waker |-> a.waker] BY <1>5, <3>1
    <3> QED BY <2>2, <3>2
  <2>4. ASSUME NEW x \in R PROVE x \in L
    <3>1. PICK a \in B : x = [sleep |-> a.sleep, waker |-> a.waker] BY <2>2
    <3>2. PICK k \in DueSlots(t, n) : x = WakeOf(t.slots[k]) BY <1>6, <3>1
    <3> QED BY <2>1, <3>2
  <2>5. L = R BY <2>3, <2>4
  <2> QED BY <2>1, <2>2, <2>5
<1>8. Arms(r) = Arms(t) \ B BY <1>2, <1>3, <1>4
<1> QED BY <1>4, <1>7, <1>8

(* A sleep without a key is not armed.                                     *)
LEMMA KeylessUnarmed ==
  ASSUME NEW t, Shape(t), NEW z, Held(t, z), NEW s, z[s].key = None
  PROVE  OfSleep(s, Arms(t)) = {}
<1>1. ASSUME NEW x \in Arms(t), x.sleep = s PROVE FALSE
  <2>1. PICK k \in 1 .. Len(t.slots) : t.slots[k].sequence # 0 /\ x = Arm(t.slots[k])
    BY ArmsHave
  <2>2. t.slots[k].sleep = s BY <1>1, <2>1, ArmParts
  <2> QED BY <2>1, <2>2, HeldKey
<1> QED BY <1>1 DEF OfSleep

(* insert arms its sleep.                                                  *)
LEMMA InsertArms ==
  ASSUME NEW t, Shape(t), NEW r, NEW slot, NEW s, NEW d, NEW w, Added(t, r, slot, s, d, w)
  PROVE  Arms(r) = Arms(t) \cup {[sleep |-> s, deadline |-> d, waker |-> w]}
<1>1. /\ slot \in 1 .. Len(r.slots) /\ Len(t.slots) <= Len(r.slots)
      /\ slot \in 1 .. Len(t.slots) => t.slots[slot].sequence = 0
      /\ \A k \in 1 .. Len(r.slots) : k # slot =>
           k \in 1 .. Len(t.slots) /\ Alike(t.slots[k], r.slots[k])
      /\ r.slots[slot].sequence = t.next_sequence /\ Shape(r)
  BY DEF Added
<1>2. PICK a : a = [sleep |-> s, deadline |-> d, waker |-> w] OBVIOUS
<1>3. Arm(r.slots[slot]) = a /\ r.slots[slot].sequence # 0 BY <1>1, <1>2 DEF Added, Arm, Shape
<1>4. Len(t.slots) \in Nat /\ Len(r.slots) \in Nat BY <1>1, ShapeFacts, QueueFields
<1>5. ASSUME NEW x \in Arms(r) PROVE x = a \/ x \in Arms(t)
  <2>1. PICK k \in 1 .. Len(r.slots) : r.slots[k].sequence # 0 /\ x = Arm(r.slots[k])
    BY ArmsHave
  <2>2. CASE k = slot BY <1>3, <2>1, <2>2
  <2>3. CASE k # slot
    <3>1. k \in 1 .. Len(t.slots) /\ Alike(t.slots[k], r.slots[k]) BY <1>1, <2>3
    <3>2. t.slots[k].sequence # 0 /\ x = Arm(t.slots[k]) BY <2>1, <3>1, AlikeArms
    <3> QED BY <3>1, <3>2, ArmsHave
  <2> QED BY <2>2, <2>3
<1>6. ASSUME NEW x \in Arms(t) PROVE x \in Arms(r)
  <2>1. PICK k \in 1 .. Len(t.slots) : t.slots[k].sequence # 0 /\ x = Arm(t.slots[k])
    BY ArmsHave
  <2>2. k # slot /\ k \in 1 .. Len(r.slots) BY <1>1, <1>4, <2>1
  <2>3. r.slots[k].sequence # 0 /\ x = Arm(r.slots[k]) BY <1>1, <2>1, <2>2, AlikeArms
  <2> QED BY <2>2, <2>3, ArmsHave
<1>7. a \in Arms(r) BY <1>1, <1>3, ArmsHave
<1> QED BY <1>2, <1>5, <1>6, <1>7

(* refresh replaces the waker its sleep is armed with.                     *)
LEMMA RefreshArms ==
  ASSUME NEW t, Shape(t), NEW z, Held(t, z), NEW slot \in 1 .. Len(t.slots), NEW w, NEW r,
         Rewoken(t, r, slot, w), t.slots[slot].sequence # 0, NEW s, t.slots[slot].sleep = s
  PROVE  Arms(r) = (Arms(t) \ OfSleep(s, Arms(t)))
                     \cup {[sleep |-> s, deadline |-> t.slots[slot].deadline, waker |-> w]}
<1>1. PICK a : a = [sleep |-> s, deadline |-> t.slots[slot].deadline, waker |-> w] OBVIOUS
<1>2. /\ Len(r.slots) = Len(t.slots)
      /\ \A k \in 1 .. Len(t.slots) : k # slot => r.slots[k] = t.slots[k]
      /\ r.slots[slot].sequence # 0 /\ Arm(r.slots[slot]) = a
  BY <1>1 DEF Rewoken, Arm
<1>3. \A k \in 1 .. Len(t.slots) : t.slots[k].sequence # 0 /\ t.slots[k].sleep = s => k = slot
  <2>1. z[s].key.slot = slot BY HeldKey
  <2> QED BY <2>1, HeldKey
<1>4. ASSUME NEW x \in Arms(r) PROVE x = a \/ (x \in Arms(t) /\ x.sleep # s)
  <2>1. PICK k \in 1 .. Len(t.slots) : r.slots[k].sequence # 0 /\ x = Arm(r.slots[k])
    BY <1>2, ArmsHave
  <2>2. CASE k = slot BY <1>2, <2>1, <2>2
  <2>3. CASE k # slot
    <3>1. t.slots[k].sequence # 0 /\ x = Arm(t.slots[k]) BY <1>2, <2>1, <2>3
    <3>2. x.sleep # s BY <1>3, <2>3, <3>1, ArmParts
    <3> QED BY <3>1, <3>2, ArmsHave
  <2> QED BY <2>2, <2>3
<1>5. ASSUME NEW x \in Arms(t), x.sleep # s PROVE x \in Arms(r)
  <2>1. PICK k \in 1 .. Len(t.slots) : t.slots[k].sequence # 0 /\ x = Arm(t.slots[k])
    BY ArmsHave
  <2>2. k # slot BY <1>5, <2>1, ArmParts
  <2>3. r.slots[k].sequence # 0 /\ x = Arm(r.slots[k]) BY <1>2, <2>1, <2>2
  <2> QED BY <1>2, <2>3, ArmsHave
<1>6. a \in Arms(r) BY <1>2, ArmsHave
<1> QED BY <1>1, <1>4, <1>5, <1>6 DEF OfSleep
(* What is armed, in terms of the slots.                                   *)
LEMMA AbstractArmed ==
  ASSUME ClockInv
  PROVE  {[sleep |-> e.sleep, deadline |-> e.deadline, waker |-> e.waker] : e \in Armed}
           = Arms(timers)
<1>1. ArmedBy(timers) = Arms(timers) BY ClockFacts, HeapArms
<1> QED BY <1>1, Zenon DEF ArmedBy, Armed, Arm

(* The same after a step.                                                  *)
LEMMA AbstractArmedNext ==
  ASSUME ClockInv'
  PROVE  {[sleep |-> e.sleep, deadline |-> e.deadline, waker |-> e.waker] : e \in Armed'}
           = Arms(timers')
<1>1. Shape(timers') BY DEF ClockInv
<1>2. ArmedBy(timers') = Arms(timers') BY <1>1, HeapArms
<1> QED BY <1>2, Zenon DEF ArmedBy, Armed, Arm

(* A live sleep is live once, with its deadline.                           *)
LEMMA LiveOnce ==
  ASSUME NEW z, NEW s \in Sleep
  PROVE  /\ z[s].live => OfSleep(s, Lives(z)) = {[sleep |-> s, deadline |-> z[s].deadline]}
         /\ ~z[s].live => OfSleep(s, Lives(z)) = {}
BY DEF OfSleep, Lives

(* A sleep begins.                                                         *)
LEMMA StartBegins ==
  ASSUME ClockInv, NEW s \in Sleep, NEW d \in Durations, Start(s, d)
  PROVE  Abstract!Begin(s)
<1>1. PICK x : x = [live |-> TRUE, deadline |-> IF now + d > MaxInstant THEN Never ELSE now + d,
                    key |-> None]
  OBVIOUS
<1>2. /\ ~sleeps[s].live /\ sleeps' = [sleeps EXCEPT ![s] = x]
      /\ now' = now /\ timers' = timers /\ woken' = woken /\ x.live
  BY <1>1, Zenon DEF Start
<1>3. PICK a : a = [sleep |-> s, deadline |-> x.deadline] OBVIOUS
<1>4. sleeps'[s] = x /\ \A u \in Sleep : u # s => sleeps'[u] = sleeps[u] BY <1>2, ClockFacts
<1>5. Lives(sleeps') = Lives(sleeps) \cup {a}
  <2>1. ASSUME NEW y \in Lives(sleeps') PROVE y \in Lives(sleeps) \cup {a}
    <3>1. PICK u \in Sleep : sleeps'[u].live /\ y = [sleep |-> u, deadline |-> sleeps'[u].deadline]
      BY DEF Lives
    <3>2. CASE u = s BY <1>3, <1>4, <3>1, <3>2
    <3>3. CASE u # s BY <1>4, <3>1, <3>3 DEF Lives
    <3> QED BY <3>2, <3>3
  <2>2. ASSUME NEW y \in Lives(sleeps) PROVE y \in Lives(sleeps')
    <3>1. PICK u \in Sleep : sleeps[u].live /\ y = [sleep |-> u, deadline |-> sleeps[u].deadline]
      BY DEF Lives
    <3>2. u # s /\ sleeps'[u] = sleeps[u] BY <1>2, <1>4, <3>1
    <3> QED BY <3>1, <3>2 DEF Lives
  <2>3. a \in Lives(sleeps') BY <1>2, <1>3, <1>4 DEF Lives
  <2> QED BY <2>1, <2>2, <2>3
<1>6. OfSleep(s, Lives(sleeps)) = {} BY <1>2, LiveOnce
<1>7. a \in Lives(sleeps') /\ a.sleep = s BY <1>3, <1>5
<1>8. Armed' = Armed BY <1>2 DEF Armed
<1> QED BY <1>2, <1>5, <1>6, <1>7, <1>8 DEF Abstract!Begin, Abstract!Of, OfSleep, Lives

(* A sleep ends.                                                           *)
LEMMA EndedEnds ==
  ASSUME ClockInv, ClockInv', NEW s \in Sleep, sleeps[s].live, Ended(s)
  PROVE  Abstract!End(s)
<1>1. /\ timers' = remove(timers, sleeps[s].key) /\ sleeps' = [sleeps EXCEPT ![s] = Gone]
      /\ woken' = {x \in woken : x.sleep # s} /\ now' = now
  BY DEF Ended
<1>2. Without(timers, timers', SlotsOf(timers, s)) BY <1>1, ClockFacts, RemoveOwn
<1>3. Arms(timers') = Arms(timers) \ OfSleep(s, Arms(timers)) BY <1>2, EndArms
<1>4. sleeps'[s] = Gone /\ \A u \in Sleep : u # s => sleeps'[u] = sleeps[u] BY <1>1, ClockFacts
<1>5. Lives(sleeps') = Lives(sleeps) \ OfSleep(s, Lives(sleeps))
  <2>1. ASSUME NEW y \in Lives(sleeps') PROVE y \in Lives(sleeps) /\ y.sleep # s
    <3>1. PICK u \in Sleep : sleeps'[u].live /\ y = [sleep |-> u, deadline |-> sleeps'[u].deadline]
      BY DEF Lives
    <3>2. u # s BY <1>4, <3>1 DEF Gone
    <3> QED BY <1>4, <3>1, <3>2 DEF Lives
  <2>2. ASSUME NEW y \in Lives(sleeps), y.sleep # s PROVE y \in Lives(sleeps')
    <3>1. PICK u \in Sleep : sleeps[u].live /\ y = [sleep |-> u, deadline |-> sleeps[u].deadline]
      BY DEF Lives
    <3>2. u # s /\ sleeps'[u] = sleeps[u] BY <1>4, <2>2, <3>1
    <3> QED BY <3>1, <3>2 DEF Lives
  <2> QED BY <2>1, <2>2 DEF OfSleep
<1>6. OfSleep(s, Lives(sleeps)) # {} BY LiveOnce
<1>7. woken' = woken \ OfSleep(s, woken) BY <1>1 DEF OfSleep
<1> QED BY <1>1, <1>3, <1>5, <1>6, <1>7, AbstractArmed, AbstractArmedNext
        DEF Abstract!End, Abstract!Of, OfSleep, Lives

(* A poll that waits on arms its sleep with its waker.                     *)
LEMMA RefreshWaits ==
  ASSUME ClockInv, ClockInv', NEW s \in Sleep, NEW w \in Waker, sleeps[s].live,
         now < sleeps[s].deadline, UNCHANGED <<now, woken>>, Lives(sleeps') = Lives(sleeps),
         Arms(timers') = (Arms(timers) \ OfSleep(s, Arms(timers)))
                           \cup {[sleep |-> s, deadline |-> sleeps[s].deadline, waker |-> w]}
  PROVE  Abstract!Wait(s, w)
<1>1. PICK x : x = [sleep |-> s, deadline |-> sleeps[s].deadline] OBVIOUS
<1>2. x \in OfSleep(s, Lives(sleeps)) /\ x.deadline = sleeps[s].deadline BY <1>1, LiveOnce
<1> QED BY <1>2, AbstractArmed, AbstractArmedNext DEF Abstract!Wait, Abstract!Of, OfSleep, Lives

(* The core fires.                                                         *)
LEMMA FireFires ==
  ASSUME ClockInv, ClockInv', Fire
  PROVE  Abstract!Fire
<1>1. PICK B : B = {a \in Arms(timers) : a.deadline <= now} OBVIOUS
<1>2. Without(timers, timers', DueSlots(timers, now)) BY FireStep
<1>3. /\ Arms(timers') = Arms(timers) \ B
      /\ {WakeOf(timers.slots[k]) : k \in DueSlots(timers, now)} =
           {[sleep |-> a.sleep, waker |-> a.waker] : a \in B}
  BY <1>1, <1>2, FireArms
<1>4. woken' = woken \cup {[sleep |-> a.sleep, waker |-> a.waker] : a \in B} BY <1>3, FireStep
<1>5. B # {}
  <2>1. {[sleep |-> a.sleep, waker |-> a.waker] : a \in B} # {} BY <1>3, FireStep
  <2> QED BY <2>1
<1>6. now' = now /\ sleeps' = sleeps BY DEF Fire
<1>7. Abstract!Due = B BY <1>1, AbstractArmed DEF Abstract!Due
<1> QED BY <1>3, <1>4, <1>5, <1>6, <1>7, AbstractArmed, AbstractArmedNext DEF Abstract!Fire
(* Every step of the clock is a step of SleepSet, or changes nothing of it.*)
LEMMA ClockSteps ==
  ASSUME ClockInv, ClockInv', [ClockNext]_clockVars
  PROVE  Abstract!Next \/ UNCHANGED <<now, sleeps, timers, woken>>
<1>1. CASE UNCHANGED clockVars BY <1>1 DEF clockVars
<1>2. ASSUME NEW s \in Sleep, NEW d \in Durations, Start(s, d) PROVE Abstract!Next
  BY <1>2, StartBegins DEF Abstract!Next
<1>3. ASSUME NEW s \in Sleep, NEW w \in Waker, Poll(s, w) PROVE Abstract!Next
  <2>1. sleeps[s].live BY <1>3 DEF Poll
  <2>2. CASE Ended(s) BY <2>1, <2>2, EndedEnds DEF Abstract!Next
  <2>3. CASE /\ now < sleeps[s].deadline /\ sleeps[s].key # None
             /\ timers' = refresh(timers, sleeps[s].key, w) /\ UNCHANGED <<now, sleeps, woken>>
    <3>1. PICK slot : slot = sleeps[s].key.slot OBVIOUS
    <3>2. /\ slot \in 1 .. Len(timers.slots) /\ timers.slots[slot].sleep = s
          /\ timers.slots[slot].deadline = sleeps[s].deadline /\ timers.slots[slot].sequence # 0
      BY <2>3, <3>1, ClockFacts, PollFinds
    <3>3. Rewoken(timers, timers', slot, w) BY <2>3, <3>1, RefreshStep
    <3>4. Arms(timers') = (Arms(timers) \ OfSleep(s, Arms(timers)))
                            \cup {[sleep |-> s, deadline |-> sleeps[s].deadline, waker |-> w]}
      BY <3>2, <3>3, ClockFacts, RefreshArms
    <3>5. Abstract!Wait(s, w) BY <2>1, <2>3, <3>4, RefreshWaits
    <3> QED BY <3>5 DEF Abstract!Next
  <2>4. CASE /\ now < sleeps[s].deadline /\ sleeps[s].key = None
             /\ timers' = insert(timers, s, sleeps[s].deadline, w).timers
             /\ sleeps' = [sleeps EXCEPT ![s].key = insert(timers, s, sleeps[s].deadline, w).key]
             /\ UNCHANGED <<now, woken>>
    <3>1. Added(timers, timers', insert(timers, s, sleeps[s].deadline, w).key.slot, s,
                sleeps[s].deadline, w)
      BY <2>1, <2>4, InsertStep
    <3>2. Arms(timers') =
            Arms(timers) \cup {[sleep |-> s, deadline |-> sleeps[s].deadline, waker |-> w]}
      BY <3>1, ClockFacts, InsertArms
    <3>3. OfSleep(s, Arms(timers)) = {} BY <2>4, ClockFacts, KeylessUnarmed
    <3>4. Lives(sleeps') = Lives(sleeps)
      <4>1. \A u \in Sleep : /\ sleeps'[u].live = sleeps[u].live
                             /\ sleeps'[u].deadline = sleeps[u].deadline
        BY <2>4, ClockFacts DEF Sleeping
      <4> QED BY <4>1 DEF Lives
    <3>5. Abstract!Wait(s, w) BY <2>1, <2>4, <3>2, <3>3, <3>4, RefreshWaits
    <3> QED BY <3>5 DEF Abstract!Next
  <2> QED BY <1>3, <2>2, <2>3, <2>4, Zenon DEF Poll
<1>4. ASSUME NEW s \in Sleep, DropSleep(s) PROVE Abstract!Next
  BY <1>4, EndedEnds DEF DropSleep, Abstract!Next
<1>5. CASE Fire BY <1>5, FireFires DEF Abstract!Next
<1>6. CASE Tick
  <2>1. now' > now /\ timers' = timers /\ sleeps' = sleeps /\ woken' = woken
    BY <1>6, ClockFacts DEF Tick
  <2>2. Abstract!Tick BY <2>1 DEF Abstract!Tick, Armed
  <2> QED BY <2>2 DEF Abstract!Next
<1> QED BY <1>1, <1>2, <1>3, <1>4, <1>5, <1>6, Zenon DEF ClockNext

(* The clock starts as SleepSet does.                                      *)
LEMMA ClockStarts == ClockInit => Abstract!Init
<1> SUFFICES ASSUME ClockInit PROVE Abstract!Init OBVIOUS
<1>1. now = 0 /\ woken = {} /\ timers.heap = <<>> /\ \A s \in Sleep : ~sleeps[s].live
  BY DEF ClockInit, Gone
<1>2. Armed = {} BY <1>1 DEF Armed
<1> QED BY <1>1, <1>2 DEF Abstract!Init

(* The clock of a core implements SleepSet, for any number of sleeps, any  *)
(* deadlines and a heap of any size: ending one sleep never disarms        *)
(* another, and a fire wakes exactly what is due, through the waker of its *)
(* last poll (Sleep::poll, refresh, remove, fire).                         *)
THEOREM ClockImplements == ClockSpec => ClockPromise
<1>1. ClockInv /\ ClockInv' /\ [ClockNext]_clockVars => [Abstract!Next]_(Abstract!vars)
  <2> SUFFICES ASSUME ClockInv, ClockInv', [ClockNext]_clockVars
               PROVE  Abstract!Next \/ UNCHANGED Abstract!vars
    OBVIOUS
  <2>1. CASE UNCHANGED <<now, sleeps, timers, woken>> BY <2>1 DEF Abstract!vars, Armed
  <2> QED BY <2>1, ClockSteps
<1> QED BY <1>1, ClockStarts, ClockInvariant, PTL DEF ClockSpec, ClockPromise, Abstract!Spec
=============================================================================
