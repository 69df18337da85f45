-------------------------- MODULE SlotLeaseProofs --------------------------
(***************************************************************************)
(* SlotLease keeps its inductive invariant for every set of slots and      *)
(* threads and every bound.                                                *)
(***************************************************************************)
EXTENDS SlotLeaseInv, TLAPS, FiniteSetTheorems, SequenceTheorems

USE DEF Gen, Content, Cleared, Epoch, Era, NoTarget, CompleteSteps

(* A transition of the word keeps it a word.                               *)
LEMMA WordTyped ==
  ASSUME NEW w \in Word
  PROVE  /\ claim(w) \in Word /\ hold(w) \in Word /\ hold(claim(w)) \in Word
         /\ lease(w) \in Word
         /\ unlease(w) \in Word /\ begin_import(w) \in Word
         /\ close_leased(w) \in Word /\ close(w) \in Word /\ retire(w) \in Word
         /\ w.readers < MaxReaders => pin(w) \in Word
         /\ w.readers > 0 => unpin(w) \in Word
<1>1. /\ claim(w) \in Word /\ hold(w) \in Word /\ hold(claim(w)) \in Word
      /\ lease(w) \in Word /\ unlease(w) \in Word /\ begin_import(w) \in Word
  BY DEF Word, SlotState, claim, hold, lease, unlease, begin_import, with_state
<1>2. close_leased(w) \in Word /\ close(w) \in Word
  BY DEF Word, SlotState, close_leased, close
<1>3. retire(w) \in Word
  <2>1. next_generation(w.gen) \in 0..GenMask BY WordAssumption DEF next_generation, Word
  <2>2. NewWord \in Word BY WordAssumption DEF Word, SlotState, NewWord
  <2> QED BY <2>1, <2>2 DEF retire, Word
<1>4. w.readers < MaxReaders => pin(w) \in Word BY WordAssumption DEF Word, pin
<1>5. w.readers > 0 => unpin(w) \in Word BY WordAssumption DEF Word, unpin
<1> QED BY <1>1, <1>2, <1>3, <1>4, <1>5

(* The initial states are of their types.                                  *)
LEMMA InitTyped == Init => TypeInv
<1> SUFFICES ASSUME Init PROVE TypeInv
  OBVIOUS
<1>1. NewWord \in Word BY WordAssumption DEF Word, SlotState, NewWord
<1>2. NoCall \in Call BY WordAssumption, LeaseAssumption DEF NoCall, Call, Ops, Steps
<1>3. NoWaiter \in Waiter BY WordAssumption DEF NoWaiter, Waiter
<1>4. 0 \in Epoch /\ 1 \in Era BY LeaseAssumption
<1>5. ArenaOK BY <1>1, <1>4, WordAssumption, LeaseAssumption DEF Init, ArenaOK
<1>6. IntakeOK BY <1>4 DEF Init, IntakeOK
<1>7. AllocOK BY LeaseAssumption DEF Init, AllocOK
<1>8. QueueOK BY <1>3 DEF Init, QueueOK
<1>9. TurnOK BY <1>4 DEF Init, TurnOK, Phases
<1>10. TargetOK BY <1>4 DEF Init, TargetOK
<1>11. ThreadOK BY <1>2 DEF Init, ThreadOK
<1>12. PhaseOK /\ CallOK BY DEF Init, PhaseOK, CallOK, NoCall
<1> QED BY <1>5, <1>6, <1>7, <1>8, <1>9, <1>10, <1>11, <1>12 DEF TypeInv, TypeOK

(* A step that leaves a group of variables alone keeps the group's types.  *)
LEMMA FrameTyped ==
  /\ ArenaOK /\ UNCHANGED arenaVars => ArenaOK'
  /\ IntakeOK /\ UNCHANGED intakeVars => IntakeOK'
  /\ AllocOK /\ UNCHANGED allocVars => AllocOK'
  /\ QueueOK /\ UNCHANGED queueVars => QueueOK'
  /\ TurnOK /\ UNCHANGED turnVars => TurnOK'
  /\ TargetOK /\ UNCHANGED targetVars => TargetOK'
  /\ ThreadOK /\ UNCHANGED threadVars => ThreadOK'
  /\ CallOK /\ UNCHANGED call => CallOK'
BY DEF ArenaOK, IntakeOK, AllocOK, QueueOK, TurnOK, TargetOK, ThreadOK, CallOK, arenaVars,
       intakeVars, allocVars, queueVars, turnVars, targetVars, threadVars

(* A retirement, made or deferred, keeps word, quarantine and late list.   *)
LEMMA RetireTyped ==
  ASSUME TypeInv, NEW w \in [Slot -> Word], NEW id \in Id, RetireOrDefer(w, id)
  PROVE  word' \in [Slot -> Word] /\ quarantine' \in Seq(Slot \X Epoch) /\ late' \in SUBSET Id
<1>1. w[id.slot] \in Word /\ id.slot \in Slot BY DEF Id
<1>2. retire(w[id.slot]) \in Word BY <1>1, WordTyped
<1>3. <<id.slot, Stamp>> \in Slot \X Epoch BY <1>1 DEF Stamp, TypeInv, TypeOK, IntakeOK
<1>4. [w EXCEPT ![id.slot] = retire(@)] \in [Slot -> Word] BY <1>1, <1>2
<1>5. Append(quarantine, <<id.slot, Stamp>>) \in Seq(Slot \X Epoch)
  BY <1>3, AppendProperties DEF TypeInv, TypeOK, AllocOK
<1> QED BY <1>4, <1>5 DEF RetireOrDefer, TypeInv, TypeOK, AllocOK, QueueOK, Deferred

(* Closing what a slot holds leaves words.                                 *)
LEMMA ClosedTyped ==
  ASSUME TypeInv, NEW id \in Id
  PROVE  Closed(id) \in [Slot -> Word] /\ LeaseClosed(id) \in [Slot -> Word]
<1>1. \A i \in Slot : close_leased(word[i]) \in Word /\ close(word[i]) \in Word
  BY WordTyped DEF TypeInv, TypeOK, ArenaOK
<1>2. id.slot \in Slot BY DEF Id
<1> QED BY <1>1, <1>2 DEF Closed, LeaseClosed, TypeInv, TypeOK, ArenaOK

(* The retirement of a lease guard keeps the types it touches.             *)
LEMMA GuardRetireTyped ==
  ASSUME TypeInv, NEW i \in Slot, GuardRetire(i), GuardFrame, UNCHANGED wpc
  PROVE  TypeInv'
<1> DEFINE id == [slot |-> i, gen |-> waiter[i].gen]
<1>1. id \in Id BY DEF TypeInv, TypeOK, QueueOK, Waiter, Id
<1>2. word' \in [Slot -> Word] /\ quarantine' \in Seq(Slot \X Epoch) /\ late' \in SUBSET Id
  BY <1>1, ClosedTyped, RetireTyped DEF GuardRetire
<1>3. ArenaOK' BY <1>2 DEF GuardFrame, TypeInv, TypeOK, ArenaOK
<1>4. AllocOK' BY <1>2 DEF GuardFrame, TypeInv, TypeOK, AllocOK
<1>5. NoWaiter \in Waiter BY WordAssumption DEF NoWaiter, Waiter
<1>6. QueueOK' BY <1>2, <1>5 DEF GuardFrame, GuardRetire, TypeInv, TypeOK, QueueOK
<1>7. UNCHANGED <<intakeVars, turnVars, targetVars, threadVars>> BY DEF GuardFrame
<1>8. IntakeOK' /\ TurnOK' /\ TargetOK' /\ ThreadOK' /\ CallOK'
  BY <1>7, FrameTyped DEF TypeInv, TypeOK, threadVars
<1>9. PhaseOK' BY <1>7 DEF TypeInv, PhaseOK, intakeVars, turnVars
<1> QED BY <1>3, <1>4, <1>6, <1>8, <1>9 DEF TypeInv, TypeOK

(* A claim of a free index keeps the types it touches.                     *)
LEMMA ClaimTyped ==
  ASSUME TypeInv, NEW i \in Slot, NEW shelf \in SUBSET Slot, NEW content \in [Slot -> Content],
         Claim(i, word, shelf, content), UNCHANGED <<lease_epoch, lock, posting, late, target>>
  PROVE  ArenaOK' /\ QueueOK' /\ requests' \in 0..MaxRequests /\ free' \in SUBSET Slot
<1>1. word[i] \in Word /\ word[i].gen \in Gen BY DEF TypeInv, TypeOK, ArenaOK, Word
<1>2. hold(claim(word[i])) \in Word BY <1>1, WordTyped
<1>3. ArenaOK' BY <1>1, <1>2, WordAssumption DEF Claim, TypeInv, TypeOK, ArenaOK
<1>4. [slot |-> i, gen |-> word[i].gen] \in Id /\ [gen |-> word[i].gen, at |-> "waiting"] \in Waiter
  BY <1>1 DEF Id, Waiter
<1>5. QueueOK' BY <1>4 DEF Claim, TypeInv, TypeOK, QueueOK
<1>6. requests' \in 0..MaxRequests /\ free' \in SUBSET Slot
  BY LeaseAssumption DEF Claim, TypeInv, TypeOK, AllocOK
<1> QED BY <1>3, <1>5, <1>6

(* The steps of the futures of requests keep the types.                    *)
LEMMA FutureTyped == TypeInv /\ Future => TypeInv'
<1> SUFFICES ASSUME TypeInv, NEW i \in Slot,
                    \/ Allocate(i) \/ FutureGone(i) \/ DropFuture(i)
                    \/ ImportBegin(i) \/ ImportTake(i) \/ ImportRetire(i)
             PROVE  TypeInv'
  BY DEF Future
<1>1. CASE Allocate(i)
  <2>1. free \in SUBSET Slot /\ payload \in [Slot -> Content]
    BY DEF TypeInv, TypeOK, AllocOK, ArenaOK
  <2>2. ArenaOK' /\ QueueOK' /\ requests' \in 0..MaxRequests /\ free' \in SUBSET Slot
    BY <1>1, <2>1, ClaimTyped DEF Allocate
  <2>3. UNCHANGED <<quarantine, intakeVars, turnVars, targetVars, threadVars>> BY <1>1 DEF Allocate
  <2>4. AllocOK' BY <2>2, <2>3 DEF TypeInv, TypeOK, AllocOK
  <2>5. IntakeOK' /\ TurnOK' /\ TargetOK' /\ ThreadOK' /\ CallOK'
    BY <2>3, FrameTyped DEF TypeInv, TypeOK, threadVars
  <2>6. PhaseOK' BY <2>3 DEF TypeInv, PhaseOK, intakeVars, turnVars
  <2> QED BY <2>2, <2>4, <2>5, <2>6 DEF TypeInv, TypeOK
<1>2. CASE FutureGone(i) BY <1>2, GuardRetireTyped DEF FutureGone, GuardFrame, turnVars
<1>3. CASE DropFuture(i) BY <1>3, GuardRetireTyped DEF DropFuture, GuardFrame, turnVars
<1>4. CASE ImportBegin(i)
  <2>1. CASE GuardRetire(i) BY <1>4, <2>1, GuardRetireTyped DEF ImportBegin, GuardFrame, turnVars
  <2>2. CASE ~GuardRetire(i)
    <3>1. begin_import(word[i]) \in Word BY WordTyped DEF TypeInv, TypeOK, ArenaOK
    <3>2. /\ word' = [word EXCEPT ![i] = begin_import(@)]
          /\ waiter' = [waiter EXCEPT ![i].at = "importing"]
          /\ UNCHANGED <<lease_epoch, payload, lock, staged, quarantine, free, requests,
                         ready, posting, late, target>>
      BY <1>4, <2>2 DEF ImportBegin, GuardFrame
    <3>a. ArenaOK' BY <3>1, <3>2 DEF TypeInv, TypeOK, ArenaOK
    <3>b. QueueOK' /\ AllocOK' BY <3>2 DEF TypeInv, TypeOK, QueueOK, AllocOK, Waiter
    <3>3. UNCHANGED <<intakeVars, turnVars, targetVars, threadVars>>
      BY <1>4 DEF ImportBegin, GuardFrame
    <3>4. IntakeOK' /\ TurnOK' /\ TargetOK' /\ ThreadOK' /\ CallOK'
      BY <3>3, FrameTyped DEF TypeInv, TypeOK, threadVars
    <3>5. PhaseOK' BY <3>3 DEF TypeInv, PhaseOK, intakeVars, turnVars
    <3> QED BY <3>a, <3>b, <3>4, <3>5 DEF TypeInv, TypeOK
  <2> QED BY <2>1, <2>2
<1>5. CASE ImportTake(i)
  <2>1. ArenaOK' /\ QueueOK'
    BY <1>5 DEF ImportTake, TypeInv, TypeOK, ArenaOK, QueueOK, Waiter
  <2>2. UNCHANGED <<intakeVars, allocVars, turnVars, targetVars, threadVars>> BY <1>5 DEF ImportTake
  <2>3. IntakeOK' /\ AllocOK' /\ TurnOK' /\ TargetOK' /\ ThreadOK' /\ CallOK'
    BY <2>2, FrameTyped DEF TypeInv, TypeOK, threadVars
  <2>4. PhaseOK' BY <2>2 DEF TypeInv, PhaseOK, intakeVars, turnVars
  <2> QED BY <2>1, <2>3, <2>4 DEF TypeInv, TypeOK
<1>6. CASE ImportRetire(i) BY <1>6, GuardRetireTyped DEF ImportRetire, GuardFrame, turnVars
<1> QED BY <1>1, <1>2, <1>3, <1>4, <1>5, <1>6

(* A release of the front of the quarantine keeps the types it touches.    *)
LEMMA ReleaseTyped ==
  ASSUME TypeInv, NEW n \in 0..Len(quarantine)
  PROVE  /\ SubSeq(quarantine, n + 1, Len(quarantine)) \in Seq(Slot \X Epoch)
         /\ Released(n) \in SUBSET Slot
         /\ ReleasedPayload(n) \in [Slot -> Content]
<1>1. quarantine \in Seq(Slot \X Epoch) BY DEF TypeInv, TypeOK, AllocOK
<1>2. \A k \in 1..n : quarantine[k] \in Slot \X Epoch BY <1>1
<1>3. SubSeq(quarantine, n + 1, Len(quarantine)) \in Seq(Slot \X Epoch)
  BY <1>1, SubSeqProperties
<1>4. Popped(n) \subseteq Slot BY <1>2 DEF Popped
<1>5. Released(n) \in SUBSET Slot BY <1>4 DEF Released, TypeInv, TypeOK, AllocOK
<1>6. payload \in [Slot -> Content] /\ Cleared \in Content
  BY WordAssumption DEF TypeInv, TypeOK, ArenaOK, Content, Cleared, Gen
<1>7. ReleasedPayload(n) \in [Slot -> Content] BY <1>6 DEF ReleasedPayload
<1> QED BY <1>3, <1>5, <1>7

(* The steps of the worker's turn keep the types.                          *)
LEMMA TurnTyped == TypeInv /\ Turn => TypeInv'
<1> SUFFICES ASSUME TypeInv, Turn PROVE TypeInv'
  OBVIOUS
<1> USE DEF TypeInv, TypeOK
<1>1. CASE AllocateExhausted
  <2>1. ArenaOK' /\ IntakeOK' /\ AllocOK' /\ QueueOK' /\ TargetOK' /\ ThreadOK' /\ CallOK'
    BY <1>1, FrameTyped DEF AllocateExhausted, threadVars
  <2>2. TurnOK' /\ PhaseOK' BY <1>1 DEF AllocateExhausted, TurnOK, IntakeOK, PhaseOK, Phases
  <2> QED BY <2>1, <2>2
<1>2. CASE ReleaseAndAllocate
  <2>1. PICK n \in 0..Len(quarantine) :
          /\ quarantine' = SubSeq(quarantine, n + 1, Len(quarantine))
          /\ \/ \E i \in Slot : Claim(i, word, Released(n), ReleasedPayload(n))
             \/ /\ free' = Released(n)
                /\ payload' = ReleasedPayload(n)
                /\ UNCHANGED <<word, staged, waiter, ready, requests>>
    BY <1>2 DEF ReleaseAndAllocate
  <2>2. /\ quarantine' \in Seq(Slot \X Epoch)
        /\ Released(n) \in SUBSET Slot /\ ReleasedPayload(n) \in [Slot -> Content]
    BY <2>1, ReleaseTyped
  <2>3. UNCHANGED <<lease_epoch, lock, posting, late, target>> BY <1>2 DEF ReleaseAndAllocate
  <2>4. ArenaOK' /\ QueueOK' /\ requests' \in 0..MaxRequests /\ free' \in SUBSET Slot
    <3>1. CASE \E i \in Slot : Claim(i, word, Released(n), ReleasedPayload(n))
      BY <2>2, <2>3, <3>1, ClaimTyped
    <3>2. CASE /\ free' = Released(n)
               /\ payload' = ReleasedPayload(n)
               /\ UNCHANGED <<word, staged, waiter, ready, requests>>
      BY <2>2, <2>3, <3>2 DEF ArenaOK, QueueOK, AllocOK
    <3> QED BY <2>1, <3>1, <3>2
  <2>5. IntakeOK' /\ TargetOK' /\ ThreadOK' /\ CallOK'
    BY <1>2, FrameTyped DEF ReleaseAndAllocate, threadVars
  <2>6. TurnOK' /\ PhaseOK'
    BY <1>2, LeaseAssumption DEF ReleaseAndAllocate, TurnOK, PhaseOK, Phases
  <2> QED BY <2>2, <2>4, <2>5, <2>6 DEF AllocOK
<1>3. CASE Drain
  <2>1. ArenaOK' /\ AllocOK' /\ TargetOK' /\ ThreadOK' /\ CallOK'
    BY <1>3, FrameTyped DEF Drain, threadVars
  <2>2. IntakeOK' BY <1>3 DEF Drain, IntakeOK
  <2>3. waiter' \in [Slot -> Waiter] BY <1>3 DEF Drain, QueueOK, Waiter
  <2>4. QueueOK' BY <1>3, <2>3 DEF Drain, QueueOK, IntakeOK
  <2>5. TurnOK' /\ PhaseOK' BY <1>3 DEF Drain, TurnOK, PhaseOK, IntakeOK, Phases
  <2> QED BY <2>1, <2>2, <2>4, <2>5
<1>4. CASE LoseLeases
  <2>1. IntakeOK' /\ AllocOK' /\ TargetOK' /\ ThreadOK' /\ CallOK'
    BY <1>4, FrameTyped DEF LoseLeases, threadVars
  <2>2. \A i \in Slot : close_leased(word[i]) \in Word BY WordTyped DEF ArenaOK
  <2>3. ArenaOK' BY <1>4, <2>2 DEF LoseLeases, ArenaOK
  <2>4. waiter' \in [Slot -> Waiter] BY <1>4 DEF LoseLeases, QueueOK, Waiter
  <2>5. QueueOK' BY <1>4, <2>4 DEF LoseLeases, QueueOK
  <2>6. TurnOK' /\ PhaseOK' BY <1>4 DEF LoseLeases, TurnOK, PhaseOK, Phases
  <2> QED BY <2>1, <2>3, <2>5, <2>6
<1>5. CASE LoseJob
  <2>1. IntakeOK' /\ TurnOK' /\ TargetOK' /\ ThreadOK' /\ CallOK' /\ PhaseOK'
    BY <1>5, FrameTyped DEF LoseJob, threadVars, PhaseOK, intakeVars, turnVars
  <2>2. Head(ready) \in Id /\ Tail(ready) \in Seq(Id)
    BY <1>5, HeadTailProperties DEF LoseJob, QueueOK
  <2>3. word' \in [Slot -> Word] /\ quarantine' \in Seq(Slot \X Epoch) /\ late' \in SUBSET Id
    <3>1. CASE Waiting(Head(ready)) BY <1>5, <3>1 DEF LoseJob, ArenaOK, AllocOK, QueueOK
    <3>2. CASE ~Waiting(Head(ready))
      BY <1>5, <2>2, <3>2, ClosedTyped, RetireTyped DEF LoseJob
    <3> QED BY <3>1, <3>2
  <2>4. ArenaOK' /\ AllocOK' BY <1>5, <2>3 DEF LoseJob, ArenaOK, AllocOK
  <2>5. waiter' \in [Slot -> Waiter]
    <3>1. waiter \in [Slot -> Waiter] /\ Head(ready).slot \in Slot BY <2>2 DEF QueueOK, Id
    <3>2. [waiter[Head(ready).slot] EXCEPT !.at = "gone"] \in Waiter BY <3>1 DEF Waiter
    <3>3. \/ UNCHANGED waiter
          \/ waiter' = [waiter EXCEPT ![Head(ready).slot].at = "gone"]
      BY <1>5 DEF LoseJob
    <3> QED BY <3>1, <3>2, <3>3
  <2>6. QueueOK' BY <1>5, <2>2, <2>3, <2>5 DEF LoseJob, QueueOK
  <2> QED BY <2>1, <2>4, <2>6
<1>6. CASE SettleDetached
  <2>1. ArenaOK' /\ AllocOK' /\ TargetOK' /\ ThreadOK' /\ CallOK'
    BY <1>6, FrameTyped DEF SettleDetached, threadVars
  <2>2. IntakeOK' BY <1>6 DEF SettleDetached, settle, IntakeOK
  <2>3. QueueOK' /\ TurnOK' /\ PhaseOK'
    BY <1>6 DEF SettleDetached, QueueOK, TurnOK, PhaseOK, Phases
  <2> QED BY <2>1, <2>2, <2>3
<1>7. CASE SettleGone
  <2>1. ArenaOK' /\ AllocOK' /\ QueueOK' /\ TargetOK' /\ ThreadOK' /\ CallOK'
    BY <1>7, FrameTyped DEF SettleGone, threadVars
  <2>2. IntakeOK' BY <1>7 DEF SettleGone, settle, IntakeOK
  <2>3. TurnOK' /\ PhaseOK' BY <1>7 DEF SettleGone, TurnOK, PhaseOK, Phases
  <2> QED BY <2>1, <2>2, <2>3
<1>8. CASE LoadFloor
  <2>1. ArenaOK' /\ IntakeOK' /\ AllocOK' /\ QueueOK' /\ TargetOK' /\ ThreadOK' /\ CallOK'
    BY <1>8, FrameTyped DEF LoadFloor, threadVars
  <2>2. TurnOK' /\ PhaseOK' BY <1>8 DEF LoadFloor, TurnOK, IntakeOK, PhaseOK, Phases
  <2> QED BY <2>1, <2>2
<1>9. CASE Release
  <2>1. IntakeOK' /\ QueueOK' /\ TargetOK' /\ ThreadOK' /\ CallOK'
    BY <1>9, FrameTyped DEF Release, threadVars
  <2>2. /\ quarantine' \in Seq(Slot \X Epoch) /\ free' \in SUBSET Slot
        /\ payload' \in [Slot -> Content]
    BY <1>9, ReleaseTyped DEF Release
  <2>3. ArenaOK' /\ AllocOK' BY <1>9, <2>2 DEF Release, ArenaOK, AllocOK
  <2>4. TurnOK' /\ PhaseOK' BY <1>9, LeaseAssumption DEF Release, TurnOK, PhaseOK, Phases
  <2> QED BY <2>1, <2>3, <2>4
<1>10. CASE \E id \in late : LateRetire(id)
  <2>1. PICK id \in late : LateRetire(id) BY <1>10
  <2>2. id \in Id BY DEF QueueOK
  <2>3. word' \in [Slot -> Word] /\ quarantine' \in Seq(Slot \X Epoch) /\ late' \in SUBSET Id
    BY <2>1, <2>2, ClosedTyped, RetireTyped DEF LateRetire
  <2>4. ArenaOK' /\ AllocOK' /\ QueueOK' BY <2>1, <2>3 DEF LateRetire, ArenaOK, AllocOK, QueueOK
  <2>5. IntakeOK' /\ TurnOK' /\ TargetOK' /\ ThreadOK' /\ CallOK' /\ PhaseOK'
    BY <2>1, FrameTyped DEF LateRetire, threadVars, PhaseOK, intakeVars, turnVars
  <2> QED BY <2>4, <2>5
<1>11. CASE PostNext
  <2>1. ArenaOK' /\ IntakeOK' /\ AllocOK' /\ QueueOK' /\ TargetOK' /\ ThreadOK' /\ CallOK'
    BY <1>11, FrameTyped DEF PostNext, threadVars
  <2>2. TurnOK' /\ PhaseOK' BY <1>11 DEF PostNext, TurnOK, PhaseOK, Phases, intakeVars
  <2> QED BY <2>1, <2>2
<1>12. CASE FillJob
  <2>1. IntakeOK' /\ TurnOK' /\ TargetOK' /\ ThreadOK' /\ CallOK' /\ PhaseOK'
    BY <1>12, FrameTyped DEF FillJob, threadVars, PhaseOK, intakeVars, turnVars
  <2>2. Head(ready) \in Id /\ Tail(ready) \in Seq(Id)
    BY <1>12, HeadTailProperties DEF FillJob, QueueOK
  <2>3. Head(ready).slot \in Slot /\ lease(word[Head(ready).slot]) \in Word
    BY <2>2, WordTyped DEF ArenaOK, Id
  <2>4. /\ word' \in [Slot -> Word] /\ quarantine' \in Seq(Slot \X Epoch) /\ late' \in SUBSET Id
        /\ lease_epoch' \in [Slot -> Epoch] /\ posting' \in Seq(Id)
    <3>1. CASE CanLease(word[Head(ready).slot], Head(ready).gen)
      <4>1. published + 1 \in Epoch BY <1>12, LeaseAssumption DEF FillJob, PhaseOK, IntakeOK
      <4>2. Append(posting, Head(ready)) \in Seq(Id) BY <2>2, AppendProperties DEF QueueOK
      <4> QED BY <1>12, <2>3, <3>1, <4>1, <4>2 DEF FillJob, ArenaOK, AllocOK, QueueOK
    <3>2. CASE ~CanLease(word[Head(ready).slot], Head(ready).gen)
      BY <1>12, <2>2, <3>2, ClosedTyped, RetireTyped DEF FillJob, ArenaOK, QueueOK
    <3> QED BY <3>1, <3>2
  <2>5. ArenaOK' /\ AllocOK' /\ QueueOK'
    BY <1>12, <2>2, <2>4 DEF FillJob, ArenaOK, AllocOK, QueueOK
  <2> QED BY <2>1, <2>5
<1>13. CASE FillEmpty
  <2>1. ArenaOK' /\ IntakeOK' /\ AllocOK' /\ QueueOK' /\ TargetOK' /\ ThreadOK' /\ CallOK'
    BY <1>13, FrameTyped DEF FillEmpty, threadVars
  <2>2. TurnOK' /\ PhaseOK' BY <1>13 DEF FillEmpty, TurnOK, PhaseOK, Phases
  <2> QED BY <2>1, <2>2
<1>14. CASE Publish
  <2>1. ArenaOK' /\ AllocOK' /\ QueueOK' /\ TargetOK' /\ ThreadOK' /\ CallOK'
    BY <1>14, FrameTyped DEF Publish, threadVars
  <2>2. IntakeOK' BY <1>14, LeaseAssumption DEF Publish, IntakeOK, PhaseOK
  <2>3. TurnOK' /\ PhaseOK' BY <1>14 DEF Publish, TurnOK, PhaseOK, Phases, IntakeOK
  <2> QED BY <2>1, <2>2, <2>3
<1>15. CASE OfferTaken
  <2>1. ArenaOK' /\ IntakeOK' /\ AllocOK' /\ ThreadOK' /\ CallOK'
    BY <1>15, FrameTyped DEF OfferTaken, threadVars
  <2>2. \A k \in DOMAIN posting : <<posting[k], published>> \in Id \X Epoch
    BY DEF QueueOK, IntakeOK
  <2>3. TargetOK' BY <1>15, <2>2 DEF OfferTaken, TargetOK, IntakeOK
  <2>4. QueueOK' BY <1>15 DEF OfferTaken, QueueOK
  <2>5. TurnOK' /\ PhaseOK' BY <1>15 DEF OfferTaken, TurnOK, PhaseOK, Phases
  <2> QED BY <2>1, <2>3, <2>4, <2>5
<1>16. CASE OfferRefused
  <2>1. AllocOK' /\ TargetOK' /\ ThreadOK' /\ CallOK'
    BY <1>16, FrameTyped DEF OfferRefused, threadVars
  <2>2. \A i \in Slot : unlease(word[i]) \in Word BY WordTyped DEF ArenaOK
  <2>3. ArenaOK' BY <1>16, <2>2 DEF OfferRefused, ArenaOK
  <2>4. IntakeOK' BY <1>16, LeaseAssumption DEF OfferRefused, IntakeOK, PhaseOK
  <2>5. posting \o ready \in Seq(Id) BY ConcatProperties DEF QueueOK
  <2>6. QueueOK' BY <1>16, <2>5 DEF OfferRefused, QueueOK
  <2>7. TurnOK' /\ PhaseOK' BY <1>16 DEF OfferRefused, TurnOK, PhaseOK, Phases
  <2> QED BY <2>1, <2>3, <2>4, <2>6, <2>7
<1>17. CASE PostEvents
  <2>1. ArenaOK' /\ AllocOK' /\ QueueOK' /\ TargetOK' /\ ThreadOK' /\ CallOK'
    BY <1>17, FrameTyped DEF PostEvents, threadVars
  <2>2. IntakeOK' BY <1>17, LeaseAssumption DEF PostEvents, IntakeOK
  <2>3. TurnOK' /\ PhaseOK'
    BY <1>17, LeaseAssumption DEF PostEvents, TurnOK, PhaseOK, Phases, IntakeOK
  <2> QED BY <2>1, <2>2, <2>3
<1> QED
  BY <1>1, <1>2, <1>3, <1>4, <1>5, <1>6, <1>7, <1>8, <1>9, <1>10, <1>11, <1>12, <1>13, <1>14,
     <1>15, <1>16, <1>17 DEF Turn

(* The views that outlive an era or an acknowledgment are views.           *)
LEMMA RuleEndedTyped ==
  ASSUME TypeInv, NEW P(_)
  PROVE  RuleEnded(P) \in SUBSET View
<1>1. \A v \in View : [v EXCEPT !.era = 0] \in View BY DEF View
<1>2. views \in SUBSET View BY DEF TypeInv, TypeOK, ThreadOK
<1> QED BY <1>1, <1>2 DEF RuleEnded

(* A call replaced by a call that keeps its shape.                         *)
LEMMA CallPut ==
  ASSUME TypeInv, NEW t \in Thread, NEW c \in Call,
         c.op # "none" => c.id \in Id /\ (c.at \in CompleteSteps <=> c.op = "complete"),
         call' = [call EXCEPT ![t] = c]
  PROVE  call' \in [Thread -> Call] /\ CallOK'
<1>1. call \in [Thread -> Call] /\ CallOK BY DEF TypeInv, TypeOK, ThreadOK
<1>2. call' \in [Thread -> Call] /\ call'[t] = c /\ \A u \in Thread \ {t} : call'[u] = call[u]
  BY <1>1
<1> QED BY <1>1, <1>2 DEF CallOK

(* A call goes on to a step, or returns, as a call.                        *)
LEMMA CallTyped ==
  ASSUME TypeInv, NEW t \in Thread
  PROVE  /\ \A step \in Steps :
              Goto(t, step) /\ (step \in CompleteSteps <=> call[t].op = "complete")
                => call' \in [Thread -> Call] /\ CallOK'
         /\ Return(t) => call' \in [Thread -> Call] /\ CallOK'
<1>1. NoCall \in Call BY WordAssumption, LeaseAssumption DEF NoCall, Call, Ops, Steps
<1>2. call \in [Thread -> Call] /\ CallOK BY DEF TypeInv, TypeOK, ThreadOK
<1>3. ASSUME NEW step \in Steps, Goto(t, step), step \in CompleteSteps <=> call[t].op = "complete"
      PROVE  call' \in [Thread -> Call] /\ CallOK'
  <2>1. [call[t] EXCEPT !.at = step] \in Call BY <1>2 DEF Call
  <2>2. call' = [call EXCEPT ![t] = [call[t] EXCEPT !.at = step]] BY <1>3 DEF Goto
  <2> QED BY <1>2, <1>3, <2>1, <2>2, CallPut DEF CallOK, Call
<1>4. Return(t) => call' \in [Thread -> Call] /\ CallOK'
  BY <1>1, <1>2 DEF Return, CallOK, NoCall
<1> QED BY <1>3, <1>4

(* A pointer a call hands out is a view.                                   *)
LEMMA HandOutTyped ==
  ASSUME TypeInv, NEW t \in Thread, call[t].op # "none", HandOut(t)
  PROVE  views' \in SUBSET View
<1>1. call[t] \in Call /\ call[t].id \in Id BY DEF TypeInv, TypeOK, ThreadOK, CallOK
<1>2. [thread |-> t, id |-> call[t].id, era |-> call[t].era, epoch |-> call[t].epoch] \in View
  BY <1>1 DEF View, Call
<1> QED BY <1>2 DEF HandOut, TypeInv, TypeOK, ThreadOK

(* A step of a call that touches only the call and the views.              *)
LEMMA CallFrameTyped ==
  ASSUME TypeInv, callFrame, call' \in [Thread -> Call], CallOK', views' \in SUBSET View
  PROVE  TypeInv'
<1>1. ArenaOK' /\ IntakeOK' /\ AllocOK' /\ QueueOK' /\ TurnOK' /\ TargetOK'
  BY FrameTyped DEF callFrame, TypeInv, TypeOK
<1>2. ThreadOK' BY DEF callFrame, TypeInv, TypeOK, ThreadOK
<1>3. PhaseOK' BY DEF callFrame, TypeInv, PhaseOK, intakeVars, turnVars
<1> QED BY <1>1, <1>2, <1>3 DEF TypeInv, TypeOK

(* The steps that attach, stop and detach a target keep the types.         *)
LEMMA TargetTyped == TypeInv /\ (Attach \/ TargetStops \/ Detach) => TypeInv'
<1> SUFFICES ASSUME TypeInv, Attach \/ TargetStops \/ Detach PROVE TypeInv'
  OBVIOUS
<1> USE DEF TypeInv, TypeOK
<1>1. AllocOK' /\ QueueOK' /\ TurnOK' /\ UNCHANGED <<wpc, published>>
  BY FrameTyped DEF Attach, TargetStops, Detach, threadFrame, turnVars, intakeVars
<1>2. ArenaOK' /\ PhaseOK' BY <1>1, FrameTyped DEF Attach, TargetStops, Detach, PhaseOK
<1>3. CallOK' BY DEF Attach, TargetStops, Detach, threadVars, CallOK
<1>4. IntakeOK' BY DEF Attach, TargetStops, Detach, IntakeOK, TargetOK, intakeVars
<1>5. EndEra => era' \in Era /\ views' \in SUBSET View
  BY RuleEndedTyped, LeaseAssumption DEF EndEra, TargetOK
<1>6. TargetOK' BY <1>5 DEF Attach, TargetStops, Detach, TargetOK
<1>7. ThreadOK' BY <1>5 DEF Attach, TargetStops, Detach, ThreadOK, threadVars
<1> QED BY <1>1, <1>2, <1>3, <1>4, <1>6, <1>7

(* Pins and unpins keep the types.                                         *)
LEMMA PinTyped ==
  ASSUME TypeInv, NEW t \in Thread, NEW id \in Id, Pin(t, id) \/ Unpin(t, id)
  PROVE  TypeInv'
<1> USE DEF TypeInv, TypeOK
<1>1. id.slot \in Slot /\ word[id.slot] \in Word BY DEF Id, ArenaOK
<1>2. IntakeOK' /\ AllocOK' /\ QueueOK' /\ TurnOK' /\ TargetOK' /\ CallOK'
  BY FrameTyped DEF Pin, Unpin, threadFrame
<1>3. PhaseOK' BY DEF Pin, Unpin, threadFrame, PhaseOK, intakeVars, turnVars
<1>4. CASE Pin(t, id)
  <2>1. pin(word[id.slot]) \in Word BY <1>1, <1>4, WordTyped DEF Pin, CanPin
  <2>2. ArenaOK' BY <1>1, <1>4, <2>1 DEF Pin, ArenaOK
  <2>3. ThreadOK' BY <1>4 DEF Pin, ThreadOK
  <2> QED BY <1>2, <1>3, <2>2, <2>3
<1>5. CASE Unpin(t, id)
  <2>1. CanUnpin(word[id.slot], id.gen) => unpin(word[id.slot]) \in Word
    BY <1>1, WordTyped DEF CanUnpin
  <2>2. ArenaOK' BY <1>1, <1>5, <2>1 DEF Unpin, ArenaOK
  <2>3. \A v \in View : [v EXCEPT !.era = era, !.epoch = lease_epoch[id.slot]] \in View
    BY <1>1 DEF View, TargetOK, ArenaOK
  <2>4. views' \in SUBSET View
    <3> DEFINE unpinned == {v \in views : v.thread = t /\ v.id = id /\ v.era = 0}
               moved == {[v EXCEPT !.era = era, !.epoch = lease_epoch[id.slot]] : v \in unpinned}
    <3>1. views \subseteq View /\ moved \subseteq View BY <2>3 DEF ThreadOK
    <3>2. views' \subseteq views \cup moved BY <1>5 DEF Unpin
    <3> QED BY <3>1, <3>2
  <2>5. ThreadOK' BY <1>5, <2>4 DEF Unpin, ThreadOK
  <2> QED BY <1>2, <1>3, <2>2, <2>5
<1> QED BY <1>4, <1>5

(* The steps of a host's call keep the types.                              *)
LEMMA CallStepTyped ==
  ASSUME TypeInv, NEW t \in Thread,
         \/ LoadBound(t) \/ LoadDetaching(t) \/ LoadEpoch(t) \/ LoadAcked(t)
         \/ ReadView(t) \/ Snapshot(t) \/ Recheck(t) \/ CompleteCheck(t)
  PROVE  TypeInv'
<1> USE DEF TypeInv, TypeOK
<1>1. call \in [Thread -> Call] /\ call[t] \in Call /\ CallOK BY DEF ThreadOK
<1>2. call[t].op # "none" /\ call[t].id.slot \in Slot
  BY DEF LoadBound, LoadDetaching, LoadEpoch, LoadAcked, ReadView, Snapshot, Recheck,
         CompleteCheck, At, CallOK, Id
<1>3. call[t].at \in CompleteSteps <=> call[t].op = "complete" BY <1>1, <1>2 DEF CallOK
<1>4. call' \in [Thread -> Call] /\ CallOK'
  <2>1. CASE LoadBound(t)
    <3> DEFINE c == [call[t] EXCEPT !.at = "detaching", !.era = era]
    <3>1. c \in Call /\ c.op = call[t].op /\ c.id = call[t].id /\ c.at = "detaching"
      BY <1>1, <1>2 DEF Call, Steps, TargetOK
    <3>2. Return(t) \/ call' = [call EXCEPT ![t] = c] BY <1>1, <2>1 DEF LoadBound, CallSlot
    <3>3. call[t].at \notin CompleteSteps BY <2>1 DEF LoadBound, At
    <3> QED BY <1>1, <1>2, <1>3, <3>1, <3>2, <3>3, CallPut, CallTyped DEF CallOK
  <2>2. CASE LoadDetaching(t) BY <1>3, <2>2, CallTyped DEF LoadDetaching, Steps, At
  <2>3. CASE LoadEpoch(t)
    <3> DEFINE c == [call[t] EXCEPT !.at = "acked", !.epoch = lease_epoch[call[t].id.slot]]
    <3>1. c \in Call /\ c.op = call[t].op /\ c.id = call[t].id /\ c.at = "acked"
      BY <1>1, <1>2 DEF Call, Steps, ArenaOK
    <3>2. call' = [call EXCEPT ![t] = c] BY <1>1, <2>3 DEF LoadEpoch, CallSlot
    <3>3. call[t].at \notin CompleteSteps BY <2>3 DEF LoadEpoch, At
    <3> QED BY <1>1, <1>2, <1>3, <3>1, <3>2, <3>3, CallPut, CallTyped DEF CallOK
  <2>4. CASE LoadAcked(t) BY <1>3, <2>4, CallTyped DEF LoadAcked, Steps, At
  <2>5. CASE ReadView(t) BY <1>3, <2>5, CallTyped DEF ReadView, Steps, At
  <2>6. CASE Snapshot(t)
    <3> DEFINE c == [call[t] EXCEPT !.at = "recheck", !.snap = payload[call[t].id.slot]]
    <3>1. c \in Call /\ c.op = call[t].op /\ c.id = call[t].id /\ c.at = "recheck"
      BY <1>1, <1>2 DEF Call, Steps, ArenaOK
    <3>2. call' = [call EXCEPT ![t] = c] BY <1>1, <2>6 DEF Snapshot, CallSlot
    <3>3. call[t].at \notin CompleteSteps BY <2>6 DEF Snapshot, At
    <3> QED BY <1>1, <1>2, <1>3, <3>1, <3>2, <3>3, CallPut, CallTyped DEF CallOK
  <2>7. CASE Recheck(t) BY <2>7, CallTyped DEF Recheck
  <2>8. CASE CompleteCheck(t) BY <1>3, <2>8, CallTyped DEF CompleteCheck, Steps, At
  <2> QED BY <2>1, <2>2, <2>3, <2>4, <2>5, <2>6, <2>7, <2>8
<1>5. views' \in SUBSET View
  BY <1>2, HandOutTyped
     DEF LoadBound, LoadDetaching, LoadEpoch, LoadAcked, ReadView, Snapshot, Recheck,
         CompleteCheck, ThreadOK
<1>6. callFrame
  BY DEF LoadBound, LoadDetaching, LoadEpoch, LoadAcked, ReadView, Snapshot, Recheck, CompleteCheck
<1> QED BY <1>4, <1>5, <1>6, CallFrameTyped

(* A call that takes, holds or leaves the payload's lock keeps the types.  *)
LEMMA LockTyped ==
  ASSUME TypeInv, NEW t \in Thread, Lock(t) \/ Locked(t) \/ Inside(t)
  PROVE  TypeInv'
<1> USE DEF TypeInv, TypeOK
<1>1. call[t].op # "none" /\ call[t].id \in Id /\ call[t].id.slot \in Slot
  BY DEF Lock, Locked, Inside, At, CallOK, Id
<1>2. call' \in [Thread -> Call] /\ CallOK'
  BY CallTyped DEF Lock, Locked, Inside, Steps, At, TypeInv, CallOK
<1>3. views' \in SUBSET View BY <1>1, HandOutTyped DEF Lock, Locked, Inside, ThreadOK
<1>4. IntakeOK' /\ AllocOK' /\ QueueOK' /\ TurnOK' /\ TargetOK'
  BY FrameTyped DEF Lock, Locked, Inside, threadFrame
<1>5. PhaseOK' BY DEF Lock, Locked, Inside, threadFrame, PhaseOK, intakeVars, turnVars
<1>6. ArenaOK' BY <1>1 DEF Lock, Locked, Inside, ArenaOK, CallSlot
<1>7. ThreadOK' BY <1>1, <1>2, <1>3 DEF Lock, Locked, Inside, ThreadOK
<1> QED BY <1>2, <1>4, <1>5, <1>6, <1>7

(* A completion that reaches the inbox keeps the types.                    *)
LEMMA ApplyTyped ==
  ASSUME TypeInv, NEW t \in Thread, CompleteApply(t)
  PROVE  TypeInv'
<1> USE DEF TypeInv, TypeOK
<1>1. call[t] \in Call /\ call[t].id \in Id
  BY DEF CompleteApply, At, CallOK, ThreadOK
<1>2. call' \in [Thread -> Call] /\ CallOK' BY CallTyped DEF CompleteApply
<1>3. views' \in SUBSET View BY RuleEndedTyped DEF CompleteApply, ThreadOK
<1>4. ArenaOK' /\ AllocOK' /\ QueueOK' /\ TurnOK' /\ TargetOK'
  BY FrameTyped DEF CompleteApply, threadFrame
<1>5. PhaseOK' BY DEF CompleteApply, threadFrame, PhaseOK, turnVars
<1>6. IntakeOK' BY <1>1 DEF CompleteApply, IntakeOK, Call
<1>7. ThreadOK' BY <1>2, <1>3 DEF CompleteApply, ThreadOK
<1> QED BY <1>2, <1>4, <1>5, <1>6, <1>7

(* The steps of host threads keep the types.                               *)
LEMMA HostTyped == TypeInv /\ Host => TypeInv'
<1> SUFFICES ASSUME TypeInv, Host PROVE TypeInv'
  OBVIOUS
<1>1. SeenIds \subseteq Id BY DEF SeenIds, TypeInv, TypeOK, TargetOK
<1>2. PICK t \in Thread :
        \/ Bind(t)
        \/ \E id \in SeenIds :
             \/ Pin(t, id) \/ Unpin(t, id)
             \/ \E op \in CallOps \ {"complete"} : Begin(t, id, op)
             \/ \E e \in {0} \cup (acked + 1)..delivered :
                  "complete" \in CallOps /\ CompleteBegin(t, id, e)
        \/ LoadBound(t) \/ LoadDetaching(t) \/ LoadEpoch(t) \/ LoadAcked(t)
        \/ ReadView(t) \/ Snapshot(t) \/ Recheck(t)
        \/ Lock(t) \/ Locked(t) \/ Inside(t)
        \/ CompleteCheck(t) \/ CompleteApply(t)
  BY DEF Host
<1>3. CASE Bind(t)
  <2> USE DEF TypeInv, TypeOK
  <2>1. ArenaOK' /\ AllocOK' /\ QueueOK' /\ TurnOK' /\ TargetOK' /\ ThreadOK' /\ CallOK'
    BY <1>3, FrameTyped DEF Bind, threadFrame, threadVars
  <2>2. IntakeOK' BY <1>3 DEF Bind, IntakeOK
  <2>3. PhaseOK' BY <1>3 DEF Bind, threadFrame, PhaseOK, turnVars
  <2> QED BY <2>1, <2>2, <2>3
<1>4. ASSUME NEW id \in SeenIds, Pin(t, id) \/ Unpin(t, id) PROVE TypeInv'
  BY <1>1, <1>4, PinTyped
<1>5. ASSUME NEW id \in SeenIds, NEW op \in CallOps \ {"complete"}, Begin(t, id, op)
      PROVE  TypeInv'
  <2> DEFINE c == [op |-> op, id |-> id, era |-> 0, epoch |-> 0, snap |-> 0,
                   at |-> CASE op \in {"view", "pinned_read"} /\ id \notin pins[t] -> "bound"
                            [] op \in {"view", "values"} -> "read_view"
                            [] OTHER -> "lock"]
  <2>1. c \in Call /\ c.id \in Id
    BY <1>1, WordAssumption, LeaseAssumption DEF Call, Ops, Steps, Calls
  <2>2. call' = [call EXCEPT ![t] = c] BY <1>5 DEF Begin
  <2>3. call' \in [Thread -> Call] /\ CallOK'
    BY <2>1, <2>2 DEF TypeInv, TypeOK, ThreadOK, CallOK
  <2>4. views' \in SUBSET View /\ callFrame BY <1>5 DEF Begin, TypeInv, TypeOK, ThreadOK
  <2> QED BY <2>3, <2>4, CallFrameTyped
<1>6. ASSUME NEW id \in SeenIds, NEW e \in {0} \cup (acked + 1)..delivered, CompleteBegin(t, id, e)
      PROVE  TypeInv'
  <2> DEFINE c == [op |-> "complete", at |-> "check", id |-> id, era |-> 0,
                   epoch |-> AckFrom(t, e), snap |-> 0]
  <2>1. e \in Epoch /\ AckFrom(t, e) \in Epoch
    BY LeaseAssumption DEF TypeInv, TypeOK, IntakeOK, TargetOK, AckFrom
  <2>2. c \in Call /\ c.id \in Id
    BY <1>1, <2>1, WordAssumption, LeaseAssumption DEF Call, Ops, Steps, Calls
  <2>3. call' = [call EXCEPT ![t] = c] BY <1>6 DEF CompleteBegin
  <2>4. call' \in [Thread -> Call] /\ CallOK'
    BY <2>2, <2>3 DEF TypeInv, TypeOK, ThreadOK, CallOK
  <2>5. views' \in SUBSET View /\ callFrame BY <1>6 DEF CompleteBegin, TypeInv, TypeOK, ThreadOK
  <2> QED BY <2>4, <2>5, CallFrameTyped
<1> QED BY <1>2, <1>3, <1>4, <1>5, <1>6, CallStepTyped, LockTyped, ApplyTyped

(* The types are kept by every step.                                       *)
LEMMA StepTyped == TypeInv /\ [Next]_vars => TypeInv'
<1>1. TypeInv /\ UNCHANGED vars => TypeInv'
  BY FrameTyped DEF vars, TypeInv, TypeOK, PhaseOK, arenaVars, intakeVars, allocVars, queueVars,
     turnVars, targetVars, threadVars
<1> QED BY <1>1, FutureTyped, TurnTyped, TargetTyped, HostTyped DEF Next

(* Type correctness of the lease protocol: in every reachable state, for   *)
(* every set of slots and threads and every bound, each word, epoch, list, *)
(* waiter, call and view is one the code can hold; a pin never overflows   *)
(* the count (SlotWord::pin), nor an unpin underflows it, and the epoch    *)
(* taken back after a refused post (Dispatcher::refused) is never below 0. *)
THEOREM TypeCorrect == Spec => []TypeOK
<1>1. TypeInv => TypeOK BY DEF TypeInv
<1> QED BY <1>1, InitTyped, StepTyped, PTL DEF Spec

-----------------------------------------------------------------------------
(* The epochs of SlotLease: what the acknowledgment floor may do, for      *)
(* every set of slots and threads and every bound.  EpochInv is inductive  *)
(* relative to the types alone; the batch on offer (Posted) is what makes  *)
(* it so, since its epoch is stored before the target answers.             *)

(* The parts of EpochInv that a step of one actor can disturb.             *)
Stamps == \A k \in 1..Len(quarantine) : quarantine[k][2] <= Posted
Floors == acked <= Posted /\ delivered <= Posted /\ floor <= acked
Seens == \A s \in seen : s[2] <= delivered
Acks == \A t \in Thread : call[t].op = "complete" => call[t].epoch <= delivered

(* The parts of EpochInv, each disturbed by other steps.                   *)
LEMMA EpochParts == EpochInv <=> Stamps /\ Floors /\ Seens /\ Acks
BY DEF EpochInv, Stamps, Floors, Seens, Acks

(* No epoch is posted at the start.                                        *)
LEMMA EpochInit == Init => EpochInv
BY DEF Init, EpochInv, Posted, NoCall

(* The numbers the epochs are.                                             *)
LEMMA EpochNat ==
  ASSUME TypeInv
  PROVE  /\ published \in Nat /\ acked \in Nat /\ delivered \in Nat /\ floor \in Nat
         /\ Posted \in Int
         /\ \A k \in 1..Len(quarantine) : quarantine[k][2] \in Nat
<1>1. published \in Nat /\ acked \in Nat /\ delivered \in Nat /\ floor \in Nat
  BY LeaseAssumption DEF TypeInv, TypeOK, IntakeOK, TargetOK, TurnOK
<1>2. \A k \in 1..Len(quarantine) : quarantine[k] \in Slot \X Epoch
  BY DEF TypeInv, TypeOK, AllocOK
<1> QED BY <1>1, <1>2, LeaseAssumption DEF Posted

(* A retirement while no batch is on offer is stamped within Posted.       *)
LEMMA StampKept ==
  ASSUME TypeInv, EpochInv, NEW w, NEW id, id.slot \in Slot,
         RetireOrDefer(w, id), wpc # "offer", Posted' = Posted
  PROVE  Stamps'
<1>1. quarantine \in Seq(Slot \X Epoch) /\ Stamps /\ Posted = published
  BY EpochParts DEF TypeInv, TypeOK, AllocOK, Posted
<1>2. CASE quarantine' = quarantine BY <1>1, <1>2 DEF Stamps
<1>3. CASE quarantine' = Append(quarantine, <<id.slot, Stamp>>)
  <2>1. Len(quarantine') = Len(quarantine) + 1 BY <1>1, <1>3
  <2>2. \A k \in 1..Len(quarantine') :
          quarantine'[k] = IF k <= Len(quarantine) THEN quarantine[k] ELSE <<id.slot, published>>
    BY <1>1, <1>3, <2>1 DEF Stamp
  <2> QED BY <1>1, <2>1, <2>2, EpochNat DEF Stamps
<1> QED BY <1>2, <1>3 DEF RetireOrDefer

(* What is left of the quarantine after a release keeps its stamps.        *)
LEMMA ReleaseKept ==
  ASSUME TypeInv, EpochInv, NEW n \in 0..Len(quarantine),
         quarantine' = SubSeq(quarantine, n + 1, Len(quarantine)), Posted' = Posted
  PROVE  Stamps'
<1>1. quarantine \in Seq(Slot \X Epoch) /\ Stamps BY EpochParts DEF TypeInv, TypeOK, AllocOK
<1>2. /\ Len(quarantine') = Len(quarantine) - n
      /\ \A k \in 1..Len(quarantine') : quarantine'[k] = quarantine[n + k]
  BY <1>1, SubSeqProperties
<1>3. n \in Nat /\ Len(quarantine) \in Nat BY <1>1
<1>4. \A k \in 1..Len(quarantine') : n + k \in 1..Len(quarantine) BY <1>2, <1>3
<1> QED BY <1>1, <1>2, <1>4 DEF Stamps

(* The steps of futures and of the worker's turn keep the epochs in order. *)
LEMMA EpochWorker == TypeInv /\ EpochInv /\ (Future \/ Turn) => EpochInv'
<1> SUFFICES ASSUME TypeInv, EpochInv, Future \/ Turn PROVE EpochInv'
  OBVIOUS
<1>0. Stamps /\ Floors /\ Seens /\ Acks BY EpochParts
<1> USE EpochNat
<1>1. CASE Future
  <2>1. PICK i \in Slot : \/ Allocate(i) \/ FutureGone(i) \/ DropFuture(i)
                          \/ ImportBegin(i) \/ ImportTake(i) \/ ImportRetire(i)
    BY <1>1 DEF Future
  <2>2. UNCHANGED <<published, acked, floor, delivered, seen, call, wpc>> /\ wpc # "offer"
    BY <2>1 DEF Allocate, FutureGone, DropFuture, ImportBegin, ImportTake, ImportRetire,
                GuardFrame, intakeVars, turnVars, targetVars, threadVars
  <2>3. Posted' = Posted BY <2>2 DEF Posted
  <2>4. GuardRetire(i) => Stamps'
    BY <2>2, <2>3, StampKept DEF GuardRetire
  <2>5. quarantine' = quarantine => Stamps' BY <1>0, <2>3 DEF Stamps
  <2>6. GuardRetire(i) \/ quarantine' = quarantine
    BY <2>1 DEF Allocate, FutureGone, DropFuture, ImportBegin, ImportTake, ImportRetire, allocVars
  <2>7. Floors' /\ Seens' /\ Acks' BY <1>0, <2>2, <2>3 DEF Floors, Seens, Acks
  <2> QED BY <2>4, <2>5, <2>6, <2>7, EpochParts DEF Stamps, Floors, Seens, Acks, EpochInv
<1>2. ASSUME UNCHANGED <<published, acked, delivered, seen, call>>,
             wpc # "offer", wpc' # "offer", floor' \in {floor, 0, acked}, Stamps'
      PROVE  EpochInv'
  BY <1>0, <1>2 DEF Floors, Seens, Acks, Stamps, EpochInv, Posted
<1>3. CASE Turn
  <2>1. CASE AllocateExhausted \/ Drain \/ LoadFloor \/ PostNext \/ FillEmpty \/ LoseLeases
    <3>1. /\ UNCHANGED <<published, acked, delivered, seen, call, quarantine>>
          /\ wpc # "offer" /\ wpc' # "offer" /\ floor' \in {floor, acked}
      BY <2>1 DEF AllocateExhausted, Drain, LoadFloor, PostNext, FillEmpty, LoseLeases,
                  intakeVars, targetVars, threadVars, allocVars, turnVars
    <3>2. Stamps' BY <1>0, <3>1 DEF Stamps, Posted
    <3> QED BY <1>2, <3>1, <3>2
  <2>2. CASE ReleaseAndAllocate \/ Release
    <3>1. PICK n \in 0..Len(quarantine) : quarantine' = SubSeq(quarantine, n + 1, Len(quarantine))
      BY <2>2 DEF ReleaseAndAllocate, Release
    <3>2. /\ UNCHANGED <<published, acked, delivered, seen, call>>
          /\ wpc # "offer" /\ wpc' # "offer" /\ floor' = 0
      BY <2>2 DEF ReleaseAndAllocate, Release, intakeVars, targetVars, threadVars
    <3>3. Stamps' BY <3>1, <3>2, ReleaseKept DEF Posted
    <3> QED BY <1>2, <3>2, <3>3
  <2>3. CASE LoseJob \/ FillJob \/ \E id \in late : LateRetire(id)
    <3>1. /\ UNCHANGED <<published, acked, delivered, seen, call, wpc, floor>>
          /\ wpc # "offer"
      BY <2>3 DEF LoseJob, FillJob, LateRetire, intakeVars, targetVars, threadVars, turnVars
    <3>2. Posted' = Posted BY <3>1 DEF Posted
    <3>3. \/ quarantine' = quarantine
          \/ \E w, id : id.slot \in Slot /\ RetireOrDefer(w, id)
      <4>1. ready # <<>> => Head(ready).slot \in Slot
        BY HeadTailProperties DEF TypeInv, TypeOK, QueueOK, Id
      <4>2. \A id \in late : id.slot \in Slot BY DEF TypeInv, TypeOK, QueueOK, Id
      <4>3. CASE LoseJob BY <4>1, <4>3 DEF LoseJob
      <4>4. CASE FillJob BY <4>1, <4>4 DEF FillJob
      <4>5. CASE \E id \in late : LateRetire(id) BY <4>2, <4>5 DEF LateRetire
      <4> QED BY <2>3, <4>3, <4>4, <4>5
    <3>4. Stamps' BY <1>0, <3>1, <3>2, <3>3, StampKept DEF Stamps
    <3> QED BY <1>2, <3>1, <3>4
  <2>4. CASE SettleDetached \/ SettleGone
    <3>1. /\ UNCHANGED <<published, delivered, seen, call, quarantine, floor>>
          /\ wpc # "offer" /\ wpc' # "offer" /\ acked' = published
      BY <2>4 DEF SettleDetached, SettleGone, settle, targetVars, threadVars, allocVars
    <3> QED BY <1>0, <3>1 DEF Floors, Seens, Acks, Stamps, EpochInv, Posted
  <2>5. CASE Publish \/ PostEvents
    <3>1. /\ UNCHANGED <<acked, delivered, seen, call, quarantine, floor>>
          /\ wpc # "offer" /\ wpc' = "offer" /\ published' = published + 1
      BY <2>5 DEF Publish, PostEvents, targetVars, threadVars, allocVars
    <3> QED BY <1>0, <3>1 DEF Floors, Seens, Acks, Stamps, EpochInv, Posted
  <2>6. CASE OfferTaken
    <3>1. /\ UNCHANGED <<acked, call, quarantine, floor, published>>
          /\ wpc = "offer" /\ wpc' = "post" /\ delivered' = published
          /\ seen' = seen \cup {<<posting[k], published>> : k \in DOMAIN posting}
      BY <2>6 DEF OfferTaken, threadVars, allocVars, intakeVars
    <3>2. delivered <= published /\ acked <= published /\ Posted = published - 1
          /\ Posted' = published
      BY <1>0, <3>1 DEF Floors, Posted
    <3>3. \A s \in seen : s[2] \in Nat BY LeaseAssumption DEF TypeInv, TypeOK, TargetOK
    <3>4. Seens' BY <1>0, <3>1, <3>2, <3>3 DEF Seens
    <3>5. Floors' /\ Stamps' BY <1>0, <3>1, <3>2 DEF Floors, Stamps
    <3>6. \A t \in Thread : call[t].epoch \in Nat
      BY LeaseAssumption DEF TypeInv, TypeOK, ThreadOK, Call
    <3>7. Acks' BY <1>0, <3>1, <3>2, <3>6 DEF Acks
    <3> QED BY <3>4, <3>5, <3>7 DEF Floors, Seens, Acks, Stamps, EpochInv
  <2>7. CASE OfferRefused
    <3>1. /\ UNCHANGED <<acked, call, quarantine, floor, delivered, seen>>
          /\ wpc = "offer" /\ wpc' # "offer" /\ published' = published - 1
      BY <2>7 DEF OfferRefused, threadVars, allocVars, targetVars
    <3> QED BY <1>0, <3>1 DEF Floors, Seens, Acks, Stamps, EpochInv, Posted
  <2> QED BY <1>3, <2>1, <2>2, <2>3, <2>4, <2>5, <2>6, <2>7 DEF Turn
<1> QED BY <1>1, <1>3

(* The steps of hosts and of targets keep the epochs in order.             *)
LEMMA EpochHost ==
  TypeInv /\ EpochInv /\ (Attach \/ TargetStops \/ Detach \/ Host) => EpochInv'
<1> SUFFICES ASSUME TypeInv, EpochInv, Attach \/ TargetStops \/ Detach \/ Host PROVE EpochInv'
  OBVIOUS
<1>0. Stamps /\ Floors /\ Seens /\ Acks /\ call \in [Thread -> Call]
  BY EpochParts DEF TypeInv, TypeOK, ThreadOK
<1> USE EpochNat
<1>1. ASSUME UNCHANGED <<published, delivered, seen, quarantine, floor, wpc>>,
             acked' = acked \/ (acked' \in Nat /\ acked <= acked' /\ acked' <= Posted), Acks'
      PROVE  EpochInv'
  BY <1>0, <1>1 DEF Floors, Seens, Acks, Stamps, EpochInv, Posted
<1>2. CASE Attach \/ TargetStops \/ Detach
  BY <1>0, <1>1, <1>2 DEF Attach, TargetStops, Detach, threadFrame, intakeVars, allocVars,
     turnVars, threadVars, Acks
<1>3. CASE Host
  <2>1. PICK t \in Thread :
          \/ Bind(t)
          \/ \E id \in SeenIds :
               \/ Pin(t, id) \/ Unpin(t, id)
               \/ \E op \in CallOps \ {"complete"} : Begin(t, id, op)
               \/ \E e \in {0} \cup (acked + 1)..delivered : CompleteBegin(t, id, e)
          \/ LoadBound(t) \/ LoadDetaching(t) \/ LoadEpoch(t) \/ LoadAcked(t)
          \/ ReadView(t) \/ Snapshot(t) \/ Recheck(t)
          \/ Lock(t) \/ Locked(t) \/ Inside(t)
          \/ CompleteCheck(t) \/ CompleteApply(t)
    BY <1>3 DEF Host
  <2>2. UNCHANGED <<published, delivered, seen, quarantine, floor, wpc>>
    BY <2>1 DEF Bind, Pin, Unpin, Begin, CompleteBegin, LoadBound, LoadDetaching, LoadEpoch,
       LoadAcked, ReadView, Snapshot, Recheck, Lock, Locked, Inside, CompleteCheck,
       CompleteApply, callFrame, threadFrame, intakeVars, targetVars, allocVars, turnVars
  <2>3. CASE CompleteApply(t)
    <3>1. Acks' BY <1>0, <2>2, <2>3 DEF CompleteApply, Return, NoCall, Acks
    <3>2. acked' = acked \/ (acked' \in Nat /\ acked <= acked' /\ acked' <= Posted)
      BY <1>0, <2>3 DEF CompleteApply, At, Acknowledges, Acks, Floors, Posted, TypeInv, CallOK
    <3> QED BY <1>1, <2>2, <3>1, <3>2
  <2>4. CASE ~CompleteApply(t)
    <3>1. acked' = acked
      BY <2>1, <2>4 DEF Bind, Pin, Unpin, Begin, CompleteBegin, LoadBound, LoadDetaching,
         LoadEpoch, LoadAcked, ReadView, Snapshot, Recheck, Lock, Locked, Inside,
         CompleteCheck, callFrame, threadFrame, intakeVars
    <3>2. Acks'
      <4>1. CASE Bind(t) \/ \E id \in SeenIds : Pin(t, id) \/ Unpin(t, id)
        BY <1>0, <2>2, <4>1 DEF Bind, Pin, Unpin, threadVars, Acks
      <4>2. CASE \E id \in SeenIds : \E op \in CallOps \ {"complete"} : Begin(t, id, op)
        BY <1>0, <2>2, <4>2 DEF Begin, Acks
      <4>3. CASE \E id \in SeenIds : \E e \in {0} \cup (acked + 1)..delivered :
                   CompleteBegin(t, id, e)
        <5>1. PICK id \in SeenIds, e \in {0} \cup (acked + 1)..delivered : CompleteBegin(t, id, e)
          BY <4>3
        <5>2. AckFrom(t, e) <= delivered BY DEF AckFrom
        <5> QED BY <1>0, <2>2, <5>1, <5>2 DEF CompleteBegin, Acks
      <4>4. CASE \/ LoadDetaching(t) \/ LoadAcked(t) \/ ReadView(t) \/ Recheck(t)
                 \/ Lock(t) \/ Locked(t) \/ Inside(t) \/ CompleteCheck(t)
        <5>1. Return(t) \/ \E step : Goto(t, step)
          BY <4>4 DEF LoadDetaching, LoadAcked, ReadView, Recheck, Lock, Locked, Inside,
             CompleteCheck
        <5> QED BY <1>0, <2>2, <5>1 DEF Return, Goto, NoCall, Acks, Call
      <4>5. CASE LoadBound(t) \/ LoadEpoch(t) \/ Snapshot(t)
        <5>1. call[t].op # "complete" BY <4>5 DEF LoadBound, LoadEpoch, Snapshot, At, TypeInv, CallOK
        <5>2. call'[t].op # "complete"
          <6>1. CASE LoadBound(t)
            <7>1. CASE Return(t) BY <1>0, <7>1 DEF Return, NoCall
            <7>2. CASE ~Return(t)
              <8>1. call' = [call EXCEPT ![t] = [call[t] EXCEPT !.at = "detaching", !.era = era]]
                BY <6>1, <7>2 DEF LoadBound
              <8> QED BY <1>0, <5>1, <8>1 DEF Call
            <7> QED BY <7>1, <7>2
          <6>2. CASE LoadEpoch(t) BY <1>0, <5>1, <6>2 DEF LoadEpoch, Call
          <6>3. CASE Snapshot(t) BY <1>0, <5>1, <6>3 DEF Snapshot, Call
          <6> QED BY <4>5, <6>1, <6>2, <6>3
        <5>3. \A u \in Thread \ {t} : call'[u] = call[u]
          BY <1>0, <4>5 DEF LoadBound, LoadEpoch, Snapshot, Return
        <5> QED BY <1>0, <2>2, <5>2, <5>3 DEF Acks
      <4> QED BY <2>1, <2>4, <4>1, <4>2, <4>3, <4>4, <4>5
    <3> QED BY <1>1, <2>2, <3>1, <3>2
  <2> QED BY <2>3, <2>4
<1> QED BY <1>2, <1>3

(* Every step keeps the types and the epochs in order.                     *)
LEMMA EpochStep == TypeInv /\ EpochInv /\ [Next]_vars => EpochInv'
<1>1. EpochInv /\ UNCHANGED vars => EpochInv' BY DEF vars, EpochInv, Posted
<1> QED BY <1>1, EpochWorker, EpochHost DEF Next

(* In every reachable state the acknowledgment floor, every epoch a host   *)
(* was given and every stamp of the quarantine are at most the newest      *)
(* epoch a target may have taken: the epoch stored ahead of a batch        *)
(* (Dispatcher::post) and taken back when it is refused is never one that  *)
(* anything already counts on.                                             *)
THEOREM EpochsOrdered == Spec => []EpochInv
<1> QED BY InitTyped, StepTyped, EpochInit, EpochStep, PTL DEF Spec

(* A step moves the floor by one, for an acknowledgment, or to published,  *)
(* when the worker settles a lost target.                                  *)
LEMMA FloorStep ==
  ASSUME TypeInv, EpochInv, Next
  PROVE  \/ acked' \in {acked, acked + 1}
         \/ wpc \in {"lose_jobs", "gone_jobs"} /\ acked' = published /\ acked' > acked
<1>1. CASE Future
  BY <1>1 DEF Future, Allocate, FutureGone, DropFuture, ImportBegin, ImportTake, ImportRetire,
              GuardFrame, intakeVars
<1>2. CASE Turn
  <2>1. CASE SettleDetached \/ SettleGone
    <3>1. wpc \in {"lose_jobs", "gone_jobs"} /\ acked' = published
      BY <2>1 DEF SettleDetached, SettleGone, settle
    <3>2. acked <= published BY <3>1 DEF EpochInv, Posted
    <3> QED BY <3>1, <3>2, EpochNat
  <2>2. CASE ~(SettleDetached \/ SettleGone)
    BY <1>2, <2>2
    DEF Turn, AllocateExhausted, ReleaseAndAllocate, Drain, LoseLeases, LoseJob, LoadFloor,
        Release, LateRetire, PostNext, PostEvents, FillJob, FillEmpty, Publish, OfferTaken,
        OfferRefused, intakeVars
  <2> QED BY <2>1, <2>2
<1>3. CASE Attach \/ TargetStops \/ Detach
  BY <1>3 DEF Attach, TargetStops, Detach, intakeVars
<1>4. CASE Host
  <2>1. CASE \E t \in Thread : CompleteApply(t)
    BY <2>1 DEF CompleteApply, Acknowledges
  <2>2. ASSUME NEW t \in Thread,
               \/ Bind(t)
               \/ \E id \in SeenIds :
                    \/ Pin(t, id) \/ Unpin(t, id)
                    \/ \E op \in CallOps \ {"complete"} : Begin(t, id, op)
                    \/ \E e \in {0} \cup (acked + 1)..delivered : CompleteBegin(t, id, e)
               \/ LoadBound(t) \/ LoadDetaching(t) \/ LoadEpoch(t) \/ LoadAcked(t)
               \/ ReadView(t) \/ Snapshot(t) \/ Recheck(t)
               \/ Lock(t) \/ Locked(t) \/ Inside(t) \/ CompleteCheck(t)
        PROVE  acked' = acked
    BY <2>2
    DEF Bind, Pin, Unpin, Begin, CompleteBegin, LoadBound, LoadDetaching, LoadEpoch,
        LoadAcked, ReadView, Snapshot, Recheck, Lock, Locked, Inside, CompleteCheck, callFrame,
        intakeVars
  <2> QED BY <1>4, <2>1, <2>2 DEF Host
<1> QED BY <1>1, <1>2, <1>3, <1>4 DEF Next

(* The acknowledgment floor (Intake::acknowledge, Intake::settle) skips no *)
(* epoch while a target lives and never moves back, for every number of    *)
(* slots, threads and targets.                                             *)
THEOREM FloorMoves == Spec => FloorAdvances
<1>1. TypeInv /\ EpochInv /\ [Next]_vars =>
        [\/ acked' \in {acked, acked + 1}
         \/ wpc \in {"lose_jobs", "gone_jobs"} /\ acked' = published /\ acked' > acked]_vars
  BY FloorStep
<1> QED BY <1>1, InitTyped, StepTyped, EpochInit, EpochStep, PTL DEF Spec, FloorAdvances

-----------------------------------------------------------------------------
(***************************************************************************)
(* The slots of SlotLease: which list an index is on, which future waits   *)
(* for it, which ids name it and how many pins it counts, for every set of *)
(* slots and threads and every bound.  SlotInv and StampInv are inductive  *)
(* relative to the types and the epochs.                                   *)
(***************************************************************************)

(* The types of what the slot invariants speak of.                         *)
LEMMA SlotFacts ==
  ASSUME TypeInv
  PROVE  /\ word \in [Slot -> Word] /\ payload \in [Slot -> Content]
         /\ lease_epoch \in [Slot -> Epoch] /\ waiter \in [Slot -> Waiter]
         /\ quarantine \in Seq(Slot \X Epoch) /\ ready \in Seq(Id) /\ posting \in Seq(Id)
         /\ free \subseteq Slot /\ late \subseteq Id /\ seen \subseteq Id \X Epoch
         /\ requests \in 0..MaxRequests /\ MaxRequests \in 0..GenMask /\ GenMask \in Nat
         /\ pins \in [Thread -> SUBSET Id] /\ IsFiniteSet(Thread)
         /\ call \in [Thread -> Call]
BY LeaseAssumption, WordAssumption
DEF TypeInv, TypeOK, ArenaOK, AllocOK, QueueOK, TargetOK, ThreadOK

(* The words, payloads and waiters, slot by slot.                          *)
LEMMA WordNat ==
  ASSUME TypeInv
  PROVE  /\ \A i \in Slot : /\ word[i] \in Word /\ word[i].gen \in Nat
                            /\ word[i].readers \in Nat /\ word[i].state \in SlotState
         /\ requests \in Nat
<1>1. \A w \in Word : w.gen \in Nat /\ w.readers \in Nat /\ w.state \in SlotState
  BY WordAssumption DEF Word
<1> QED BY <1>1, SlotFacts

(* The payload, lease epoch, waiter and id of a slot.                      *)
LEMMA SlotNat ==
  ASSUME TypeInv
  PROVE  \A i \in Slot : /\ payload[i] \in Nat /\ lease_epoch[i] \in Nat
                         /\ waiter[i] \in Waiter
                         /\ IdOf(i) \in Id /\ IdOf(i).slot = i /\ IdOf(i).gen = word[i].gen
<1>1. \A i \in Slot : payload[i] \in Nat /\ lease_epoch[i] \in Nat
  BY SlotFacts, WordAssumption, LeaseAssumption
<1>2. \A i \in Slot : waiter[i] \in Waiter BY SlotFacts
<1>3. \A i \in Slot : word[i].gen \in Gen BY SlotFacts DEF Word
<1> QED BY <1>1, <1>2, <1>3 DEF IdOf, Id

(* The entries of the quarantine.                                          *)
LEMMA ListNat ==
  ASSUME TypeInv
  PROVE  /\ \A k \in 1..Len(quarantine) : quarantine[k][1] \in Slot /\ quarantine[k][2] \in Nat
         /\ Len(quarantine) \in Nat /\ Quarantined \subseteq Slot
<1>1. \A k \in 1..Len(quarantine) : quarantine[k] \in Slot \X Epoch BY SlotFacts
<1>2. Epoch \subseteq Nat BY LeaseAssumption
<1>3. \A q \in Slot \X Epoch : q[1] \in Slot /\ q[2] \in Epoch OBVIOUS
<1>4. \A k \in 1..Len(quarantine) : quarantine[k][1] \in Slot /\ quarantine[k][2] \in Nat
  BY <1>1, <1>2, <1>3
<1>5. Len(quarantine) \in Nat BY SlotFacts
<1>6. Quarantined \subseteq Slot BY <1>4 DEF Quarantined
<1> QED BY <1>4, <1>5, <1>6

(* The ids in the queues, in the hands of hosts and on the late list.      *)
LEMMA IdNat ==
  ASSUME TypeInv
  PROVE  /\ \A id \in Id : id.slot \in Slot /\ id.gen \in Nat
         /\ \A k \in 1..Len(ready) : ready[k] \in Id
         /\ \A k \in 1..Len(posting) : posting[k] \in Id
         /\ \A s \in seen : s[1] \in Id /\ s[2] \in Nat /\ s[1] \in SeenIds
         /\ \A id \in late : id \in Id
         /\ \A t \in Thread : \A id \in pins[t] : id \in Id
         /\ Len(ready) \in Nat /\ Len(posting) \in Nat
<1>1. \A id \in Id : id.slot \in Slot /\ id.gen \in Nat BY WordAssumption DEF Id
<1>2. /\ \A k \in 1..Len(ready) : ready[k] \in Id
      /\ \A k \in 1..Len(posting) : posting[k] \in Id
      /\ Len(ready) \in Nat /\ Len(posting) \in Nat
  BY SlotFacts
<1>3. \A s \in Id \X Epoch : s[1] \in Id /\ s[2] \in Nat BY LeaseAssumption
<1>4. \A s \in seen : s[1] \in SeenIds BY DEF SeenIds
<1> QED BY <1>1, <1>2, <1>3, <1>4, SlotFacts

(* Two ids of one slot and one generation are one id.                      *)
LEMMA IdEqual ==
  ASSUME NEW a \in Id, NEW b \in Id, a.slot = b.slot, a.gen = b.gen
  PROVE  a = b
BY DEF Id

(* A slot's word counts its pinners, so it counts none exactly when no     *)
(* thread pins it.                                                         *)
LEMMA NoReaders ==
  ASSUME TypeInv, PinInv, NEW i \in Slot
  PROVE  word[i].readers = 0 <=> \A t \in Thread : IdOf(i) \notin pins[t]
<1>1. IsFiniteSet(Pinners(IdOf(i))) BY SlotFacts, FS_Subset DEF Pinners
<1>2. Cardinality(Pinners(IdOf(i))) = 0 <=> Pinners(IdOf(i)) = {} BY <1>1, FS_EmptySet
<1> QED BY <1>2 DEF PinInv, Pinners

(* A pinned slot is one a host was given and has not been retired.         *)
LEMMA PinnedHost ==
  ASSUME TypeInv, PinInv, SeenInv, NEW i \in Slot, word[i].readers # 0
  PROVE  word[i].state \in HostStates
<1>1. PICK t \in Thread : IdOf(i) \in pins[t] BY NoReaders
<1>2. IdOf(i) \in SeenIds BY <1>1 DEF PinInv
<1>3. PICK s \in seen : s[1] = IdOf(i) BY <1>2 DEF SeenIds
<1> QED BY <1>3 DEF SeenInv, IdOf

(* The pin counts stay right when neither the pins nor the counts and the  *)
(* generations change.                                                     *)
LEMMA PinFrame ==
  ASSUME PinInv, UNCHANGED pins, SeenIds \subseteq SeenIds',
         pins \in [Thread -> SUBSET Id],
         \A i \in Slot : word'[i].gen = word[i].gen /\ word'[i].readers = word[i].readers
  PROVE  PinInv'
<1>1. \A t \in Thread : \A id \in pins[t] : id.slot \in Slot BY DEF Id
<1>2. \A i \in Slot : Pinners(IdOf(i))' = Pinners(IdOf(i)) BY DEF Pinners, IdOf
<1> QED BY <1>1, <1>2 DEF PinInv

(* The other parts that name no more than an id's generation.              *)
LEMMA HandedFrame ==
  ASSUME HandedInv, SeenIds \subseteq SeenIds', UNCHANGED call,
         inbox'.completed \subseteq inbox.completed
  PROVE  HandedInv'
BY DEF HandedInv

(* An index appended to the quarantine.                                    *)
LEMMA Quarantines ==
  ASSUME TypeInv, NEW i \in Slot, quarantine' = Append(quarantine, <<i, Stamp>>)
  PROVE  /\ Len(quarantine') = Len(quarantine) + 1
         /\ \A k \in 1..Len(quarantine) : k \in 1..Len(quarantine') /\ quarantine'[k] = quarantine[k]
         /\ quarantine'[Len(quarantine')] = <<i, published>>
         /\ \A k \in 1..Len(quarantine') : k \in 1..Len(quarantine) \/ k = Len(quarantine')
         /\ Quarantined' = Quarantined \cup {i}
<1>1. quarantine \in Seq(Slot \X Epoch) /\ Len(quarantine) \in Nat BY SlotFacts
<1>2. /\ Len(quarantine') = Len(quarantine) + 1
      /\ \A k \in 1..Len(quarantine) : quarantine'[k] = quarantine[k]
      /\ quarantine'[Len(quarantine')] = <<i, published>>
  BY <1>1 DEF Stamp
<1>3. \A k \in 1..Len(quarantine') : k \in 1..Len(quarantine) \/ k = Len(quarantine')
  BY <1>1, <1>2
<1>4. \A k \in 1..Len(quarantine) : k \in 1..Len(quarantine') BY <1>1, <1>2
<1>5. Len(quarantine') \in 1..Len(quarantine') BY <1>1, <1>2
<1>6. Quarantined' = Quarantined \cup {i}
  <2>1. Quarantined' = {quarantine'[k][1] : k \in 1..Len(quarantine')} BY DEF Quarantined
  <2>2. ASSUME NEW x \in Quarantined' PROVE x \in Quarantined \cup {i}
    BY <2>1, <2>2, <1>2, <1>3 DEF Quarantined
  <2>3. ASSUME NEW x \in Quarantined \cup {i} PROVE x \in Quarantined'
    BY <2>1, <2>3, <1>2, <1>4, <1>5 DEF Quarantined
  <2> QED BY <2>2, <2>3
<1> QED BY <1>2, <1>3, <1>4, <1>6

(* The end of slot i's request: its word, closed or completing in w, is    *)
(* retired, or waits on the late list for a pin to go.                     *)
LEMMA SlotEnds ==
  ASSUME TypeInv, EpochInv, SlotInv, NEW i \in Slot, NEW w \in [Slot -> Word],
         \A j \in Slot : j # i => w[j] = word[j],
         w[i].gen = word[i].gen, w[i].readers = word[i].readers,
         w[i].state \in {"Completing", "Closed"}, w[i].cancel => w[i].state = "Closed",
         word[i].state # "Free",
         RetireOrDefer(w, IdOf(i)),
         waiter'[i].at = "none", \A j \in Slot : j # i => waiter'[j] = waiter[j],
         wpc \notin {"fill", "offer"},
         UNCHANGED <<lease_epoch, payload, free, requests, ready, posting, seen, pins, call,
                     wpc, published, inbox>>
  PROVE  SlotInv'
<1>1. IdOf(i).slot = i /\ IdOf(i).gen = word[i].gen /\ IdOf(i) \in Id BY SlotNat
<1>2. posting = <<>> /\ PostingInv' BY DEF SlotInv, PostingInv
<1>3. SeenIds' = SeenIds BY DEF SeenIds
<1>4. HandedInv' BY <1>3, HandedFrame DEF SlotInv
<1>5. check(w[i], word[i].gen, RetireStates) BY DEF check, RetireStates
<1>6. late \ {IdOf(i)} = {id \in late : id.slot # i}
  BY <1>1, IdEqual, IdNat DEF SlotInv, LateInv
<1>7. CASE w[i].readers = 0
  <2>1. /\ word' = [w EXCEPT ![i] = retire(@)]
        /\ quarantine' = Append(quarantine, <<i, Stamp>>)
        /\ late' = late \ {IdOf(i)}
    BY <1>1, <1>5, <1>7 DEF RetireOrDefer
  <2>2. word[i].gen + 1 <= requests BY DEF SlotInv, GenInv
  <2>3. /\ word'[i].gen = word[i].gen + 1 /\ word'[i].state = "Free"
        /\ word'[i].readers = 0 /\ word'[i].cancel = FALSE
    BY <2>1, <2>2, WordNat, SlotFacts DEF retire, NewWord, next_generation
  <2>4. \A j \in Slot : j # i => word'[j] = word[j] BY <2>1
  <2> HIDE <2>1
  <2>5. GenInv' /\ StateInv' BY <2>2, <2>3, <2>4, WordNat DEF SlotInv, GenInv, StateInv
  <2>6. Quarantined' = Quarantined \cup {i} BY <2>1, Quarantines
  <2>7. i \notin free \cup Quarantined BY DEF SlotInv, ListInv
  <2>8. ListInv'
    <3>1. \A j \in Slot : word'[j].state = "Free" <=> j \in free' \cup Quarantined'
      BY <2>3, <2>4, <2>6 DEF SlotInv, ListInv
    <3>2. free' \cap Quarantined' = {} BY <2>6, <2>7 DEF SlotInv, ListInv
    <3>3. \A k \in 1..Len(quarantine) : quarantine[k][1] # i BY <2>7 DEF Quarantined
    <3>4. \A k, m \in 1..Len(quarantine') : quarantine'[m][1] = quarantine'[k][1] => m = k
      BY <2>1, <3>3, Quarantines, ListNat DEF SlotInv, ListInv
    <3> QED BY <3>1, <3>2, <3>4 DEF ListInv
  <2>9. PayloadInv'
    <3>1. \A j \in Slot : word'[j].state # "Free" => payload'[j] = word'[j].gen
      BY <2>3, <2>4 DEF SlotInv, PayloadInv
    <3>2. payload'[i] + 1 = word'[i].gen BY <2>3 DEF SlotInv, PayloadInv
    <3>3. \A j \in Quarantined : j \in Slot /\ j # i BY <2>7, ListNat
    <3>4. \A j \in Quarantined : payload'[j] + 1 = word'[j].gen
      BY <2>4, <3>3 DEF SlotInv, PayloadInv
    <3> QED BY <2>6, <3>1, <3>2, <3>4 DEF PayloadInv
  <2>10. WaiterInv' /\ LateInv'
    <3>1. late' = {id \in late : id.slot # i} BY <2>1, <1>6
    <3>2. LateInv' BY <2>4, <3>1, IdNat DEF SlotInv, LateInv
    <3>3. \A j \in Slot : j # i => IdOf(j)' = IdOf(j) /\ IdOf(j).slot = j BY <2>4 DEF IdOf
    <3>4. WaiterInv' BY <2>3, <2>4, <3>1, <3>3 DEF SlotInv, WaiterInv
    <3> QED BY <3>2, <3>4
  <2>11. SeenInv'
    <3> SUFFICES ASSUME NEW s \in seen, NEW j \in Slot, j = s[1].slot
                 PROVE  /\ s[1].gen <= word'[j].gen
                        /\ s[1].gen = word'[j].gen =>
                             word'[j].state \in HostStates /\ lease_epoch[j] = s[2]
      BY IdNat DEF SeenInv
    <3>1. /\ s[1].gen \in Nat /\ s[1].gen <= word[j].gen
          /\ s[1].gen = word[j].gen => word[j].state \in HostStates /\ lease_epoch[j] = s[2]
      BY IdNat DEF SlotInv, SeenInv
    <3>2. CASE j = i BY <2>3, <3>1, <3>2, WordNat
    <3>3. CASE j # i BY <2>4, <3>1, <3>3
    <3> QED BY <3>2, <3>3
  <2>12. ReadyInv'
    <3>1. ready' = ready /\ \A k \in 1..Len(ready) : ready[k].slot \in Slot /\ ready[k].gen \in Nat
      BY IdNat
    <3>2. SUFFICES ASSUME NEW k \in 1..Len(ready), NEW j \in Slot, j = ready[k].slot
                   PROVE  /\ ready[k].gen <= word'[j].gen
                          /\ ready[k].gen = word'[j].gen =>
                               word'[j].state = "WorkerOwned" /\ waiter'[j].at = "waiting"
                          /\ \A m \in 1..Len(ready) : ready[m] = ready[k] => m = k
      BY <3>1 DEF ReadyInv
    <3>3. /\ ready[k].gen <= word[j].gen
          /\ ready[k].gen = word[j].gen => word[j].state = "WorkerOwned" /\ waiter[j].at = "waiting"
          /\ \A m \in 1..Len(ready) : ready[m] = ready[k] => m = k
      BY <3>2 DEF SlotInv, ReadyInv
    <3>4. CASE j = i BY <2>3, <3>1, <3>2, <3>3, <3>4, WordNat
    <3>5. CASE j # i BY <2>4, <3>3, <3>5
    <3> QED BY <3>4, <3>5
  <2>13. PinInv'
    <3>1. \A t \in Thread : \A id \in pins[t] : id \in Id /\ id.gen = word[id.slot].gen
      BY IdNat DEF SlotInv, PinInv
    <3>2. \A t \in Thread : \A id \in pins[t] : id.slot # i
      <4>1. \A t \in Thread : IdOf(i) \notin pins[t] BY <1>7, NoReaders DEF SlotInv
      <4> QED BY <1>1, <3>1, <4>1, IdEqual
    <3>3. \A t \in Thread : IdOf(i)' \notin pins[t] BY <3>2 DEF IdOf
    <3>4. Pinners(IdOf(i))' = {} BY <3>3 DEF Pinners
    <3>5. Cardinality({}) = 0 BY FS_EmptySet
    <3>6. \A j \in Slot : j # i => Pinners(IdOf(j))' = Pinners(IdOf(j))
      BY <2>4 DEF Pinners, IdOf
    <3> QED BY <1>3, <2>3, <2>4, <3>1, <3>2, <3>4, <3>5, <3>6, IdNat DEF SlotInv, PinInv
  <2> QED BY <1>2, <1>4, <2>5, <2>8, <2>9, <2>10, <2>11, <2>12, <2>13 DEF SlotInv
<1>8. CASE w[i].readers # 0
  <2>1. /\ word' = w /\ quarantine' = quarantine /\ late' = late \cup {IdOf(i)}
    BY <1>1, <1>5, <1>8 DEF RetireOrDefer, CanRetire, Deferred
  <2>2. word[i].state \in HostStates BY <1>8, PinnedHost DEF SlotInv
  <2>3. /\ \A j \in Slot : j # i => word'[j] = word[j]
        /\ word'[i].gen = word[i].gen /\ word'[i].readers = word[i].readers
        /\ word'[i].state \in {"Completing", "Closed"}
        /\ word'[i].cancel => word'[i].state = "Closed"
    BY <2>1
  <2>4. GenInv' /\ StateInv' BY <2>3 DEF SlotInv, GenInv, StateInv
  <2>5. Quarantined' = Quarantined BY <2>1 DEF Quarantined
  <2>6. ListInv' /\ PayloadInv'
    <3> QED BY <2>1, <2>3, <2>5, ListNat DEF SlotInv, ListInv, PayloadInv
  <2>7. LateInv' BY <1>1, <2>1, <2>3, IdNat DEF SlotInv, LateInv
  <2>8. WaiterInv'
    <3>1. \A j \in Slot : IdOf(j)' = IdOf(j) BY <2>3 DEF IdOf
    <3> QED BY <2>1, <2>3, <3>1 DEF SlotInv, WaiterInv
  <2>9. SeenInv' BY <2>3, IdNat DEF SlotInv, SeenInv, HostStates
  <2>10. ReadyInv' BY <2>2, <2>3, IdNat DEF SlotInv, ReadyInv, HostStates
  <2>11. PinInv' BY <1>3, <2>3, PinFrame, SlotFacts DEF SlotInv
  <2> QED BY <1>2, <1>4, <2>4, <2>6, <2>7, <2>8, <2>9, <2>10, <2>11 DEF SlotInv
<1> QED BY <1>7, <1>8

(* LeaseGuard::retire by a future that still waits.                        *)
LEMMA SlotGuardRetire ==
  ASSUME TypeInv, EpochInv, SlotInv, NEW i \in Slot, waiter[i].at # "none", wpc = "idle",
         GuardRetire(i), GuardFrame
  PROVE  SlotInv'
<1> DEFINE id == [slot |-> i, gen |-> waiter[i].gen]
<1>0. PICK w : w = Closed(id) OBVIOUS
<1>1. waiter[i].gen = word[i].gen /\ word[i].state \in StatesOf(waiter[i].at)
  BY DEF SlotInv, WaiterInv
<1>2. id = IdOf(i) /\ id \in Id BY <1>1, SlotNat DEF IdOf
<1>3. waiter[i].at \in {"waiting", "sealed", "gone", "importing", "taken"}
  BY SlotNat DEF Waiter
<1>4. word[i].state \in {"WorkerOwned", "Leased", "Completing", "Closed"}
  BY <1>1, <1>3 DEF StatesOf
<1>5. w \in [Slot -> Word] BY <1>0, <1>2, ClosedTyped
<1>6. word[i].cancel => word[i].state = "Closed" BY DEF SlotInv, StateInv
<1>7. /\ w[i].gen = word[i].gen /\ w[i].readers = word[i].readers
      /\ w[i].state \in {"Completing", "Closed"}
      /\ w[i].cancel => w[i].state = "Closed"
      /\ \A j \in Slot : j # i => w[j] = word[j]
  <2>1. word[i].gen = id.gen /\ id.slot = i BY <1>1
  <2>2. w[i] = CASE CanCloseLeased(word[i], id.gen) -> close_leased(word[i])
                 [] CanClose(word[i], id.gen)       -> close(word[i])
                 [] OTHER                           -> word[i]
    BY <1>0, <2>1, SlotFacts DEF Closed
  <2>3. \A j \in Slot : j # i => w[j] = word[j] BY <1>0, <2>1, SlotFacts DEF Closed
  <2>4. word[i] \in Word BY WordNat
  <2> HIDE DEF id
  <2>5. CASE word[i].state = "Leased"
    <3>1. w[i] = close_leased(word[i])
      BY <2>1, <2>2, <2>5 DEF CanCloseLeased, CanClose, check
    <3> QED BY <2>3, <2>4, <3>1 DEF close_leased, Word
  <2>6. CASE word[i].state = "WorkerOwned"
    <3>1. w[i] = close(word[i]) BY <2>1, <2>2, <2>6 DEF CanCloseLeased, CanClose, check
    <3> QED BY <2>3, <2>4, <3>1 DEF close, Word
  <2>7. CASE word[i].state \in {"Completing", "Closed"}
    <3>1. w[i] = word[i] BY <2>1, <2>2, <2>7 DEF CanCloseLeased, CanClose, check
    <3> QED BY <1>6, <2>3, <2>7, <3>1
  <2> QED BY <1>4, <2>5, <2>6, <2>7
<1>8. RetireOrDefer(w, IdOf(i)) /\ waiter' = [waiter EXCEPT ![i] = NoWaiter]
  BY <1>0, <1>2 DEF GuardRetire
<1>9. waiter'[i].at = "none" /\ \A j \in Slot : j # i => waiter'[j] = waiter[j]
  BY <1>8, SlotFacts DEF NoWaiter
<1>10. UNCHANGED <<lease_epoch, payload, free, requests, ready, posting, seen, pins, call,
                   wpc, published, inbox>>
  BY DEF GuardFrame, intakeVars, turnVars, targetVars, threadVars
<1> HIDE DEF id
<1> QED BY <1>4, <1>5, <1>7, <1>8, <1>9, <1>10, SlotEnds

(* A late slot is current, closed or completing, and nobody waits for it.  *)
LEMMA SlotLateRetire ==
  ASSUME TypeInv, EpochInv, SlotInv, NEW id \in late, LateRetire(id)
  PROVE  SlotInv'
<1> DEFINE i == id.slot
           w == LeaseClosed(id)
<1>1. /\ id \in Id /\ i \in Slot /\ id.gen = word[i].gen /\ waiter[i].at = "none"
      /\ word[i].state \in {"Completing", "Closed"}
  BY IdNat DEF SlotInv, LateInv
<1>2. id = IdOf(i) BY <1>1, SlotNat, IdEqual
<1>3. w = word
  <2>1. ~CanCloseLeased(word[i], id.gen) BY <1>1 DEF CanCloseLeased, check
  <2> QED BY <1>1, <2>1, SlotFacts DEF LeaseClosed
<1>4. RetireOrDefer(word, IdOf(i)) BY <1>2, <1>3 DEF LateRetire
<1>5. /\ wpc = "late"
      /\ UNCHANGED <<lease_epoch, payload, free, requests, ready, posting, seen, pins, call,
                     wpc, published, inbox, waiter>>
  BY DEF LateRetire, intakeVars, turnVars, targetVars, threadVars
<1>6. word[i].cancel => word[i].state = "Closed" BY <1>1 DEF SlotInv, StateInv
<1>7. /\ waiter'[i].at = "none" /\ \A j \in Slot : j # i => waiter'[j] = waiter[j]
      /\ wpc \notin {"fill", "offer"} /\ word[i].state # "Free"
  BY <1>1, <1>5
<1> HIDE DEF w, i
<1> QED BY <1>1, <1>4, <1>5, <1>6, <1>7, SlotEnds, SlotFacts

(* A queued job that is stale is refused and changes no slot.              *)
LEMMA StaleRefused ==
  ASSUME TypeInv, SlotInv, NEW id \in Id, id.gen # word[id.slot].gen,
         RetireOrDefer(LeaseClosed(id), id)
  PROVE  UNCHANGED <<word, quarantine, late>>
<1>1. LeaseClosed(id) = word BY SlotFacts, IdNat DEF LeaseClosed, CanCloseLeased, check
<1>2. id \notin late BY DEF SlotInv, LateInv
<1> QED BY <1>1, <1>2 DEF RetireOrDefer, CanRetire, check

(* A claim takes an index off the shelf the free indexes are on once the   *)
(* caller has released what it may.                                        *)
LEMMA SlotClaim ==
  ASSUME TypeInv, SlotInv, NEW i \in Slot, NEW shelf, NEW content,
         Claim(i, word, shelf, content),
         shelf \cup Quarantined' = free \cup Quarantined, shelf \cap Quarantined' = {},
         Quarantined' \subseteq Quarantined,
         \A k, m \in 1..Len(quarantine') : quarantine'[m][1] = quarantine'[k][1] => m = k,
         content \in [Slot -> Content],
         \A j \in Slot : j \notin shelf => content[j] = payload[j],
         wpc \notin {"fill", "offer"},
         UNCHANGED <<lease_epoch, seen, pins, call, posting, late, inbox>>
  PROVE  SlotInv'
<1>1. /\ i \in shelf /\ free' = shelf \ {i} /\ requests' = requests + 1
      /\ word[i].state = "Free" /\ word[i].readers = 0
      /\ word' = [word EXCEPT ![i] = hold(claim(@))]
      /\ payload' = [content EXCEPT ![i] = word[i].gen]
      /\ waiter' = [waiter EXCEPT ![i] = [gen |-> word[i].gen, at |-> "waiting"]]
      /\ ready' = Append(ready, [slot |-> i, gen |-> word[i].gen])
  BY DEF Claim, CanClaim, check
<1>2. /\ word'[i].gen = word[i].gen /\ word'[i].readers = word[i].readers
      /\ word'[i].state = "WorkerOwned" /\ word'[i].cancel = word[i].cancel
  BY <1>1, SlotFacts, WordNat DEF hold, claim, with_state, Word
<1>3. \A j \in Slot : j # i => word'[j] = word[j] /\ waiter'[j] = waiter[j]
  BY <1>1, SlotFacts
<1>4. waiter'[i].gen = word[i].gen /\ waiter'[i].at = "waiting" BY <1>1, SlotFacts
<1>5. payload'[i] = word[i].gen /\ \A j \in Slot : j \notin shelf => payload'[j] = payload[j]
  BY <1>1
<1>6. /\ Len(ready') = Len(ready) + 1
      /\ \A k \in 1..Len(ready) : ready'[k] = ready[k]
      /\ ready'[Len(ready) + 1] = IdOf(i)
  BY <1>1, SlotFacts DEF IdOf
<1>7. posting = <<>> /\ PostingInv' BY DEF SlotInv, PostingInv
<1>8. SeenIds' = SeenIds BY DEF SeenIds
<1>9. HandedInv' BY <1>8, HandedFrame DEF SlotInv
<1>10. PinInv' BY <1>2, <1>3, <1>8, PinFrame, SlotFacts DEF SlotInv
<1>11. GenInv' BY <1>1, <1>2, <1>3, WordNat DEF SlotInv, GenInv
<1>12. StateInv' BY <1>1, <1>2, <1>3 DEF SlotInv, StateInv
<1>13. ListInv'
  <2>1. \A j \in Slot : word'[j].state = "Free" <=> j \in free' \cup Quarantined'
    BY <1>1, <1>2, <1>3 DEF SlotInv, ListInv
  <2> QED BY <1>1, <2>1 DEF ListInv
<1>14. PayloadInv'
  <2>1. \A j \in Quarantined' : j \in Slot /\ j # i /\ j \notin shelf /\ j \in Quarantined
    BY <1>1, ListNat
  <2>2. \A j \in Quarantined' : payload'[j] + 1 = word'[j].gen
    BY <1>3, <1>5, <2>1 DEF SlotInv, PayloadInv
  <2>3. \A j \in Slot : j # i /\ word[j].state # "Free" => j \notin shelf
    BY DEF SlotInv, ListInv
  <2>4. \A j \in Slot : word'[j].state # "Free" => payload'[j] = word'[j].gen
    BY <1>2, <1>3, <1>5, <2>3 DEF SlotInv, PayloadInv
  <2> QED BY <2>2, <2>4 DEF PayloadInv
<1>15. \A id \in late : id.slot # i BY <1>1 DEF SlotInv, LateInv
<1>16. LateInv' BY <1>3, <1>15, IdNat DEF SlotInv, LateInv
<1>17. WaiterInv'
  <2>1. \A j \in Slot : IdOf(j)' = IdOf(j) BY <1>2, <1>3 DEF IdOf
  <2> QED BY <1>2, <1>3, <1>4, <2>1 DEF SlotInv, WaiterInv, StatesOf
<1>18. SeenInv' BY <1>1, <1>2, <1>3, IdNat DEF SlotInv, SeenInv, HostStates
<1>19. ReadyInv'
  <2>1. \A k \in 1..Len(ready) : ready[k] # IdOf(i)
    <3> SUFFICES ASSUME NEW k \in 1..Len(ready), ready[k] = IdOf(i) PROVE FALSE
      OBVIOUS
    <3>1. ready[k].slot = i /\ ready[k].gen = word[i].gen BY SlotNat
    <3> QED BY <1>1, <3>1 DEF SlotInv, ReadyInv
  <2>2. \A k \in 1..Len(ready') : k \in 1..Len(ready) \/ k = Len(ready) + 1
    BY <1>6, IdNat
  <2>3. \A k \in 1..Len(ready) :
          /\ ready[k].gen <= word'[ready[k].slot].gen
          /\ ready[k].gen = word'[ready[k].slot].gen =>
               word'[ready[k].slot].state = "WorkerOwned" /\ waiter'[ready[k].slot].at = "waiting"
    <3> SUFFICES ASSUME NEW k \in 1..Len(ready), NEW j \in Slot, j = ready[k].slot
                 PROVE  /\ ready[k].gen <= word'[j].gen
                        /\ ready[k].gen = word'[j].gen =>
                             word'[j].state = "WorkerOwned" /\ waiter'[j].at = "waiting"
      BY IdNat
    <3>1. /\ ready[k].gen <= word[j].gen
          /\ ready[k].gen = word[j].gen =>
               word[j].state = "WorkerOwned" /\ waiter[j].at = "waiting"
      BY DEF SlotInv, ReadyInv
    <3> QED BY <1>2, <1>3, <1>4, <3>1
  <2>4. /\ IdOf(i).gen <= word'[i].gen /\ IdOf(i).slot = i
        /\ word'[i].state = "WorkerOwned" /\ waiter'[i].at = "waiting"
    BY <1>2, <1>4, SlotNat, WordNat
  <2>5. \A k, m \in 1..Len(ready') : ready'[m] = ready'[k] => m = k
    BY <1>6, <2>1, <2>2 DEF SlotInv, ReadyInv
  <2> QED BY <1>6, <2>2, <2>3, <2>4, <2>5 DEF ReadyInv
<1> QED BY <1>7, <1>9, <1>10, <1>11, <1>12, <1>13, <1>14, <1>16, <1>17, <1>18, <1>19 DEF SlotInv

(* What a release leaves of the quarantine, and where the rest goes.       *)
LEMMA Releases ==
  ASSUME TypeInv, SlotInv, NEW n \in 0..Len(quarantine),
         quarantine' = SubSeq(quarantine, n + 1, Len(quarantine))
  PROVE  /\ Len(quarantine') = Len(quarantine) - n
         /\ \A k \in 1..Len(quarantine') :
              n + k \in 1..Len(quarantine) /\ quarantine'[k] = quarantine[n + k]
         /\ \A k, m \in 1..Len(quarantine') : quarantine'[m][1] = quarantine'[k][1] => m = k
         /\ Quarantined' = Quarantined \ Popped(n) /\ Popped(n) \subseteq Quarantined
         /\ Released(n) \cup Quarantined' = free \cup Quarantined
         /\ Released(n) \cap Quarantined' = {}
         /\ ReleasedPayload(n) \in [Slot -> Content]
         /\ \A j \in Slot : j \notin Released(n) => ReleasedPayload(n)[j] = payload[j]
<1>1. /\ Len(quarantine') = Len(quarantine) - n
      /\ \A k \in 1..Len(quarantine') : quarantine'[k] = quarantine[n + k]
  <2>1. quarantine \in Seq(Slot \X Epoch) BY SlotFacts
  <2> QED BY <2>1, SubSeqProperties
<1>2. n \in Nat /\ Len(quarantine) \in Nat /\ n <= Len(quarantine) BY ListNat
<1>3. \A k \in 1..Len(quarantine') : n + k \in 1..Len(quarantine) /\ k \in Nat BY <1>1, <1>2
<1>4. \A k, m \in 1..Len(quarantine) : quarantine[m][1] = quarantine[k][1] => m = k
  BY DEF SlotInv, ListInv
<1>5. \A k, m \in 1..Len(quarantine') : quarantine'[m][1] = quarantine'[k][1] => m = k
  <2> SUFFICES ASSUME NEW k \in 1..Len(quarantine'), NEW m \in 1..Len(quarantine'),
                      quarantine'[m][1] = quarantine'[k][1]
               PROVE  m = k
    OBVIOUS
  <2>1. n + m = n + k BY <1>1, <1>3, <1>4
  <2> QED BY <1>2, <1>3, <2>1
<1>6. Popped(n) \subseteq Quarantined
  <2>1. \A k \in 1..n : k \in 1..Len(quarantine) BY <1>2
  <2> QED BY <2>1 DEF Popped, Quarantined
<1>7. Quarantined' = Quarantined \ Popped(n)
  <2>1. ASSUME NEW x \in Quarantined' PROVE x \in Quarantined /\ x \notin Popped(n)
    <3>1. PICK k \in 1..Len(quarantine') : x = quarantine'[k][1] BY DEF Quarantined
    <3>2. x = quarantine[n + k][1] /\ n + k \in 1..Len(quarantine) /\ n + k \notin 1..n
      BY <1>1, <1>2, <1>3, <3>1
    <3>3. \A m \in 1..n : m \in 1..Len(quarantine) BY <1>2
    <3>4. \A m \in 1..n : quarantine[m][1] # x BY <1>4, <3>2, <3>3
    <3> QED BY <3>2, <3>4 DEF Quarantined, Popped
  <2>2. ASSUME NEW x \in Quarantined, x \notin Popped(n) PROVE x \in Quarantined'
    <3>1. PICK k \in 1..Len(quarantine) : x = quarantine[k][1] BY DEF Quarantined
    <3>2. k \notin 1..n BY <2>2, <3>1 DEF Popped
    <3>3. k - n \in 1..Len(quarantine') /\ n + (k - n) = k BY <1>1, <1>2, <3>2
    <3>4. quarantine'[k - n] = quarantine[k] BY <1>1, <3>3
    <3> QED BY <3>1, <3>3, <3>4 DEF Quarantined
  <2> QED BY <2>1, <2>2
<1>8. /\ Released(n) \cup Quarantined' = free \cup Quarantined
      /\ Released(n) \cap Quarantined' = {}
  BY <1>6, <1>7 DEF Released, SlotInv, ListInv
<1>9. ReleasedPayload(n) \in [Slot -> Content] BY ReleaseTyped
<1>10. \A j \in Slot : j \notin Released(n) => ReleasedPayload(n)[j] = payload[j]
  BY DEF Released, ReleasedPayload
<1> QED BY <1>1, <1>3, <1>5, <1>6, <1>7, <1>8, <1>9, <1>10

(* A release moves indexes between lists and clears their payloads.        *)
LEMMA SlotRelease ==
  ASSUME TypeInv, SlotInv, NEW n \in 0..Len(quarantine),
         quarantine' = SubSeq(quarantine, n + 1, Len(quarantine)),
         free' = Released(n), payload' = ReleasedPayload(n), wpc \notin {"fill", "offer"},
         UNCHANGED <<word, lease_epoch, requests, ready, posting, late, waiter, seen, pins,
                     call, inbox>>
  PROVE  SlotInv'
<1>1. SeenIds' = SeenIds /\ \A i \in Slot : IdOf(i)' = IdOf(i) BY DEF SeenIds, IdOf
<1>2. PostingInv' BY DEF SlotInv, PostingInv
<1>3. GenInv' /\ StateInv' /\ WaiterInv' /\ LateInv' /\ SeenInv' /\ ReadyInv'
  BY <1>1 DEF SlotInv, GenInv, StateInv, WaiterInv, LateInv, SeenInv, ReadyInv
<1>4. PinInv' BY <1>1, PinFrame, SlotFacts DEF SlotInv
<1>5. HandedInv' BY <1>1, HandedFrame DEF SlotInv
<1>6. ListInv' BY Releases DEF SlotInv, ListInv
<1>7. PayloadInv'
  <2>1. \A j \in Slot : word[j].state # "Free" => j \notin Released(n)
    BY Releases DEF SlotInv, ListInv
  <2>2. \A j \in Quarantined' : j \in Slot /\ j \notin Released(n) /\ j \in Quarantined
    BY Releases, ListNat
  <2> QED BY <2>1, <2>2, Releases DEF SlotInv, PayloadInv
<1> QED BY <1>2, <1>3, <1>4, <1>5, <1>6, <1>7 DEF SlotInv

(* The worker's allocations and releases keep the slots.                   *)
LEMMA SlotAlloc ==
  ASSUME TypeInv, SlotInv, (\E i \in Slot : Allocate(i)) \/ ReleaseAndAllocate \/ Release
  PROVE  SlotInv'
<1>1. ASSUME NEW i \in Slot, Allocate(i) PROVE SlotInv'
  <2>1. /\ wpc = "idle" /\ Claim(i, word, free, payload)
        /\ UNCHANGED <<lease_epoch, quarantine, posting, late, seen, pins, call, inbox>>
    BY <1>1 DEF Allocate, intakeVars, targetVars, threadVars
  <2>2. Quarantined' = Quarantined BY <2>1 DEF Quarantined
  <2>3. /\ \A k, m \in 1..Len(quarantine') : quarantine'[m][1] = quarantine'[k][1] => m = k
        /\ free \cap Quarantined' = {} /\ free \cup Quarantined' = free \cup Quarantined
        /\ payload \in [Slot -> Content]
    BY <2>1, <2>2, SlotFacts DEF SlotInv, ListInv
  <2> QED BY <2>1, <2>2, <2>3, SlotClaim
<1>2. CASE ReleaseAndAllocate
  <2>1. PICK n \in 0..Len(quarantine) :
          /\ quarantine' = SubSeq(quarantine, n + 1, Len(quarantine))
          /\ \/ \E i \in Slot : Claim(i, word, Released(n), ReleasedPayload(n))
             \/ /\ free' = Released(n)
                /\ payload' = ReleasedPayload(n)
                /\ UNCHANGED <<word, staged, waiter, ready, requests>>
    BY <1>2 DEF ReleaseAndAllocate
  <2>2. /\ wpc = "exhausted"
        /\ UNCHANGED <<lease_epoch, posting, late, seen, pins, call, inbox>>
    BY <1>2 DEF ReleaseAndAllocate, intakeVars, targetVars, threadVars
  <2>3. ASSUME NEW i \in Slot, Claim(i, word, Released(n), ReleasedPayload(n)) PROVE SlotInv'
    <3>1. PICK shelf, content : shelf = Released(n) /\ content = ReleasedPayload(n) OBVIOUS
    <3>2. /\ shelf \cup Quarantined' = free \cup Quarantined /\ shelf \cap Quarantined' = {}
          /\ Quarantined' \subseteq Quarantined
          /\ \A k, m \in 1..Len(quarantine') : quarantine'[m][1] = quarantine'[k][1] => m = k
          /\ content \in [Slot -> Content]
          /\ \A j \in Slot : j \notin shelf => content[j] = payload[j]
      BY <2>1, <3>1, Releases
    <3>3. Claim(i, word, shelf, content) BY <2>3, <3>1
    <3> QED BY <2>2, <3>2, <3>3, SlotClaim
  <2> QED BY <2>1, <2>2, <2>3, SlotRelease
<1>3. CASE Release
  <2>1. PICK n \in 0..Len(quarantine) :
          /\ quarantine' = SubSeq(quarantine, n + 1, Len(quarantine))
          /\ free' = Released(n) /\ payload' = ReleasedPayload(n)
    BY <1>3 DEF Release
  <2>2. /\ wpc = "release"
        /\ UNCHANGED <<word, lease_epoch, requests, ready, posting, late, waiter, seen, pins,
                       call, inbox>>
    BY <1>3 DEF Release, queueVars, intakeVars, targetVars, threadVars
  <2> QED BY <2>1, <2>2, SlotRelease
<1> QED BY <1>1, <1>2, <1>3

(* fill_requests: the head of the queue is leased into the batch.          *)
LEMMA SlotFill == ASSUME TypeInv, SlotInv, FillJob PROVE SlotInv'
<1> DEFINE job == Head(ready)
           i == job.slot
<1>1. /\ wpc = "fill" /\ ready # <<>> /\ ready' = Tail(ready)
      /\ UNCHANGED <<payload, free, requests, waiter, wpc, published, seen, pins, call, inbox>>
  BY DEF FillJob, intakeVars, turnVars, targetVars, threadVars
<1>2. /\ 1 \in 1..Len(ready) /\ job = ready[1] /\ job \in Id /\ i \in Slot
      /\ Len(ready') = Len(ready) - 1
      /\ \A k \in 1..Len(ready') : k + 1 \in 1..Len(ready) /\ ready'[k] = ready[k + 1]
  <2>1. ready \in Seq(Id) BY SlotFacts
  <2>2. /\ Len(ready) \in Nat \ {0} /\ job = ready[1] /\ job \in Id
        /\ Len(ready') = Len(ready) - 1
        /\ \A k \in 1..Len(ready') : ready'[k] = ready[k + 1]
    BY <1>1, <2>1, HeadTailProperties
  <2> QED BY <2>2, IdNat
<1>3. SeenIds' = SeenIds /\ Posted' = Posted /\ Posted = published BY <1>1 DEF SeenIds, Posted
<1>4. HandedInv' BY <1>1, <1>3, HandedFrame DEF SlotInv
<1>5. \A k \in 1..Len(ready') : ready'[k] # job
  <2>1. \A k \in 1..Len(ready') : k \in Nat /\ k + 1 # 1 BY <1>2, IdNat
  <2> QED BY <1>2, <2>1 DEF SlotInv, ReadyInv
<1>6. \A k, m \in 1..Len(ready') : ready'[m] = ready'[k] => m = k
  <2>1. \A k, m \in 1..Len(ready') : ready'[m] = ready'[k] => m + 1 = k + 1
    BY <1>2 DEF SlotInv, ReadyInv
  <2> QED BY <1>2, <2>1, IdNat
<1>7. CASE CanLease(word[i], job.gen)
  <2>1. /\ word' = [word EXCEPT ![i] = lease(@)]
        /\ lease_epoch' = [lease_epoch EXCEPT ![i] = published + 1]
        /\ posting' = Append(posting, job) /\ UNCHANGED <<quarantine, late>>
    BY <1>7 DEF FillJob
  <2>2. word[i].state = "WorkerOwned" /\ job.gen = word[i].gen /\ ~word[i].cancel
    BY <1>7 DEF CanLease, check
  <2>3. /\ word'[i].state = "Leased" /\ word'[i].gen = word[i].gen
        /\ word'[i].readers = word[i].readers /\ word'[i].cancel = word[i].cancel
        /\ \A j \in Slot : j # i => word'[j] = word[j] /\ lease_epoch'[j] = lease_epoch[j]
        /\ lease_epoch'[i] = published + 1
    BY <1>2, <2>1, WordNat, SlotFacts DEF lease, with_state, Word
  <2>4. /\ Len(posting') = Len(posting) + 1 /\ posting'[Len(posting) + 1] = job
        /\ \A k \in 1..Len(posting) : posting'[k] = posting[k]
        /\ \A k \in 1..Len(posting') : k \in 1..Len(posting) \/ k = Len(posting) + 1
    <3>1. posting \in Seq(Id) /\ job \in Id BY SlotFacts, <1>2
    <3> HIDE DEF job
    <3> QED BY <2>1, <3>1
  <2> HIDE DEF job, i
  <2>5. waiter[i].at = "waiting"
    <3>1. ready[1].slot = i BY <1>2 DEF i
    <3> QED BY <1>2, <2>2, <3>1 DEF SlotInv, ReadyInv
  <2>6. Quarantined' = Quarantined BY <2>1 DEF Quarantined
  <2>7. GenInv' /\ StateInv' BY <1>1, <1>2, <2>2, <2>3, WordNat DEF SlotInv, GenInv, StateInv
  <2>8. ListInv' BY <1>1, <1>2, <2>1, <2>2, <2>3, <2>6 DEF SlotInv, ListInv
  <2>9. PayloadInv' BY <1>1, <1>2, <2>2, <2>3, <2>6, ListNat DEF SlotInv, PayloadInv
  <2>10. LateInv' BY <1>1, <2>1, <2>2, <2>3, IdNat DEF SlotInv, LateInv
  <2>11. WaiterInv'
    <3>1. \A j \in Slot : IdOf(j)' = IdOf(j) BY <2>3 DEF IdOf
    <3> QED BY <1>1, <2>1, <2>2, <2>3, <2>5, <3>1 DEF SlotInv, WaiterInv, StatesOf
  <2>12. job \notin SeenIds
    <3>1. SUFFICES ASSUME NEW s \in seen, s[1] = job PROVE FALSE BY DEF SeenIds
    <3>2. job.slot = i BY DEF i
    <3> QED BY <2>2, <3>1, <3>2 DEF SlotInv, SeenInv, HostStates
  <2>13. SeenInv'
    <3>1. \A s \in seen : s[1].slot = i => s[1].gen # word[i].gen
      BY <2>2 DEF SlotInv, SeenInv, HostStates
    <3> QED BY <1>1, <2>3, <3>1, IdNat DEF SlotInv, SeenInv
  <2>14. ReadyInv'
    <3>1. \A k \in 1..Len(ready') : ready'[k].slot = i => ready'[k].gen # word[i].gen
      <4>1. job.slot = i BY DEF i
      <4>2. \A k \in 1..Len(ready') : ready'[k] \in Id BY <1>2, IdNat
      <4> QED BY <1>2, <1>5, <2>2, <4>1, <4>2, IdEqual
    <3>2. \A k \in 1..Len(ready') :
            /\ ready'[k].slot \in Slot /\ ready'[k].gen <= word[ready'[k].slot].gen
            /\ ready'[k].gen = word[ready'[k].slot].gen =>
                 word[ready'[k].slot].state = "WorkerOwned" /\ waiter[ready'[k].slot].at = "waiting"
      BY <1>2, IdNat DEF SlotInv, ReadyInv
    <3> QED BY <1>1, <1>6, <2>3, <3>1, <3>2 DEF ReadyInv
  <2>15. PostingInv'
    <3>1. \A k \in 1..Len(posting) : posting[k].slot # i BY <2>2 DEF SlotInv, PostingInv
    <3>2. job.slot = i BY DEF i
    <3>3. \A k \in 1..Len(posting) :
            /\ posting[k] \notin SeenIds' /\ posting[k].gen = word'[posting[k].slot].gen
            /\ word'[posting[k].slot].state = "Leased" /\ waiter'[posting[k].slot].at = "waiting"
            /\ lease_epoch'[posting[k].slot] = Posted' + 1
      <4>1. \A k \in 1..Len(posting) :
              /\ word'[posting[k].slot] = word[posting[k].slot]
              /\ lease_epoch'[posting[k].slot] = lease_epoch[posting[k].slot]
        BY <2>3, <3>1, IdNat
      <4> QED BY <1>1, <1>3, <4>1 DEF SlotInv, PostingInv
    <3>4. \A k, m \in 1..Len(posting') : posting'[m] = posting'[k] => m = k
      BY <2>4, <3>1, <3>2 DEF SlotInv, PostingInv
    <3>5. \A k \in 1..Len(posting') : posting'[k] = job \/ (k \in 1..Len(posting) /\ posting'[k] = posting[k])
      BY <2>4
    <3>6. /\ job \notin SeenIds' /\ job.gen = word'[i].gen /\ word'[i].state = "Leased"
          /\ waiter'[i].at = "waiting" /\ lease_epoch'[i] = Posted' + 1
      BY <1>1, <1>3, <2>2, <2>3, <2>5, <2>12
    <3> QED BY <1>1, <3>2, <3>3, <3>4, <3>5, <3>6 DEF PostingInv
  <2>16. PinInv' BY <1>1, <1>3, <2>3, PinFrame, SlotFacts DEF SlotInv
  <2> QED BY <1>4, <2>7, <2>8, <2>9, <2>10, <2>11, <2>13, <2>14, <2>15, <2>16 DEF SlotInv
<1>8. CASE ~CanLease(word[i], job.gen)
  <2>1. job.gen # word[i].gen
    BY <1>2, <1>8 DEF CanLease, check, SlotInv, ReadyInv, StateInv
  <2>2. UNCHANGED <<lease_epoch, posting>> /\ RetireOrDefer(LeaseClosed(job), job)
    BY <1>8 DEF FillJob
  <2>3. UNCHANGED <<word, quarantine, late>> BY <1>2, <2>1, <2>2, StaleRefused
  <2> HIDE DEF job, i
  <2>4. Quarantined' = Quarantined /\ \A j \in Slot : IdOf(j)' = IdOf(j)
    BY <2>3 DEF Quarantined, IdOf
  <2>5. GenInv' /\ StateInv' /\ ListInv' /\ PayloadInv' /\ WaiterInv' /\ LateInv' /\ SeenInv'
    BY <1>1, <2>2, <2>3, <2>4
    DEF SlotInv, GenInv, StateInv, ListInv, PayloadInv, WaiterInv, LateInv, SeenInv
  <2>6. PostingInv' BY <1>1, <1>3, <2>2, <2>3 DEF SlotInv, PostingInv
  <2>7. PinInv' BY <1>1, <1>3, <2>3, PinFrame, SlotFacts DEF SlotInv
  <2>8. ReadyInv' BY <1>1, <1>2, <1>6, <2>3 DEF SlotInv, ReadyInv
  <2> QED BY <1>4, <2>5, <2>6, <2>7, <2>8 DEF SlotInv
<1> QED BY <1>7, <1>8

(* The target takes the batch: its ids are now in the hands of hosts.      *)
LEMMA SlotTaken == ASSUME TypeInv, SlotInv, OfferTaken PROVE SlotInv'
<1>1. /\ wpc = "offer" /\ posting' = <<>>
      /\ seen' = seen \cup {<<posting[k], published>> : k \in DOMAIN posting}
      /\ UNCHANGED <<word, lease_epoch, payload, free, quarantine, requests, ready, late, waiter,
                     pins, call, inbox>>
  BY DEF OfferTaken, arenaVars, intakeVars, allocVars, threadVars
<1>2. DOMAIN posting = 1..Len(posting) BY SlotFacts
<1>3. SeenIds \subseteq SeenIds' BY <1>1 DEF SeenIds
<1>4. Quarantined' = Quarantined /\ \A j \in Slot : IdOf(j)' = IdOf(j)
  BY <1>1 DEF Quarantined, IdOf
<1>5. GenInv' /\ StateInv' /\ ListInv' /\ PayloadInv' /\ WaiterInv' /\ LateInv' /\ ReadyInv'
  BY <1>1, <1>4 DEF SlotInv, GenInv, StateInv, ListInv, PayloadInv, WaiterInv, LateInv, ReadyInv
<1>6. PostingInv' BY <1>1 DEF PostingInv
<1>7. PinInv' BY <1>1, <1>3, PinFrame, SlotFacts DEF SlotInv
<1>8. HandedInv' BY <1>1, <1>3, HandedFrame DEF SlotInv
<1>9. SeenInv'
  <2> SUFFICES ASSUME NEW s \in seen'
               PROVE  /\ s[1].gen <= word[s[1].slot].gen
                      /\ s[1].gen = word[s[1].slot].gen =>
                           word[s[1].slot].state \in HostStates /\ lease_epoch[s[1].slot] = s[2]
    BY <1>1 DEF SeenInv
  <2>1. CASE s \in seen BY <2>1 DEF SlotInv, SeenInv
  <2>2. CASE s \notin seen
    <3>1. PICK k \in 1..Len(posting) : s = <<posting[k], published>> BY <1>1, <1>2, <2>2
    <3>2. s[1] = posting[k] /\ s[2] = published BY <3>1
    <3>3. /\ posting[k].gen = word[posting[k].slot].gen /\ word[posting[k].slot].state = "Leased"
          /\ lease_epoch[posting[k].slot] = Posted + 1 /\ posting[k].gen \in Nat
      BY IdNat DEF SlotInv, PostingInv
    <3>4. Posted + 1 = published BY <1>1, EpochNat DEF Posted
    <3> QED BY <3>2, <3>3, <3>4 DEF HostStates
  <2> QED BY <2>1, <2>2
<1> QED BY <1>5, <1>6, <1>7, <1>8, <1>9 DEF SlotInv

(* A refused batch is taken back whole: every job of it was still leased,  *)
(* and goes back to the front of the queue.                                *)
LEMMA SlotRefused == ASSUME TypeInv, SlotInv, OfferRefused PROVE SlotInv'
<1> DEFINE Back(j) == \E k \in 1..Len(posting) : posting[k].slot = j
<1>1. /\ posting' = <<>> /\ ready' = posting \o ready
      /\ UNCHANGED <<lease_epoch, payload, free, quarantine, requests, late, waiter, seen, pins,
                     call, inbox>>
      /\ word' = [j \in Slot |->
           IF \E k \in DOMAIN posting : posting[k].slot = j /\ CanUnlease(word[j], posting[k].gen)
           THEN unlease(word[j]) ELSE word[j]]
  BY DEF OfferRefused, targetVars, allocVars, threadVars
<1>2. \A k \in 1..Len(posting) :
        /\ posting[k] \in Id /\ posting[k].slot \in Slot /\ posting[k] \notin SeenIds
        /\ posting[k].gen = word[posting[k].slot].gen /\ word[posting[k].slot].state = "Leased"
        /\ waiter[posting[k].slot].at = "waiting"
  BY IdNat DEF SlotInv, PostingInv
<1>3. \A j \in Slot : word'[j] = IF Back(j) THEN unlease(word[j]) ELSE word[j]
  <2>1. DOMAIN posting = 1..Len(posting) BY SlotFacts
  <2> QED BY <1>1, <1>2, <2>1 DEF CanUnlease, check
<1>4. \A j \in Slot : Back(j) => word[j].state = "Leased" /\ waiter[j].at = "waiting" BY <1>2
<1>5. \A j \in Slot :
        /\ word'[j].gen = word[j].gen /\ word'[j].readers = word[j].readers
        /\ word'[j].cancel = word[j].cancel
        /\ word'[j].state = IF Back(j) THEN "WorkerOwned" ELSE word[j].state
  BY <1>3, WordNat DEF unlease, with_state, Word
<1> HIDE DEF Back
<1>6. SeenIds' = SeenIds /\ Quarantined' = Quarantined /\ \A j \in Slot : IdOf(j)' = IdOf(j)
  BY <1>1, <1>5 DEF SeenIds, Quarantined, IdOf
<1>7. HandedInv' BY <1>1, <1>6, HandedFrame DEF SlotInv
<1>8. PostingInv' BY <1>1 DEF PostingInv
<1>9. PinInv' BY <1>1, <1>5, <1>6, PinFrame, SlotFacts DEF SlotInv
<1>10. GenInv' BY <1>1, <1>4, <1>5 DEF SlotInv, GenInv
<1>11. StateInv' BY <1>4, <1>5 DEF SlotInv, StateInv
<1>12. ListInv' BY <1>1, <1>4, <1>5, <1>6 DEF SlotInv, ListInv
<1>13. PayloadInv' BY <1>1, <1>4, <1>5, <1>6, ListNat DEF SlotInv, PayloadInv
<1>14. WaiterInv' BY <1>1, <1>4, <1>5, <1>6 DEF SlotInv, WaiterInv, StatesOf
<1>15. LateInv'
  <2>1. \A id \in late : id.slot \in Slot /\ ~Back(id.slot) BY <1>4, IdNat DEF SlotInv, LateInv
  <2> QED BY <1>1, <1>5, <2>1 DEF SlotInv, LateInv
<1>16. SeenInv'
  <2>1. \A s \in seen : s[1].slot \in Slot /\ s[1].gen \in Nat BY IdNat
  <2>2. \A s \in seen : s[1].gen = word[s[1].slot].gen => ~Back(s[1].slot)
    BY <1>2, IdEqual, IdNat DEF Back
  <2> QED BY <1>1, <1>5, <2>1, <2>2 DEF SlotInv, SeenInv
<1>17. ReadyInv'
  <2>1. /\ Len(ready') = Len(posting) + Len(ready)
        /\ \A k \in 1..Len(posting) : ready'[k] = posting[k]
        /\ \A k \in 1..Len(ready) : ready'[Len(posting) + k] = ready[k]
    <3>1. posting \in Seq(Id) /\ ready \in Seq(Id) BY SlotFacts
    <3> QED BY <1>1, <3>1
  <2>2. \A k \in 1..Len(ready') :
          k \in 1..Len(posting) \/ (k - Len(posting) \in 1..Len(ready) /\ k \in Nat)
    BY <2>1, IdNat
  <2>3. \A k \in 1..Len(ready') : ready'[k] =
          IF k \in 1..Len(posting) THEN posting[k] ELSE ready[k - Len(posting)]
    <3>1. \A k \in 1..Len(ready') : Len(posting) + (k - Len(posting)) = k BY <2>1, IdNat
    <3> QED BY <2>1, <2>2, <3>1
  <2>4. \A k \in 1..Len(posting), m \in 1..Len(ready) : posting[k] # ready[m]
    BY <1>2 DEF SlotInv, ReadyInv
  <2>5. \A k, m \in 1..Len(posting) : posting[m] = posting[k] => m = k
    BY DEF SlotInv, PostingInv
  <2>6. \A k, m \in 1..Len(ready) : ready[m] = ready[k] => m = k BY DEF SlotInv, ReadyInv
  <2>7. \A k, m \in 1..Len(ready') : ready'[m] = ready'[k] => m = k
    <3> SUFFICES ASSUME NEW k \in 1..Len(ready'), NEW m \in 1..Len(ready'), ready'[m] = ready'[k]
                 PROVE  m = k
      OBVIOUS
    <3>1. CASE k \in 1..Len(posting) /\ m \in 1..Len(posting) BY <2>3, <2>5, <3>1
    <3>2. CASE k \notin 1..Len(posting) /\ m \notin 1..Len(posting)
      <4>1. k - Len(posting) = m - Len(posting) /\ k \in Nat /\ m \in Nat
        BY <2>2, <2>3, <2>6, <3>2
      <4> QED BY <4>1, IdNat
    <3>3. CASE ~(k \in 1..Len(posting) <=> m \in 1..Len(posting)) BY <2>2, <2>3, <2>4, <3>3
    <3> QED BY <3>1, <3>2, <3>3
  <2>8. ASSUME NEW k \in 1..Len(posting), NEW j, j = posting[k].slot
        PROVE  /\ posting[k].gen <= word'[j].gen
               /\ word'[j].state = "WorkerOwned" /\ waiter'[j].at = "waiting"
    <3>1. j \in Slot /\ Back(j) /\ posting[k].gen = word[j].gen /\ word[j].gen \in Nat
          /\ waiter[j].at = "waiting"
      BY <1>2, <2>8, WordNat DEF Back
    <3> QED BY <1>1, <1>5, <3>1
  <2>9. ASSUME NEW k \in 1..Len(ready), NEW j, j = ready[k].slot
        PROVE  /\ ready[k].gen <= word'[j].gen
               /\ ready[k].gen = word'[j].gen => word'[j].state = "WorkerOwned" /\ waiter'[j].at = "waiting"
    <3>1. j \in Slot /\ ready[k].gen <= word[j].gen
          /\ (ready[k].gen = word[j].gen => word[j].state = "WorkerOwned" /\ waiter[j].at = "waiting")
      BY <2>9, IdNat DEF SlotInv, ReadyInv
    <3> QED BY <1>1, <1>5, <3>1
  <2>10. ASSUME NEW k \in 1..Len(ready')
         PROVE  /\ ready'[k].gen <= word'[ready'[k].slot].gen
                /\ ready'[k].gen = word'[ready'[k].slot].gen =>
                     word'[ready'[k].slot].state = "WorkerOwned" /\ waiter'[ready'[k].slot].at = "waiting"
    <3>1. CASE k \in 1..Len(posting) BY <2>3, <2>8, <3>1
    <3>2. CASE k \notin 1..Len(posting)
      <4>1. k - Len(posting) \in 1..Len(ready) /\ ready'[k] = ready[k - Len(posting)]
        BY <2>2, <2>3, <3>2
      <4> QED BY <2>9, <4>1
    <3> QED BY <3>1, <3>2
  <2> QED BY <2>7, <2>10 DEF ReadyInv
<1> QED BY <1>7, <1>8, <1>9, <1>10, <1>11, <1>12, <1>13, <1>14, <1>15, <1>16, <1>17 DEF SlotInv

(* lose_target closes the leases of the futures that still wait.           *)
LEMMA SlotLose == ASSUME TypeInv, SlotInv, LoseLeases PROVE SlotInv'
<1> DEFINE lost == {i \in Slot : CanCloseLeased(word[i], word[i].gen) /\ Waiting(IdOf(i))}
<1>1. /\ wpc \in {"lose", "gone"}
      /\ UNCHANGED <<lease_epoch, payload, free, quarantine, requests, ready, posting, late, seen,
                     pins, call, inbox>>
      /\ word' = [i \in Slot |-> IF i \in lost THEN close_leased(word[i]) ELSE word[i]]
      /\ waiter' = [i \in Slot |->
                     IF i \in lost THEN [waiter[i] EXCEPT !.at = "gone"] ELSE waiter[i]]
  BY DEF LoseLeases, targetVars, allocVars, threadVars, intakeVars
<1>2. \A i \in Slot : i \in lost => word[i].state = "Leased" /\ waiter[i].at = "waiting"
  BY SlotNat DEF CanCloseLeased, check, Waiting
<1>4. \A i \in Slot : i \notin lost => word'[i] = word[i] /\ waiter'[i] = waiter[i] BY <1>1
<1>5. \A i \in Slot : i \in lost =>
        /\ word'[i].gen = word[i].gen /\ word'[i].readers = word[i].readers
        /\ word'[i].state = "Closed" /\ waiter'[i].at = "gone" /\ waiter'[i].gen = waiter[i].gen
  <2> SUFFICES ASSUME NEW i \in Slot, i \in lost
               PROVE  /\ word'[i].gen = word[i].gen /\ word'[i].readers = word[i].readers
                      /\ word'[i].state = "Closed" /\ waiter'[i].at = "gone"
                      /\ waiter'[i].gen = waiter[i].gen
    OBVIOUS
  <2> HIDE DEF lost
  <2>1. word'[i] = close_leased(word[i]) /\ word[i] \in Word BY <1>1, WordNat
  <2>2. waiter'[i] = [waiter[i] EXCEPT !.at = "gone"] /\ waiter[i] \in Waiter BY <1>1, SlotNat
  <2>3. /\ word'[i].gen = word[i].gen /\ word'[i].readers = word[i].readers
        /\ word'[i].state = "Closed"
    BY <2>1 DEF close_leased, Word
  <2>4. waiter'[i].at = "gone" /\ waiter'[i].gen = waiter[i].gen BY <2>2 DEF Waiter
  <2> QED BY <2>3, <2>4
<1> HIDE DEF lost
<1>6. \A i \in Slot : word'[i].gen = word[i].gen /\ word'[i].readers = word[i].readers
  BY <1>4, <1>5
<1>7. SeenIds' = SeenIds /\ Quarantined' = Quarantined /\ \A j \in Slot : IdOf(j)' = IdOf(j)
  BY <1>1, <1>6 DEF SeenIds, Quarantined, IdOf
<1>8. HandedInv' BY <1>1, <1>7, HandedFrame DEF SlotInv
<1>9. PostingInv' BY <1>1 DEF SlotInv, PostingInv
<1>10. PinInv' BY <1>1, <1>6, <1>7, PinFrame, SlotFacts DEF SlotInv
<1>11. GenInv' BY <1>1, <1>2, <1>4, <1>5 DEF SlotInv, GenInv
<1>12. StateInv' BY <1>4, <1>5 DEF SlotInv, StateInv
<1>13. ListInv' BY <1>1, <1>2, <1>4, <1>5, <1>7 DEF SlotInv, ListInv
<1>14. PayloadInv' BY <1>1, <1>2, <1>4, <1>5, <1>6, <1>7, ListNat DEF SlotInv, PayloadInv
<1>15. WaiterInv' BY <1>1, <1>2, <1>4, <1>5, <1>7 DEF SlotInv, WaiterInv, StatesOf
<1>16. LateInv' BY <1>1, <1>2, <1>4, <1>5, IdNat DEF SlotInv, LateInv
<1>17. SeenInv' BY <1>1, <1>4, <1>5, IdNat DEF SlotInv, SeenInv, HostStates
<1>18. ReadyInv' BY <1>1, <1>2, <1>4, <1>5, IdNat DEF SlotInv, ReadyInv
<1> QED BY <1>8, <1>9, <1>10, <1>11, <1>12, <1>13, <1>14, <1>15, <1>16, <1>17, <1>18 DEF SlotInv

(* lose_target fails the futures of queued jobs; a stale job is refused.   *)
LEMMA SlotLoseJob == ASSUME TypeInv, SlotInv, LoseJob PROVE SlotInv'
<1> DEFINE job == Head(ready)
           i == job.slot
<1>1. /\ wpc \in {"lose_jobs", "gone_jobs"} /\ ready # <<>> /\ ready' = Tail(ready)
      /\ UNCHANGED <<lease_epoch, payload, free, requests, posting, wpc, published, seen, pins,
                     call, inbox>>
  BY DEF LoseJob, intakeVars, turnVars, targetVars, threadVars
<1>2. /\ 1 \in 1..Len(ready) /\ job = ready[1] /\ job \in Id /\ i \in Slot
      /\ Len(ready') = Len(ready) - 1
      /\ \A k \in 1..Len(ready') : k + 1 \in 1..Len(ready) /\ ready'[k] = ready[k + 1]
  <2>1. ready \in Seq(Id) BY SlotFacts
  <2>2. /\ Len(ready) \in Nat \ {0} /\ job = ready[1] /\ job \in Id
        /\ Len(ready') = Len(ready) - 1
        /\ \A k \in 1..Len(ready') : ready'[k] = ready[k + 1]
    BY <1>1, <2>1, HeadTailProperties
  <2> QED BY <2>2, IdNat
<1>3. \A k \in 1..Len(ready') : ready'[k] # job /\ ready'[k] \in Id
  <2>1. \A k \in 1..Len(ready') : k \in Nat /\ k + 1 # 1 BY <1>2, IdNat
  <2> QED BY <1>2, <2>1, IdNat DEF SlotInv, ReadyInv
<1>4. \A k, m \in 1..Len(ready') : ready'[m] = ready'[k] => m = k
  <2>1. \A k, m \in 1..Len(ready') : ready'[m] = ready'[k] => m + 1 = k + 1
    BY <1>2 DEF SlotInv, ReadyInv
  <2> QED BY <1>2, <2>1, IdNat
<1>5. \A k \in 1..Len(ready') :
        /\ ready'[k].slot \in Slot /\ ready'[k].gen <= word[ready'[k].slot].gen
        /\ ready'[k].gen = word[ready'[k].slot].gen =>
             word[ready'[k].slot].state = "WorkerOwned" /\ waiter[ready'[k].slot].at = "waiting"
  <2> HIDE DEF job, i
  <2>1. \A k \in 1..Len(ready) :
          /\ ready[k].slot \in Slot /\ ready[k].gen <= word[ready[k].slot].gen
          /\ ready[k].gen = word[ready[k].slot].gen =>
               word[ready[k].slot].state = "WorkerOwned" /\ waiter[ready[k].slot].at = "waiting"
    BY IdNat DEF SlotInv, ReadyInv
  <2> QED BY <1>2, <2>1
<1>6. SeenIds' = SeenIds BY <1>1 DEF SeenIds
<1>7. HandedInv' BY <1>1, <1>6, HandedFrame DEF SlotInv
<1>8. PostingInv' BY <1>1 DEF SlotInv, PostingInv
<1>9. UNCHANGED <<word, quarantine, late>>
  <2>1. CASE Waiting(job) BY <2>1 DEF LoseJob
  <2>2. CASE ~Waiting(job)
    <3>1. RetireOrDefer(LeaseClosed(job), job) BY <2>2 DEF LoseJob
    <3>2. job.gen # word[i].gen
      BY <1>2, <2>2 DEF Waiting, SlotInv, ReadyInv, WaiterInv
    <3> QED BY <1>2, <3>1, <3>2, StaleRefused
  <2> QED BY <2>1, <2>2
<1>10. Quarantined' = Quarantined /\ \A j \in Slot : IdOf(j)' = IdOf(j)
  BY <1>9 DEF Quarantined, IdOf
<1>11. GenInv' /\ StateInv' /\ ListInv' /\ PayloadInv' /\ SeenInv'
  BY <1>1, <1>9, <1>10 DEF SlotInv, GenInv, StateInv, ListInv, PayloadInv, SeenInv
<1>12. PinInv' BY <1>1, <1>6, <1>9, PinFrame, SlotFacts DEF SlotInv
<1>13. WaiterInv' /\ LateInv' /\ ReadyInv'
  <2>1. CASE Waiting(job)
    <3>1. waiter' = [waiter EXCEPT ![i].at = "gone"] BY <2>1 DEF LoseJob
    <3>2. waiter[i].at = "waiting" /\ waiter[i].gen = job.gen BY <2>1 DEF Waiting
    <3>3. word[i].gen = job.gen BY <1>2, <3>2 DEF SlotInv, WaiterInv
    <3>4. word[i].state = "WorkerOwned"
      <4>1. ready[1].slot = i /\ ready[1].gen = job.gen BY <1>2
      <4> QED BY <1>2, <3>3, <4>1 DEF SlotInv, ReadyInv
    <3>5. /\ waiter'[i].at = "gone" /\ waiter'[i].gen = job.gen
          /\ \A j \in Slot : j # i => waiter'[j] = waiter[j]
      BY <1>2, <3>1, <3>2, SlotFacts, SlotNat DEF Waiter
    <3>6. job.slot = i OBVIOUS
    <3> HIDE DEF job, i
    <3>7. WaiterInv' BY <1>9, <1>10, <3>2, <3>3, <3>4, <3>5 DEF SlotInv, WaiterInv, StatesOf
    <3>8. LateInv' BY <1>9, <3>2, <3>5, IdNat DEF SlotInv, LateInv
    <3>9. \A k \in 1..Len(ready') : ready'[k].slot = i => ready'[k].gen # word[i].gen
      BY <1>2, <1>3, <3>3, <3>6, IdEqual
    <3>10. ReadyInv' BY <1>4, <1>5, <1>9, <3>5, <3>9 DEF ReadyInv
    <3> QED BY <3>7, <3>8, <3>10
  <2>2. CASE ~Waiting(job)
    <3>1. waiter' = waiter BY <2>2 DEF LoseJob
    <3> HIDE DEF job, i
    <3>2. WaiterInv' /\ LateInv' BY <1>9, <1>10, <3>1 DEF SlotInv, WaiterInv, LateInv
    <3>3. ReadyInv' BY <1>4, <1>5, <1>9, <3>1 DEF ReadyInv
    <3> QED BY <3>2, <3>3
  <2> QED BY <2>1, <2>2
<1> QED BY <1>7, <1>8, <1>11, <1>12, <1>13 DEF SlotInv

(* The import of a response, up to the retirement of its slot.             *)
LEMMA SlotImport ==
  ASSUME TypeInv, EpochInv, SlotInv, NEW i \in Slot, ImportBegin(i) \/ ImportTake(i)
  PROVE  SlotInv'
<1>1. CASE ImportBegin(i) /\ GuardRetire(i)
  BY <1>1, SlotGuardRetire DEF ImportBegin
<1>2. CASE ImportTake(i) \/ (ImportBegin(i) /\ ~GuardRetire(i))
  <2>1. /\ wpc = "idle"
        /\ UNCHANGED <<lease_epoch, payload, free, quarantine, requests, ready, posting, late,
                       seen, pins, call, inbox>>
    BY <1>2 DEF ImportTake, ImportBegin, GuardFrame, intakeVars, targetVars, threadVars, allocVars
  <2>2. waiter[i].at \in {"sealed", "importing"} /\ waiter[i].gen = word[i].gen
    BY <1>2 DEF ImportTake, ImportBegin, SlotInv, WaiterInv
  <2>3. /\ word'[i].gen = word[i].gen /\ word'[i].readers = word[i].readers
        /\ word'[i].state = "Completing" /\ word'[i].cancel = word[i].cancel
        /\ word[i].state \in {"Leased", "Completing"}
        /\ waiter'[i].gen = waiter[i].gen /\ waiter'[i].at \in {"importing", "taken"}
        /\ \A j \in Slot : j # i => word'[j] = word[j] /\ waiter'[j] = waiter[j]
    <3>1. CASE ImportTake(i)
      <4>1. word[i].state = "Completing" BY <3>1 DEF ImportTake, SlotInv, WaiterInv, StatesOf
      <4>2. word' = word /\ waiter' = [waiter EXCEPT ![i].at = "taken"] BY <3>1 DEF ImportTake
      <4>3. /\ waiter'[i].gen = waiter[i].gen /\ waiter'[i].at = "taken"
            /\ \A j \in Slot : j # i => waiter'[j] = waiter[j]
        BY <4>2, SlotFacts, SlotNat DEF Waiter
      <4> QED BY <4>1, <4>2, <4>3
    <3>2. CASE ImportBegin(i) /\ ~GuardRetire(i)
      <4>1. /\ word' = [word EXCEPT ![i] = begin_import(@)]
            /\ waiter' = [waiter EXCEPT ![i].at = "importing"]
            /\ word[i].state = "Leased"
        BY <3>2 DEF ImportBegin, CanBeginImport, check
      <4>2. /\ waiter'[i].gen = waiter[i].gen /\ waiter'[i].at = "importing"
            /\ \A j \in Slot : j # i => waiter'[j] = waiter[j]
        BY <4>1, SlotFacts, SlotNat DEF Waiter
      <4>3. /\ word'[i].gen = word[i].gen /\ word'[i].readers = word[i].readers
            /\ word'[i].state = "Completing" /\ word'[i].cancel = word[i].cancel
            /\ \A j \in Slot : j # i => word'[j] = word[j]
        BY <4>1, SlotFacts, WordNat DEF begin_import, with_state, Word
      <4> QED BY <4>1, <4>2, <4>3
    <3> QED BY <1>2, <3>1, <3>2
  <2>4. \A j \in Slot : word'[j].gen = word[j].gen /\ word'[j].readers = word[j].readers
    BY <2>3
  <2>5. SeenIds' = SeenIds /\ Quarantined' = Quarantined /\ \A j \in Slot : IdOf(j)' = IdOf(j)
    BY <2>1, <2>4 DEF SeenIds, Quarantined, IdOf
  <2>6. HandedInv' BY <2>1, <2>5, HandedFrame DEF SlotInv
  <2>7. PostingInv' BY <2>1 DEF SlotInv, PostingInv
  <2>8. PinInv' BY <2>1, <2>4, <2>5, PinFrame, SlotFacts DEF SlotInv
  <2>9. GenInv' BY <2>1, <2>3 DEF SlotInv, GenInv
  <2>10. StateInv' BY <2>3 DEF SlotInv, StateInv
  <2>11. ListInv' BY <2>1, <2>3, <2>5 DEF SlotInv, ListInv
  <2>12. PayloadInv' BY <2>1, <2>3, <2>5, ListNat DEF SlotInv, PayloadInv
  <2>13. WaiterInv' BY <2>1, <2>2, <2>3, <2>5 DEF SlotInv, WaiterInv, StatesOf
  <2>14. LateInv' BY <2>1, <2>2, <2>3, IdNat DEF SlotInv, LateInv
  <2>15. SeenInv' BY <2>1, <2>3, IdNat DEF SlotInv, SeenInv, HostStates
  <2>16. ReadyInv' BY <2>1, <2>3, IdNat DEF SlotInv, ReadyInv
  <2> QED BY <2>6, <2>7, <2>8, <2>9, <2>10, <2>11, <2>12, <2>13, <2>14, <2>15, <2>16 DEF SlotInv
<1> QED BY <1>1, <1>2

(* A completed id is one a host held, so the slot of a future it wakes is  *)
(* leased.                                                                 *)
LEMMA SlotDrain == ASSUME TypeInv, SlotInv, Drain PROVE SlotInv'
<1>1. /\ wpc = "idle" /\ inbox'.completed = {}
      /\ UNCHANGED <<word, lease_epoch, payload, free, quarantine, requests, ready, posting, late,
                     seen, pins, call>>
  BY DEF Drain, arenaVars, targetVars, threadVars, allocVars
<1>w. waiter' = [i \in Slot |->
           IF Waiting([slot |-> i, gen |-> waiter[i].gen])
              /\ [slot |-> i, gen |-> waiter[i].gen] \in inbox.completed
           THEN [waiter[i] EXCEPT !.at = "sealed"] ELSE waiter[i]]
  BY DEF Drain
<1>2. ASSUME NEW i \in Slot
      PROVE  \/ waiter'[i] = waiter[i]
             \/ /\ waiter[i].at = "waiting" /\ word[i].state = "Leased"
                /\ waiter'[i].at = "sealed" /\ waiter'[i].gen = waiter[i].gen
  <2> DEFINE id == [slot |-> i, gen |-> waiter[i].gen]
  <2>1. CASE Waiting(id) /\ id \in inbox.completed
    <3>1. waiter'[i] = [waiter[i] EXCEPT !.at = "sealed"] BY <1>w, <2>1
    <3>2. waiter'[i].at = "sealed" /\ waiter'[i].gen = waiter[i].gen BY <3>1, SlotNat DEF Waiter
    <3>3. waiter[i].at = "waiting" BY <2>1 DEF Waiting
    <3>4. waiter[i].gen = word[i].gen /\ word[i].state \in {"WorkerOwned", "Leased"}
      BY <3>3 DEF SlotInv, WaiterInv, StatesOf
    <3>5. PICK s \in seen : s[1] = id BY <2>1 DEF SlotInv, HandedInv, SeenIds
    <3>6. word[i].state \in HostStates BY <3>4, <3>5 DEF SlotInv, SeenInv
    <3> QED BY <3>2, <3>3, <3>4, <3>6 DEF HostStates
  <2>2. CASE ~(Waiting(id) /\ id \in inbox.completed) BY <1>w, <2>2
  <2> QED BY <2>1, <2>2
<1>3. SeenIds' = SeenIds /\ Quarantined' = Quarantined /\ \A j \in Slot : IdOf(j)' = IdOf(j)
  BY <1>1 DEF SeenIds, Quarantined, IdOf
<1>4. HandedInv' BY <1>1, <1>3, HandedFrame DEF SlotInv
<1>5. PostingInv' BY <1>1 DEF SlotInv, PostingInv
<1>6. PinInv' BY <1>1, <1>3, PinFrame, SlotFacts DEF SlotInv
<1>7. GenInv' /\ StateInv' /\ ListInv' /\ PayloadInv' /\ SeenInv'
  BY <1>1, <1>3 DEF SlotInv, GenInv, StateInv, ListInv, PayloadInv, SeenInv
<1>8. WaiterInv' BY <1>1, <1>2, <1>3 DEF SlotInv, WaiterInv, StatesOf
<1>9. LateInv' BY <1>1, <1>2, IdNat DEF SlotInv, LateInv
<1>10. ReadyInv' BY <1>1, <1>2, IdNat DEF SlotInv, ReadyInv
<1> QED BY <1>4, <1>5, <1>6, <1>7, <1>8, <1>9, <1>10 DEF SlotInv

(* A pin is counted with the id, an unpin uncounted with it.               *)
LEMMA SlotPin ==
  ASSUME TypeInv, SlotInv, NEW t \in Thread, NEW id \in SeenIds, Pin(t, id) \/ Unpin(t, id)
  PROVE  SlotInv'
<1> DEFINE i == id.slot
           p == Pinners(id)
<1>1. id \in Id /\ i \in Slot BY IdNat DEF SeenIds
<1>2. UNCHANGED <<lease_epoch, payload, free, quarantine, requests, ready, posting, late, seen,
                  waiter, call, inbox, wpc, published>>
  BY DEF Pin, Unpin, threadFrame, intakeVars, targetVars, allocVars, queueVars, turnVars
<1>3. IsFiniteSet(p) BY SlotFacts, FS_Subset DEF Pinners
<1>4. id.gen = word[i].gen /\ id = IdOf(i) /\ word[i].readers = Cardinality(p)
  <2>1. id.gen = word[i].gen
    BY DEF Pin, Unpin, CanPin, check_lease, check, SlotInv, PinInv
  <2>2. id = IdOf(i) BY <1>1, <2>1, SlotNat, IdEqual
  <2> QED BY <1>1, <2>1, <2>2 DEF SlotInv, PinInv
<1>5. Cardinality(p) \in Nat BY <1>3, FS_CardinalityType
<1>6. word[i].state \in HostStates
  <2>1. PICK s \in seen : s[1] = id BY DEF SeenIds
  <2> QED BY <1>4, <2>1 DEF SlotInv, SeenInv
<1>7. /\ word'[i].gen = word[i].gen /\ word'[i].state = word[i].state
      /\ word'[i].cancel = word[i].cancel
      /\ \A j \in Slot : j # i => word'[j] = word[j]
      /\ word'[i].readers = Cardinality(Pinners(id)')
      /\ \A u \in Thread : \A x : x # id => (x \in pins'[u] <=> x \in pins[u])
  <2>1. CASE Pin(t, id)
    <3>1. /\ word' = [word EXCEPT ![i] = pin(@)] /\ id \notin pins[t]
          /\ pins' = [pins EXCEPT ![t] = @ \cup {id}]
      BY <2>1 DEF Pin
    <3>2. /\ word'[i].gen = word[i].gen /\ word'[i].state = word[i].state
          /\ word'[i].cancel = word[i].cancel /\ word'[i].readers = word[i].readers + 1
          /\ \A j \in Slot : j # i => word'[j] = word[j]
      BY <1>1, <3>1, SlotFacts, WordNat DEF pin, Word
    <3>3. Pinners(id)' = p \cup {t} /\ t \notin p BY <3>1, SlotFacts DEF Pinners
    <3>4. Cardinality(Pinners(id)') = Cardinality(p) + 1 BY <1>3, <3>3, FS_AddElement
    <3>5. \A u \in Thread : \A x : x # id => (x \in pins'[u] <=> x \in pins[u])
      BY <3>1, SlotFacts
    <3> HIDE DEF p, i
    <3> QED BY <1>4, <3>2, <3>4, <3>5
  <2>2. CASE Unpin(t, id)
    <3>1. id \in pins[t] /\ pins' = [pins EXCEPT ![t] = @ \ {id}] BY <2>2 DEF Unpin
    <3>2. t \in p BY <3>1 DEF Pinners
    <3>3. word[i].readers > 0
      <4>1. p # {} BY <3>2
      <4>2. Cardinality(p) # 0 BY <1>3, <4>1, FS_EmptySet
      <4> HIDE DEF p, i
      <4> QED BY <1>4, <1>5, <4>2
    <3>4. CanUnpin(word[i], id.gen) BY <1>4, <1>6, <3>3 DEF CanUnpin, HostStates
    <3>5. word' = [word EXCEPT ![i] = unpin(@)]
      <4>1. word' = [word EXCEPT ![i] = IF CanUnpin(@, id.gen) THEN unpin(@) ELSE @]
        BY <2>2 DEF Unpin
      <4> HIDE DEF p, i
      <4> QED BY <3>4, <4>1
    <3>6. /\ word'[i].gen = word[i].gen /\ word'[i].state = word[i].state
          /\ word'[i].cancel = word[i].cancel /\ word'[i].readers = word[i].readers - 1
          /\ \A j \in Slot : j # i => word'[j] = word[j]
      BY <1>1, <3>5, SlotFacts, WordNat DEF unpin, Word
    <3>7. Pinners(id)' = p \ {t} BY <3>1, SlotFacts DEF Pinners
    <3>8. Cardinality(Pinners(id)') = Cardinality(p) - 1 BY <1>3, <3>2, <3>7, FS_RemoveElement
    <3>9. \A u \in Thread : \A x : x # id => (x \in pins'[u] <=> x \in pins[u])
      BY <3>1, SlotFacts
    <3> HIDE DEF p, i
    <3> QED BY <1>4, <3>6, <3>8, <3>9
  <2> QED BY <2>1, <2>2
<1> HIDE DEF p, i
<1>8. SeenIds' = SeenIds /\ Quarantined' = Quarantined /\ \A j \in Slot : IdOf(j)' = IdOf(j)
  BY <1>2, <1>7 DEF SeenIds, Quarantined, IdOf
<1>9. HandedInv' BY <1>2, <1>8, HandedFrame DEF SlotInv
<1>10. \A j \in Slot : /\ word'[j].gen = word[j].gen /\ word'[j].state = word[j].state
                      /\ word'[j].cancel = word[j].cancel
  BY <1>7
<1>11. GenInv' /\ StateInv' /\ ListInv' BY <1>2, <1>8, <1>10 DEF SlotInv, GenInv, StateInv, ListInv
<1>12. PayloadInv' BY <1>2, <1>8, <1>10, ListNat DEF SlotInv, PayloadInv
<1>13. WaiterInv' /\ LateInv' BY <1>2, <1>8, <1>10, IdNat DEF SlotInv, WaiterInv, LateInv
<1>14. SeenInv' BY <1>2, <1>10, IdNat DEF SlotInv, SeenInv
<1>17. ReadyInv' BY <1>2, <1>10, IdNat DEF SlotInv, ReadyInv
<1>15. PostingInv'
  <2>1. Posted' = Posted BY <1>2 DEF Posted
  <2>2. ASSUME NEW k \in 1..Len(posting), NEW j \in Slot, j = posting[k].slot
        PROVE  /\ posting[k] \notin SeenIds' /\ posting[k].gen = word'[j].gen
               /\ word'[j].state = "Leased" /\ waiter'[j].at = "waiting"
               /\ lease_epoch'[j] = Posted' + 1
               /\ \A m \in 1..Len(posting) : posting[m] = posting[k] => m = k
    BY <1>2, <1>8, <1>10, <2>1, <2>2 DEF SlotInv, PostingInv
  <2>3. posting # <<>> => wpc \in {"fill", "offer"} BY DEF SlotInv, PostingInv
  <2>4. posting' = posting /\ wpc' = wpc BY <1>2
  <2>5. \A k \in 1..Len(posting) : posting[k].slot \in Slot BY IdNat
  <2> QED BY <2>2, <2>3, <2>4, <2>5 DEF PostingInv
<1>16. PinInv'
  <2>1. \A u \in Thread : \A x \in pins'[u] : x \in SeenIds /\ x.gen = word'[x.slot].gen
    <3>1. \A u \in Thread : \A x \in pins'[u] : x = id \/ x \in pins[u] BY <1>7
    <3>2. id.gen = word'[id.slot].gen BY <1>4, <1>7 DEF i
    <3>3. \A u \in Thread : \A x \in pins[u] : x \in SeenIds /\ x.gen = word'[x.slot].gen
      BY <1>10, IdNat DEF SlotInv, PinInv
    <3> QED BY <3>1, <3>2, <3>3
  <2>2. ASSUME NEW j \in Slot PROVE word'[j].readers = Cardinality(Pinners(IdOf(j))')
    <3>1. CASE j = i BY <1>4, <1>7, <1>8, <3>1 DEF Pinners
    <3>2. CASE j # i
      <4>1. IdOf(j) # id BY <1>4, <3>2, SlotNat, <1>1
      <4>2. Pinners(IdOf(j))' = Pinners(IdOf(j)) BY <1>7, <1>8, <4>1 DEF Pinners
      <4> QED BY <1>7, <3>2, <4>2 DEF SlotInv, PinInv
    <3> QED BY <3>1, <3>2
  <2> QED BY <1>8, <2>1, <2>2 DEF PinInv
<1> QED BY <1>9, <1>11, <1>12, <1>13, <1>14, <1>15, <1>16, <1>17 DEF SlotInv

-----------------------------------------------------------------------------
(* The calls of host threads, as one table of their steps.                 *)

(* The steps of a call in progress.                                        *)
CallSteps(t) ==
  \/ LoadBound(t) \/ LoadDetaching(t) \/ LoadEpoch(t) \/ LoadAcked(t)
  \/ ReadView(t) \/ Snapshot(t) \/ Recheck(t)
  \/ Lock(t) \/ Locked(t) \/ Inside(t)
  \/ CompleteCheck(t) \/ CompleteApply(t)

(* A call goes from one step to the next, keeping all but what the step    *)
(* loads.                                                                  *)
Moves(t, from, to) == call[t].at = from /\ call'[t].at = to
KeepsRule(t) == call'[t].era = call[t].era /\ call'[t].epoch = call[t].epoch
CallMove(t) ==
  /\ call'[t].op = call[t].op /\ call'[t].id = call[t].id
  /\ \/ /\ Moves(t, "bound", "detaching") /\ bound = t
        /\ call'[t].era = era /\ call'[t].epoch = call[t].epoch
     \/ Moves(t, "detaching", "epoch") /\ KeepsRule(t) /\ ~detaching
     \/ /\ Moves(t, "epoch", "acked")
        /\ call'[t].era = call[t].era /\ call'[t].epoch = lease_epoch[call[t].id.slot]
     \/ /\ Moves(t, "acked", "read_view") \/ Moves(t, "acked", "lock")
        /\ KeepsRule(t) /\ call[t].epoch > acked
     \/ Moves(t, "read_view", "snapshot") /\ KeepsRule(t)
     \/ Moves(t, "snapshot", "recheck") /\ KeepsRule(t) /\ call'[t].snap = payload[call[t].id.slot]
     \/ Moves(t, "lock", "locked") /\ KeepsRule(t) /\ Lock(t)
     \/ Moves(t, "locked", "inside") /\ KeepsRule(t) /\ Locked(t)
     \/ (Moves(t, "check", "apply") \/ Moves(t, "check", "apply_id")) /\ KeepsRule(t)

(* What Goto and Return do to the calls.                                   *)
LEMMA GotoFacts ==
  ASSUME TypeInv, NEW t \in Thread, NEW step, Goto(t, step)
  PROVE  /\ call'[t].at = step /\ KeepsRule(t)
         /\ call'[t].op = call[t].op /\ call'[t].id = call[t].id /\ call'[t].snap = call[t].snap
         /\ \A u \in Thread : u # t => call'[u] = call[u]
<1>1. call \in [Thread -> Call] /\ call[t] \in Call BY SlotFacts
<1>2. call' = [call EXCEPT ![t] = [call[t] EXCEPT !.at = step]] BY DEF Goto
<1> QED BY <1>1, <1>2 DEF KeepsRule, Call

(* A call that returns leaves the calls of other threads alone.            *)
LEMMA ReturnFacts ==
  ASSUME TypeInv, NEW t \in Thread, Return(t)
  PROVE  call'[t] = NoCall /\ \A u \in Thread : u # t => call'[u] = call[u]
BY SlotFacts DEF Return

(* Every step of a call in progress is one of the table, or its end.       *)
LEMMA CallTable ==
  ASSUME TypeInv, NEW t \in Thread, CallSteps(t)
  PROVE  /\ call[t].op # "none" /\ \A u \in Thread : u # t => call'[u] = call[u]
         /\ call'[t] = NoCall \/ CallMove(t)
<1>1. call \in [Thread -> Call] /\ call[t] \in Call BY SlotFacts
<1>2. CASE LoadBound(t)
  <2>1. At(t, "bound") BY <1>2 DEF LoadBound
  <2>2. CASE bound = t
    <3>1. call' = [call EXCEPT ![t] = [call[t] EXCEPT !.at = "detaching", !.era = era]]
      BY <1>2, <2>2 DEF LoadBound
    <3> QED BY <1>1, <2>1, <2>2, <3>1 DEF At, Moves, CallMove, Call
  <2>3. CASE bound # t BY <1>2, <2>1, <2>3, ReturnFacts DEF LoadBound, At
  <2> QED BY <2>2, <2>3
<1>3. CASE LoadDetaching(t)
  <2>1. At(t, "detaching") BY <1>3 DEF LoadDetaching
  <2>2. CASE detaching BY <1>3, <2>1, <2>2, ReturnFacts DEF LoadDetaching, At
  <2>3. CASE ~detaching
    <3>1. Goto(t, "epoch") BY <1>3, <2>3 DEF LoadDetaching
    <3> QED BY <2>1, <2>3, <3>1, GotoFacts DEF At, Moves, CallMove
  <2> QED BY <2>2, <2>3
<1>4. CASE LoadEpoch(t)
  <2>1. /\ At(t, "epoch")
        /\ call' = [call EXCEPT ![t] = [call[t] EXCEPT !.at = "acked",
                                                      !.epoch = lease_epoch[call[t].id.slot]]]
    BY <1>4 DEF LoadEpoch, CallSlot
  <2> QED BY <1>1, <2>1 DEF At, Moves, CallMove, Call
<1>5. CASE LoadAcked(t)
  <2>1. At(t, "acked") BY <1>5 DEF LoadAcked
  <2>2. CASE ~(call[t].epoch > acked) BY <1>5, <2>1, <2>2, ReturnFacts DEF LoadAcked, At
  <2>3. CASE call[t].epoch > acked
    <3>1. Goto(t, "read_view") \/ Goto(t, "lock") BY <1>5, <2>3 DEF LoadAcked
    <3> QED BY <2>1, <2>3, <3>1, GotoFacts DEF At, Moves, CallMove
  <2> QED BY <2>2, <2>3
<1>6. CASE ReadView(t)
  <2>1. At(t, "read_view") BY <1>6 DEF ReadView
  <2>2. CASE Return(t) BY <2>1, <2>2, ReturnFacts DEF At
  <2>3. CASE Goto(t, "snapshot") BY <2>1, <2>3, GotoFacts DEF At, Moves, CallMove
  <2> QED BY <1>6, <2>2, <2>3 DEF ReadView
<1>7. CASE Snapshot(t)
  <2>1. /\ At(t, "snapshot")
        /\ call' = [call EXCEPT ![t] = [call[t] EXCEPT !.at = "recheck",
                                                      !.snap = payload[call[t].id.slot]]]
    BY <1>7 DEF Snapshot, CallSlot
  <2> QED BY <1>1, <2>1 DEF At, Moves, CallMove, KeepsRule, Call
<1>8. CASE Recheck(t) \/ Inside(t) \/ CompleteApply(t)
  <2>1. call[t].op # "none" /\ Return(t) BY <1>8 DEF Recheck, Inside, CompleteApply, At
  <2> QED BY <2>1, ReturnFacts
<1>9. CASE Lock(t)
  <2>1. At(t, "lock") BY <1>9 DEF Lock
  <2>2. CASE Return(t) BY <2>1, <2>2, ReturnFacts DEF At
  <2>3. CASE Goto(t, "locked") BY <1>9, <2>1, <2>3, GotoFacts DEF At, Moves, CallMove
  <2> QED BY <1>9, <2>2, <2>3 DEF Lock
<1>10. CASE Locked(t)
  <2>1. At(t, "locked") BY <1>10 DEF Locked
  <2>2. CASE Return(t) BY <2>1, <2>2, ReturnFacts DEF At
  <2>3. CASE Goto(t, "inside") BY <1>10, <2>1, <2>3, GotoFacts DEF At, Moves, CallMove
  <2> QED BY <1>10, <2>2, <2>3 DEF Locked
<1>11. CASE CompleteCheck(t)
  <2>1. At(t, "check") /\ (Goto(t, "apply") \/ Goto(t, "apply_id")) BY <1>11 DEF CompleteCheck
  <2> QED BY <2>1, GotoFacts DEF At, Moves, CallMove
<1> QED BY <1>2, <1>3, <1>4, <1>5, <1>6, <1>7, <1>8, <1>9, <1>10, <1>11 DEF CallSteps

(* The begin of a call, on an id the host holds.                           *)
Begins(t) ==
  \/ \E id \in SeenIds : \E op \in CallOps \ {"complete"} : Begin(t, id, op)
  \/ \E id \in SeenIds : \E e \in {0} \cup (acked + 1)..delivered : CompleteBegin(t, id, e)

(* What the steps of hosts are, and what all of them leave alone.          *)
LEMMA HostCases ==
  ASSUME TypeInv, Host
  PROVE  \E t \in Thread : \/ Bind(t) \/ Begins(t) \/ CallSteps(t)
                          \/ \E id \in SeenIds : Pin(t, id) \/ Unpin(t, id)
<1>1. PICK t \in Thread :
        \/ Bind(t)
        \/ \E id \in SeenIds :
             \/ Pin(t, id) \/ Unpin(t, id)
             \/ \E op \in CallOps \ {"complete"} : Begin(t, id, op)
             \/ \E e \in {0} \cup (acked + 1)..delivered : CompleteBegin(t, id, e)
        \/ LoadBound(t) \/ LoadDetaching(t) \/ LoadEpoch(t) \/ LoadAcked(t)
        \/ ReadView(t) \/ Snapshot(t) \/ Recheck(t)
        \/ Lock(t) \/ Locked(t) \/ Inside(t)
        \/ CompleteCheck(t) \/ CompleteApply(t)
  BY DEF Host
<1> QED BY <1>1 DEF Begins, CallSteps

(* A call begins with an id a host holds; no other call moves.             *)
LEMMA BeginFacts ==
  ASSUME TypeInv, NEW t \in Thread, Begins(t)
  PROVE  /\ call[t].op = "none" /\ \A u \in Thread : u # t => call'[u] = call[u]
         /\ call'[t].id \in SeenIds /\ call'[t].era = 0 /\ callFrame /\ UNCHANGED views
<1>1. call \in [Thread -> Call] BY SlotFacts
<1>2. ASSUME NEW id \in SeenIds, NEW op \in CallOps \ {"complete"}, Begin(t, id, op)
      PROVE  /\ call[t].op = "none" /\ \A u \in Thread : u # t => call'[u] = call[u]
             /\ call'[t].id = id /\ call'[t].era = 0 /\ callFrame /\ UNCHANGED views
  BY <1>1, <1>2 DEF Begin, Idle
<1>3. ASSUME NEW id \in SeenIds, NEW e \in {0} \cup (acked + 1)..delivered, CompleteBegin(t, id, e)
      PROVE  /\ call[t].op = "none" /\ \A u \in Thread : u # t => call'[u] = call[u]
             /\ call'[t].id = id /\ call'[t].era = 0 /\ callFrame /\ UNCHANGED views
  BY <1>1, <1>3 DEF CompleteBegin, Idle
<1> QED BY <1>2, <1>3 DEF Begins

(* What calls leave alone.                                                 *)
LEMMA CallFrame ==
  ASSUME NEW t \in Thread, Bind(t) \/ callFrame \/ CallSteps(t)
  PROVE  UNCHANGED <<word, lease_epoch, payload, published, allocVars, queueVars, turnVars,
                     targetVars, pins>>
BY DEF Bind, CallSteps, LoadBound, LoadDetaching, LoadEpoch, LoadAcked, ReadView, Snapshot,
       Recheck, Lock, Locked, Inside, CompleteCheck, CompleteApply, callFrame, threadFrame,
       arenaVars, intakeVars, threadVars

(* A step that leaves the slots alone.                                     *)
LEMMA SlotSame ==
  ASSUME TypeInv, SlotInv, HandedInv', PostingInv',
         UNCHANGED <<word, lease_epoch, payload, free, quarantine, requests, ready, late, waiter,
                     seen, pins>>
  PROVE  SlotInv'
<1>1. SeenIds' = SeenIds /\ Quarantined' = Quarantined /\ \A j \in Slot : IdOf(j)' = IdOf(j)
  BY DEF SeenIds, Quarantined, IdOf
<1>2. GenInv' /\ StateInv' /\ ListInv' /\ PayloadInv' /\ WaiterInv' /\ LateInv' /\ SeenInv' /\ ReadyInv'
  BY <1>1
  DEF SlotInv, GenInv, StateInv, ListInv, PayloadInv, WaiterInv, LateInv, SeenInv, ReadyInv
<1>3. PinInv' BY <1>1, PinFrame, SlotFacts DEF SlotInv
<1> QED BY <1>2, <1>3 DEF SlotInv

(* The steps of hosts keep the slots.                                      *)
LEMMA SlotHost == ASSUME TypeInv, SlotInv, Host PROVE SlotInv'
<1>1. PICK t \in Thread : \/ Bind(t) \/ Begins(t) \/ CallSteps(t)
                         \/ \E id \in SeenIds : Pin(t, id) \/ Unpin(t, id)
  BY HostCases
<1>2. CASE \E id \in SeenIds : Pin(t, id) \/ Unpin(t, id) BY <1>2, SlotPin
<1>3. CASE Bind(t) \/ Begins(t) \/ CallSteps(t)
  <2>1. UNCHANGED <<word, lease_epoch, payload, free, quarantine, requests, ready, posting, late,
                    waiter, seen, pins, wpc, published>>
    BY <1>3, BeginFacts, CallFrame DEF allocVars, queueVars, turnVars, targetVars
  <2>2. SeenIds' = SeenIds /\ Posted' = Posted BY <2>1 DEF SeenIds, Posted
  <2>3. PostingInv' BY <2>1, <2>2 DEF SlotInv, PostingInv
  <2>4. HandedInv'
    <3>1. CASE Bind(t) BY <3>1, <2>2, HandedFrame DEF Bind, threadVars, SlotInv
    <3>2. CASE Begins(t)
      <4>1. inbox' = inbox BY <3>2, BeginFacts DEF callFrame, intakeVars
      <4> QED BY <2>2, <3>2, <4>1, BeginFacts DEF SlotInv, HandedInv
    <3>3. CASE CallSteps(t)
      <4>1. inbox'.completed \subseteq inbox.completed \cup {call[t].id}
        <5>1. CASE CompleteApply(t)
          <6>1. inbox \in [completed: SUBSET Id, attach: {NoTarget} \cup Era, detach: BOOLEAN]
            BY DEF TypeInv, TypeOK, IntakeOK
          <6> QED BY <5>1, <6>1 DEF CompleteApply
        <5>2. CASE ~CompleteApply(t)
          BY <3>3, <5>2 DEF CallSteps, LoadBound, LoadDetaching, LoadEpoch, LoadAcked, ReadView,
             Snapshot, Recheck, Lock, Locked, Inside, CompleteCheck, callFrame, intakeVars
        <5> QED BY <5>1, <5>2
      <4>2. call[t].op # "none" /\ \A u \in Thread : u # t => call'[u] = call[u] BY <3>3, CallTable
      <4>3. call'[t].op = "none" \/ call'[t].id = call[t].id
        BY <3>3, CallTable DEF CallMove, NoCall
      <4> QED BY <2>2, <4>1, <4>2, <4>3 DEF SlotInv, HandedInv
    <3> QED BY <1>3, <3>1, <3>2, <3>3
  <2> QED BY <2>1, <2>3, <2>4, SlotSame
<1> QED BY <1>1, <1>2, <1>3

(* The steps of the worker and of targets keep the slots.                  *)
LEMMA SlotWorker ==
  ASSUME TypeInv, EpochInv, SlotInv, Future \/ Turn \/ Attach \/ TargetStops \/ Detach
  PROVE  SlotInv'
<1>1. CASE Future
  <2>1. PICK i \in Slot : \/ Allocate(i) \/ FutureGone(i) \/ DropFuture(i)
                          \/ ImportBegin(i) \/ ImportTake(i) \/ ImportRetire(i)
    BY <1>1 DEF Future
  <2>2. CASE FutureGone(i) \/ DropFuture(i) \/ ImportRetire(i)
    BY <2>2, SlotGuardRetire DEF FutureGone, DropFuture, ImportRetire
  <2> QED BY <2>1, <2>2, SlotAlloc, SlotImport
<1>2. CASE Turn
  <2>1. CASE AllocateExhausted \/ SettleDetached \/ SettleGone \/ LoadFloor \/ PostNext \/ PostEvents
             \/ FillEmpty
    <3>1. /\ UNCHANGED <<word, lease_epoch, payload, free, quarantine, requests, ready, posting,
                         late, waiter, seen, pins, call, inbox>>
          /\ wpc \notin {"fill", "offer"} \/ posting = <<>>
      BY <2>1 DEF AllocateExhausted, SettleDetached, SettleGone, LoadFloor, PostNext, PostEvents,
         FillEmpty, arenaVars, allocVars, queueVars, targetVars, threadVars, intakeVars
    <3>2. posting' = <<>> BY <3>1 DEF SlotInv, PostingInv
    <3>3. PostingInv' BY <3>2 DEF PostingInv
    <3>4. HandedInv' BY <3>1, HandedFrame DEF SlotInv, SeenIds
    <3> QED BY <3>1, <3>3, <3>4, SlotSame
  <2>2. CASE Publish
    <3>1. /\ UNCHANGED <<word, lease_epoch, payload, free, quarantine, requests, ready, posting,
                         late, waiter, seen, pins, call, inbox>>
          /\ wpc = "fill" /\ wpc' = "offer" /\ published' = published + 1
      BY <2>2 DEF Publish, arenaVars, allocVars, queueVars, targetVars, threadVars
    <3>2. Posted' = Posted /\ SeenIds' = SeenIds BY <3>1, EpochNat DEF Posted, SeenIds
    <3>3. PostingInv' BY <3>1, <3>2 DEF SlotInv, PostingInv
    <3>4. HandedInv' BY <3>1, <3>2, HandedFrame DEF SlotInv
    <3> QED BY <3>1, <3>3, <3>4, SlotSame
  <2>3. CASE \E id \in late : LateRetire(id) BY <2>3, SlotLateRetire
  <2> QED BY <1>2, <2>1, <2>2, <2>3, SlotAlloc, SlotDrain, SlotLose, SlotLoseJob, SlotFill,
             SlotTaken, SlotRefused DEF Turn
<1>3. CASE Attach \/ TargetStops \/ Detach
  <2>1. /\ UNCHANGED <<word, lease_epoch, payload, free, quarantine, requests, ready, posting,
                       late, waiter, seen, pins, call, wpc, published>>
        /\ inbox'.completed = inbox.completed
    <3>1. inbox \in [completed: SUBSET Id, attach: {NoTarget} \cup Era, detach: BOOLEAN]
      BY DEF TypeInv, TypeOK, IntakeOK
    <3>2. inbox'.completed = inbox.completed
      BY <1>3, <3>1 DEF Attach, TargetStops, Detach, intakeVars
    <3> QED BY <1>3, <3>2 DEF Attach, TargetStops, Detach, threadFrame, arenaVars, allocVars,
               queueVars, targetVars, threadVars, intakeVars, turnVars
  <2>2. Posted' = Posted /\ SeenIds' = SeenIds BY <2>1 DEF Posted, SeenIds
  <2>3. PostingInv' BY <2>1, <2>2 DEF SlotInv, PostingInv
  <2>4. HandedInv' BY <2>1, <2>2, HandedFrame DEF SlotInv
  <2> QED BY <2>1, <2>3, <2>4, SlotSame
<1> QED BY <1>1, <1>2, <1>3

(* Every step keeps the slots.                                             *)
LEMMA SlotStep == TypeInv /\ EpochInv /\ SlotInv /\ [Next]_vars => SlotInv'
<1> SUFFICES ASSUME TypeInv, EpochInv, SlotInv, [Next]_vars PROVE SlotInv'
  OBVIOUS
<1>1. CASE UNCHANGED vars
  <2>1. Posted' = Posted /\ SeenIds' = SeenIds BY <1>1 DEF Posted, SeenIds, vars
  <2>2. PostingInv' BY <1>1, <2>1 DEF SlotInv, PostingInv, vars
  <2>3. HandedInv' BY <1>1, <2>1, HandedFrame DEF SlotInv, vars
  <2> QED BY <1>1, <2>2, <2>3, SlotSame DEF vars
<1>2. CASE Next BY <1>2, SlotWorker, SlotHost DEF Next
<1> QED BY <1>1, <1>2

(* The slots at the start.                                                 *)
LEMMA SlotInit == Init => SlotInv
<1> SUFFICES ASSUME Init PROVE SlotInv
  OBVIOUS
<1>1. GenInv /\ StateInv BY DEF Init, GenInv, StateInv, NewWord
<1>2. Quarantined = {} /\ SeenIds = {} BY DEF Init, Quarantined, SeenIds
<1>3. ListInv /\ PayloadInv /\ LateInv BY <1>2 DEF Init, ListInv, PayloadInv, LateInv, NewWord
<1>4. WaiterInv BY DEF Init, WaiterInv, NewWord, NoWaiter
<1>5. SeenInv /\ ReadyInv /\ PostingInv BY DEF Init, SeenInv, ReadyInv, PostingInv
<1>6. HandedInv BY DEF Init, HandedInv, NoCall
<1>7. PinInv
  <2>1. \A i \in Slot : Pinners(IdOf(i)) = {} BY DEF Init, Pinners
  <2> QED BY <2>1, FS_EmptySet DEF Init, PinInv, NewWord
<1> QED BY <1>1, <1>3, <1>4, <1>5, <1>6, <1>7 DEF SlotInv

-----------------------------------------------------------------------------
(* The quarantine and its stamps.                                          *)

(* A step appends to the quarantine, releases its front, or leaves it; and *)
(* only a batch taken adds to what hosts hold.                             *)
LEMMA QuarantineCases ==
  ASSUME TypeInv, Next
  PROVE  \/ quarantine' = quarantine /\ (seen' = seen \/ OfferTaken)
         \/ /\ seen' = seen
            /\ \E n \in 0..Len(quarantine) :
                 Releasable(n) /\ quarantine' = SubSeq(quarantine, n + 1, Len(quarantine))
         \/ /\ seen' = seen /\ wpc # "offer"
            /\ \E i \in Slot : quarantine' = Append(quarantine, <<i, Stamp>>)
<1>0. ASSUME NEW w, NEW id, id.slot \in Slot, RetireOrDefer(w, id)
      PROVE  quarantine' = quarantine
             \/ \E i \in Slot : quarantine' = Append(quarantine, <<i, Stamp>>)
  BY <1>0 DEF RetireOrDefer
<1>1. CASE Future
  <2>1. PICK i \in Slot : \/ Allocate(i) \/ FutureGone(i) \/ DropFuture(i)
                          \/ ImportBegin(i) \/ ImportTake(i) \/ ImportRetire(i)
    BY <1>1 DEF Future
  <2>2. wpc = "idle" /\ seen' = seen
    BY <2>1 DEF Allocate, FutureGone, DropFuture, ImportBegin, ImportTake, ImportRetire,
       GuardFrame, targetVars
  <2>3. GuardRetire(i) \/ quarantine' = quarantine
    BY <2>1 DEF Allocate, FutureGone, DropFuture, ImportBegin, ImportTake, ImportRetire, allocVars
  <2>4. GuardRetire(i) => \E w, id : id.slot \in Slot /\ RetireOrDefer(w, id)
    BY DEF GuardRetire
  <2> QED BY <1>0, <2>2, <2>3, <2>4
<1>2. CASE Turn
  <2>1. CASE ReleaseAndAllocate \/ Release
    BY <2>1 DEF ReleaseAndAllocate, Release, targetVars
  <2>2. CASE LoseJob \/ FillJob \/ \E id \in late : LateRetire(id)
    <3>1. wpc # "offer" /\ seen' = seen BY <2>2 DEF LoseJob, FillJob, LateRetire, targetVars
    <3>2. ready # <<>> => Head(ready).slot \in Slot
      BY SlotFacts, HeadTailProperties, IdNat
    <3>3. \A id \in late : id.slot \in Slot BY IdNat
    <3>4. quarantine' = quarantine \/ \E w, id : id.slot \in Slot /\ RetireOrDefer(w, id)
      <4>1. CASE LoseJob BY <3>2, <4>1 DEF LoseJob
      <4>2. CASE FillJob BY <3>2, <4>2 DEF FillJob
      <4>3. CASE \E id \in late : LateRetire(id) BY <3>3, <4>3 DEF LateRetire
      <4> QED BY <2>2, <4>1, <4>2, <4>3
    <3> QED BY <1>0, <3>1, <3>4
  <2>3. CASE ~(ReleaseAndAllocate \/ Release \/ LoseJob \/ FillJob \/ \E id \in late : LateRetire(id))
    BY <1>2, <2>3 DEF Turn, AllocateExhausted, Drain, LoseLeases, SettleDetached, SettleGone,
       LoadFloor, PostNext, PostEvents, FillEmpty, Publish, OfferTaken, OfferRefused, targetVars,
       allocVars
  <2> QED BY <2>1, <2>2, <2>3
<1>3. CASE Attach \/ TargetStops \/ Detach
  BY <1>3 DEF Attach, TargetStops, Detach, threadFrame, allocVars
<1>4. CASE Host
  <2>1. PICK t \in Thread : \/ Bind(t) \/ Begins(t) \/ CallSteps(t)
                           \/ \E id \in SeenIds : Pin(t, id) \/ Unpin(t, id)
    BY <1>4, HostCases
  <2>2. CASE \E id \in SeenIds : Pin(t, id) \/ Unpin(t, id)
    BY <2>2 DEF Pin, Unpin, threadFrame, allocVars, targetVars
  <2> QED BY <2>1, <2>2, BeginFacts, CallFrame DEF allocVars, targetVars
<1> QED BY <1>1, <1>2, <1>3, <1>4 DEF Next

(* A retirement is stamped past every stamp and every epoch delivered.     *)
LEMMA StampStep == TypeInv /\ EpochInv /\ SlotInv /\ StampInv /\ [Next]_vars => StampInv'
<1> SUFFICES ASSUME TypeInv, EpochInv, SlotInv, StampInv, [Next]_vars PROVE StampInv'
  OBVIOUS
<1>1. CASE quarantine' = quarantine /\ seen' = seen BY <1>1 DEF StampInv
<1>2. CASE OfferTaken
  <2>1. /\ quarantine' = quarantine
        /\ seen' = seen \cup {<<posting[k], published>> : k \in DOMAIN posting}
    BY <1>2 DEF OfferTaken, allocVars
  <2>2. DOMAIN posting = 1..Len(posting) BY SlotFacts
  <2>3. \A s \in seen' : s \in seen \/ \E k \in 1..Len(posting) : s[1] = posting[k]
    BY <2>1, <2>2
  <2>4. \A k \in 1..Len(posting) : word[posting[k].slot].state = "Leased"
    BY DEF SlotInv, PostingInv
  <2>5. \A k \in 1..Len(quarantine) : word[quarantine[k][1]].state = "Free"
    BY ListNat DEF SlotInv, ListInv, Quarantined
  <2> QED BY <2>1, <2>3, <2>4, <2>5 DEF StampInv
<1>3. ASSUME seen' = seen, NEW n \in 0..Len(quarantine),
             quarantine' = SubSeq(quarantine, n + 1, Len(quarantine))
      PROVE  StampInv'
  <2>1. \A k \in 1..Len(quarantine') :
          n + k \in 1..Len(quarantine) /\ quarantine'[k] = quarantine[n + k]
    BY <1>3, Releases
  <2>2. n \in Nat /\ Len(quarantine') \in Nat BY <1>3, ListNat, Releases
  <2>3. \A k \in 1..Len(quarantine') : \A m \in 1..k : m \in 1..Len(quarantine') /\ n + m \in 1..(n + k)
    BY <2>2
  <2> QED BY <1>3, <2>1, <2>3 DEF StampInv
<1>4. ASSUME seen' = seen, wpc # "offer", NEW i \in Slot, quarantine' = Append(quarantine, <<i, Stamp>>)
      PROVE  StampInv'
  <2>1. \A k \in 1..Len(quarantine) : quarantine[k][2] <= published
    BY <1>4 DEF EpochInv, Posted
  <2>2. \A s \in seen : s[2] <= published
    <3>1. \A s \in seen : s[2] <= delivered /\ s[2] \in Nat BY IdNat DEF EpochInv
    <3>2. delivered <= published BY <1>4 DEF EpochInv, Posted
    <3> QED BY <3>1, <3>2, EpochNat
  <2>3. published <= published BY EpochNat
  <2>4. \A k \in 1..Len(quarantine') : \A m \in 1..k : m \in 1..Len(quarantine')
        /\ (k \in 1..Len(quarantine) => m \in 1..Len(quarantine))
    BY <1>4, Quarantines, ListNat
  <2>5. \A m \in 1..Len(quarantine') : quarantine'[m][2] <= published
    BY <1>4, <2>1, <2>3, Quarantines
  <2>6. ASSUME NEW k \in 1..Len(quarantine')
        PROVE  /\ \A m \in 1..k : quarantine'[m][2] <= quarantine'[k][2]
               /\ \A s \in seen' : s[1].slot = quarantine'[k][1] => s[2] <= quarantine'[k][2]
    <3>1. CASE k \in 1..Len(quarantine)
      <4>1. quarantine'[k] = quarantine[k] /\ \A m \in 1..k : quarantine'[m] = quarantine[m]
        BY <1>4, <2>4, <3>1, Quarantines
      <4> QED BY <1>4, <3>1, <4>1 DEF StampInv
    <3>2. CASE k = Len(quarantine')
      <4>1. quarantine'[k][2] = published BY <1>4, <3>2, Quarantines
      <4> QED BY <1>4, <2>2, <2>4, <2>5, <4>1
    <3> QED BY <1>4, <3>1, <3>2, Quarantines
  <2> QED BY <2>6 DEF StampInv
<1> QED BY <1>1, <1>2, <1>3, <1>4, QuarantineCases DEF vars

(* The slots and their stamps hold in every reachable state.               *)
LEMMA SlotsHold == Spec => [](TypeInv /\ EpochInv /\ SlotInv /\ StampInv)
<1>1. Init => StampInv BY DEF Init, StampInv
<1> QED BY <1>1, InitTyped, StepTyped, EpochInit, EpochStep, SlotInit, SlotStep, StampStep, PTL
        DEF Spec

(* The index of a slot is on the free lists, in the quarantine once, or in *)
(* use (Allocator::retire, release, CoreHost::allocate); a slot in use is  *)
(* one its future or the late list will still retire; and the retire that  *)
(* fill_requests and lose_target try for a queued job nobody waits for is  *)
(* refused as stale: no index leaks and none is handed out twice, for      *)
(* every number of slots, threads, batches and targets.                    *)
THEOREM IndexesOnce == Spec => []IndexOnce
<1>1. ASSUME TypeInv, SlotInv PROVE IndexOnce
  <2>1. Cardinality(Quarantined) = Len(quarantine)
    <3> DEFINE f == [k \in 1..Len(quarantine) |-> quarantine[k][1]]
    <3>1. /\ \A k \in 1..Len(quarantine) : quarantine[k][1] \in Quarantined
          /\ \A x \in Quarantined : \E k \in 1..Len(quarantine) : quarantine[k][1] = x
      BY DEF Quarantined
    <3>2. \A k, m \in 1..Len(quarantine) : quarantine[m][1] = quarantine[k][1] => m = k
      BY <1>1 DEF SlotInv, ListInv
    <3>3. /\ f \in [1..Len(quarantine) -> Quarantined] /\ IsInjective(f)
          /\ \A x \in Quarantined : \E k \in 1..Len(quarantine) : f[k] = x
      BY <3>1, <3>2 DEF IsInjective
    <3>4. f \in Bijection(1..Len(quarantine), Quarantined)
      BY <3>3 DEF Bijection, Injection, Surjection
    <3>5. Len(quarantine) \in Nat BY <1>1, ListNat
    <3> HIDE DEF f
    <3> QED BY <3>4, <3>5, FS_CountingElements DEF ExistsBijection
  <2>2. \A i \in Slot :
          IF i \in free \cup Quarantined THEN word[i].state = "Free"
          ELSE /\ word[i].state # "Free"
               /\ \/ waiter[i].at # "none" /\ waiter[i].gen = word[i].gen
                  \/ IdOf(i) \in late
    BY <1>1 DEF SlotInv, ListInv, WaiterInv
  <2>3. \A k \in 1..Len(ready) : ~Waiting(ready[k]) => word[ready[k].slot].gen # ready[k].gen
    BY <1>1, IdNat DEF SlotInv, ReadyInv, WaiterInv, Waiting
  <2> QED BY <1>1, <2>1, <2>2, <2>3 DEF IndexOnce, SlotInv, ListInv
<1> QED BY <1>1, SlotsHold, PTL

(* The floor never passes what was posted, nothing delivered is taken      *)
(* back, and the quarantine is sorted by stamps that each cover every      *)
(* batch its slot was delivered in (Allocator::retire, Intake::settle).    *)
THEOREM EpochsCovered == Spec => []EpochOrder
<1>1. ASSUME TypeInv, EpochInv, StampInv PROVE EpochOrder
  <2>1. Posted <= published /\ Posted \in Int BY <1>1, EpochNat DEF Posted
  <2>2. acked <= published /\ delivered <= published BY <1>1, <2>1, EpochNat DEF EpochInv
  <2>3. ASSUME NEW k \in 1..Len(quarantine)
        PROVE  /\ quarantine[k][2] <= published
               /\ k > 1 => quarantine[k - 1][2] <= quarantine[k][2]
               /\ \A s \in seen : s[1].slot = quarantine[k][1] => s[2] <= quarantine[k][2]
    <3>1. quarantine[k][2] <= published
      <4>1. quarantine[k][2] <= Posted /\ quarantine[k][2] \in Nat BY <1>1, ListNat DEF EpochInv
      <4> QED BY <1>1, <2>1, <4>1, EpochNat
    <3>2. k > 1 => k - 1 \in 1..k OBVIOUS
    <3> QED BY <1>1, <3>1, <3>2 DEF StampInv
  <2> QED BY <2>2, <2>3 DEF EpochOrder
<1> QED BY <1>1, SlotsHold, PTL

-----------------------------------------------------------------------------
(***************************************************************************)
(* What hosts are promised by SlotLease: a snapshot, a locked access, a    *)
(* view and a body region are of the request their id names, however the   *)
(* loads of the call and the steps of the worker interleave, for every set *)
(* of slots and threads and every bound.                                   *)
(***************************************************************************)

-----------------------------------------------------------------------------
(* What a step may do to a slot.                                           *)

(* Slot j is retired by this step, stamped with the newest posted epoch.   *)
Retires(j) ==
  /\ word[j].state # "Free" /\ word'[j].gen = word[j].gen + 1
  /\ quarantine' = Append(quarantine, <<j, Stamp>>) /\ wpc # "offer"

(* A retirement over words w that keep the generations.                    *)
LEMMA RetireEffect ==
  ASSUME TypeInv, SlotInv, NEW w \in [Slot -> Word], NEW id \in Id, RetireOrDefer(w, id),
         \A j \in Slot : w[j].gen = word[j].gen /\ (word[j].state = "Free" => w[j].state = "Free"),
         wpc # "offer"
  PROVE  \A j \in Slot : word'[j].gen = word[j].gen \/ Retires(j)
<1>1. id.slot \in Slot BY IdNat
<1>2. CASE word' = w BY <1>2
<1>3. CASE ~(word' = w)
  <2>1. /\ CanRetire(w[id.slot], id.gen) /\ word' = [w EXCEPT ![id.slot] = retire(@)]
        /\ quarantine' = Append(quarantine, <<id.slot, Stamp>>)
    BY <1>3 DEF RetireOrDefer
  <2>2. word[id.slot].state # "Free" BY <1>1, <2>1 DEF CanRetire, check, RetireStates
  <2>3. word[id.slot].gen + 1 <= requests BY <1>1, <2>2 DEF SlotInv, GenInv
  <2>4. word'[id.slot].gen = word[id.slot].gen + 1
    BY <1>1, <2>1, <2>3, SlotFacts, WordNat DEF retire, NewWord, next_generation
  <2>5. \A j \in Slot : j # id.slot => word'[j] = w[j] BY <2>1
  <2> QED BY <2>1, <2>2, <2>4, <2>5 DEF Retires
<1> QED BY <1>2, <1>3

(* The words closed before a retirement.                                   *)
LEMMA ClosedEffect ==
  ASSUME TypeInv, NEW id \in Id
  PROVE  \A j \in Slot :
           /\ Closed(id)[j].gen = word[j].gen /\ LeaseClosed(id)[j].gen = word[j].gen
           /\ word[j].state = "Free" => Closed(id)[j].state = "Free" /\ LeaseClosed(id)[j].state = "Free"
<1>1. id.slot \in Slot /\ word \in [Slot -> Word] BY IdNat, SlotFacts
<1>2. \A j \in Slot : j # id.slot => Closed(id)[j] = word[j] /\ LeaseClosed(id)[j] = word[j]
  BY <1>1 DEF Closed, LeaseClosed
<1>3. \A w \in Word : close(w).gen = w.gen /\ close_leased(w).gen = w.gen
  BY DEF close, close_leased, Word
<1>4. /\ Closed(id)[id.slot] \in {word[id.slot], close(word[id.slot]), close_leased(word[id.slot])}
      /\ word[id.slot].state = "Free" => Closed(id)[id.slot] = word[id.slot]
  BY <1>1 DEF Closed, CanCloseLeased, CanClose, check
<1>5. /\ LeaseClosed(id)[id.slot] \in {word[id.slot], close_leased(word[id.slot])}
      /\ word[id.slot].state = "Free" => LeaseClosed(id)[id.slot] = word[id.slot]
  BY <1>1 DEF LeaseClosed, CanCloseLeased, check
<1> QED BY <1>1, <1>2, <1>3, <1>4, <1>5

(* A generation moves only in a retirement.                                *)
LEMMA GenEffect ==
  ASSUME TypeInv, SlotInv, Next
  PROVE  \A j \in Slot : word'[j].gen = word[j].gen \/ Retires(j)
<1>1. ASSUME NEW i \in Slot, GuardRetire(i), wpc # "offer"
      PROVE  \A j \in Slot : word'[j].gen = word[j].gen \/ Retires(j)
  <2> DEFINE id == [slot |-> i, gen |-> waiter[i].gen]
  <2>1. id \in Id BY SlotNat DEF Waiter, Id
  <2>2. PICK w : w = Closed(id) OBVIOUS
  <2>3. RetireOrDefer(w, id) BY <1>1, <2>2 DEF GuardRetire
  <2>4. w \in [Slot -> Word] BY <2>1, <2>2, ClosedTyped
  <2>5. \A j \in Slot : w[j].gen = word[j].gen /\ (word[j].state = "Free" => w[j].state = "Free")
    BY <2>1, <2>2, ClosedEffect
  <2> HIDE DEF id
  <2> QED BY <1>1, <2>1, <2>3, <2>4, <2>5, RetireEffect
<1>2. ASSUME NEW id \in Id, RetireOrDefer(LeaseClosed(id), id), wpc # "offer"
      PROVE  \A j \in Slot : word'[j].gen = word[j].gen \/ Retires(j)
  <2>1. PICK w : w = LeaseClosed(id) OBVIOUS
  <2>2. RetireOrDefer(w, id) BY <1>2, <2>1
  <2>3. w \in [Slot -> Word] BY <2>1, ClosedTyped
  <2>4. \A j \in Slot : w[j].gen = word[j].gen /\ (word[j].state = "Free" => w[j].state = "Free")
    BY <2>1, ClosedEffect
  <2> QED BY <1>2, <2>2, <2>3, <2>4, RetireEffect
<1>3. \A w \in Word : /\ hold(claim(w)).gen = w.gen /\ lease(w).gen = w.gen /\ unlease(w).gen = w.gen
                      /\ begin_import(w).gen = w.gen /\ close_leased(w).gen = w.gen
                      /\ pin(w).gen = w.gen /\ unpin(w).gen = w.gen
  BY DEF hold, claim, lease, unlease, begin_import, with_state, close_leased, pin, unpin, Word
<1>4. ASSUME NEW i \in Slot, NEW x \in Word, x.gen = word[i].gen, word' = [word EXCEPT ![i] = x]
      PROVE  \A j \in Slot : word'[j].gen = word[j].gen
  BY <1>4, SlotFacts
<1>w. \A i \in Slot : word[i] \in Word BY WordNat
<1>c. ASSUME NEW i \in Slot, NEW shelf, NEW content, Claim(i, word, shelf, content)
      PROVE  \A j \in Slot : word'[j].gen = word[j].gen
  BY <1>3, <1>4, <1>w, <1>c, WordTyped DEF Claim
<1>5. CASE Future
  <2>1. PICK i \in Slot : \/ Allocate(i) \/ FutureGone(i) \/ DropFuture(i)
                          \/ ImportBegin(i) \/ ImportTake(i) \/ ImportRetire(i)
    BY <1>5 DEF Future
  <2>2. CASE Allocate(i) BY <1>c, <2>2 DEF Allocate
  <2>3. CASE ImportTake(i) BY <2>3 DEF ImportTake
  <2>4. CASE FutureGone(i) \/ DropFuture(i) \/ ImportRetire(i)
    BY <1>1, <2>4 DEF FutureGone, DropFuture, ImportRetire
  <2>5. CASE ImportBegin(i)
    <3>1. CASE GuardRetire(i) BY <1>1, <2>5, <3>1 DEF ImportBegin
    <3>2. CASE ~GuardRetire(i)
      <4>1. word' = [word EXCEPT ![i] = begin_import(word[i])] BY <2>5, <3>2 DEF ImportBegin
      <4> QED BY <1>3, <1>4, <1>w, <4>1, WordTyped
    <3> QED BY <3>1, <3>2
  <2> QED BY <2>1, <2>2, <2>3, <2>4, <2>5
<1>6. CASE Turn
  <2>0. ready # <<>> => Head(ready) \in Id BY SlotFacts, HeadTailProperties
  <2>1. CASE ReleaseAndAllocate BY <1>c, <2>1 DEF ReleaseAndAllocate
  <2>2. CASE LoseJob BY <1>2, <2>0, <2>2 DEF LoseJob
  <2>3. CASE FillJob
    <3>1. CASE CanLease(word[Head(ready).slot], Head(ready).gen)
      <4>1. /\ word' = [word EXCEPT ![Head(ready).slot] = lease(word[Head(ready).slot])]
            /\ Head(ready).slot \in Slot
        BY <2>0, <2>3, <3>1, IdNat DEF FillJob
      <4> QED BY <1>3, <1>4, <1>w, <4>1, WordTyped
    <3>2. CASE ~CanLease(word[Head(ready).slot], Head(ready).gen)
      BY <1>2, <2>0, <2>3, <3>2 DEF FillJob
    <3> QED BY <3>1, <3>2
  <2>4. CASE \E id \in late : LateRetire(id) BY <1>2, <2>4, IdNat DEF LateRetire
  <2>5. CASE LoseLeases BY <1>3, <1>w, <2>5 DEF LoseLeases
  <2>6. CASE OfferRefused BY <1>3, <1>w, <2>6 DEF OfferRefused
  <2>7. CASE \/ AllocateExhausted \/ Drain \/ SettleDetached \/ SettleGone \/ LoadFloor \/ Release
             \/ PostNext \/ PostEvents \/ FillEmpty \/ Publish \/ OfferTaken
    BY <2>7 DEF AllocateExhausted, Drain, SettleDetached, SettleGone, LoadFloor, Release,
       PostNext, PostEvents, FillEmpty, Publish, OfferTaken, arenaVars
  <2> QED BY <1>6, <2>1, <2>2, <2>3, <2>4, <2>5, <2>6, <2>7 DEF Turn
<1>7. CASE Attach \/ TargetStops \/ Detach
  BY <1>7 DEF Attach, TargetStops, Detach, arenaVars
<1>8. CASE Host
  <2>1. PICK t \in Thread : \/ Bind(t) \/ Begins(t) \/ CallSteps(t)
                           \/ \E id \in SeenIds : Pin(t, id) \/ Unpin(t, id)
    BY <1>8, HostCases
  <2>2. ASSUME NEW id \in SeenIds, Pin(t, id) \/ Unpin(t, id)
        PROVE  \A j \in Slot : word'[j].gen = word[j].gen
    <3>1. id.slot \in Slot BY IdNat DEF SeenIds
    <3>2. \/ word' = [word EXCEPT ![id.slot] = pin(word[id.slot])]
          \/ word' = [word EXCEPT ![id.slot] = unpin(word[id.slot])]
          \/ word' = [word EXCEPT ![id.slot] = word[id.slot]]
      BY <2>2 DEF Pin, Unpin
    <3>3. \A j \in Slot : j # id.slot => word'[j] = word[j] BY <3>2, SlotFacts
    <3>4. word'[id.slot] \in {pin(word[id.slot]), unpin(word[id.slot]), word[id.slot]}
      BY <3>1, <3>2, SlotFacts
    <3> QED BY <1>3, <1>w, <3>1, <3>3, <3>4
  <2> QED BY <2>1, <2>2, BeginFacts, CallFrame
<1> QED BY <1>5, <1>6, <1>7, <1>8 DEF Next

(* No generation moves back.                                               *)
LEMMA GenGrows ==
  ASSUME TypeInv, SlotInv, Next, NEW id \in SeenIds
  PROVE  /\ id \in Id /\ id.slot \in Slot /\ id.gen <= word[id.slot].gen
         /\ word[id.slot].gen <= word'[id.slot].gen
         /\ id.gen = word'[id.slot].gen => id.gen = word[id.slot].gen
<1>1. PICK s \in seen : s[1] = id BY DEF SeenIds
<1>2. id \in Id /\ id.slot \in Slot /\ id.gen \in Nat BY <1>1, IdNat
<1>3. id.gen <= word[id.slot].gen BY <1>1 DEF SlotInv, SeenInv
<1>4. word[id.slot].gen \in Nat BY <1>2, WordNat
<1>5. word'[id.slot].gen \in {word[id.slot].gen, word[id.slot].gen + 1}
  BY <1>2, GenEffect DEF Retires
<1> QED BY <1>2, <1>3, <1>4, <1>5

(* An id that is not stale is of a slot in use, with its own payload and   *)
(* an epoch a host was given.                                              *)
LEMMA SeenCurrent ==
  ASSUME TypeInv, EpochInv, SlotInv, NEW id \in SeenIds, id.gen = word[id.slot].gen
  PROVE  /\ id.slot \in Slot /\ word[id.slot].state \in HostStates
         /\ word[id.slot].state # "Free" /\ word[id.slot].state # "WorkerOwned"
         /\ payload[id.slot] = id.gen /\ lease_epoch[id.slot] <= delivered
<1>1. PICK s \in seen : s[1] = id BY DEF SeenIds
<1>2. id.slot \in Slot BY <1>1, IdNat
<1>3. word[id.slot].state \in HostStates /\ lease_epoch[id.slot] = s[2]
  BY <1>1 DEF SlotInv, SeenInv
<1>4. s[2] <= delivered BY DEF EpochInv
<1> QED BY <1>2, <1>3, <1>4 DEF HostStates, SlotInv, PayloadInv

(* What a pin and an unpin leave alone.                                    *)
LEMMA PinLeaves ==
  ASSUME NEW t \in Thread, NEW id \in SeenIds, Pin(t, id) \/ Unpin(t, id)
  PROVE  /\ Idle(t)
         /\ UNCHANGED <<lease_epoch, payload, lock, staged, intakeVars, targetVars, call, allocVars,
                        queueVars, turnVars>>
<1>1. CASE Pin(t, id) BY <1>1 DEF Pin, threadFrame
<1>2. CASE Unpin(t, id)
  <2>1. Idle(t) BY <1>2 DEF Unpin
  <2>2. /\ UNCHANGED <<lease_epoch, payload, lock, staged, intakeVars, targetVars, call>>
        /\ threadFrame
    BY <1>2 DEF Unpin
  <2> QED BY <2>1, <2>2 DEF threadFrame
<1> QED BY <1>1, <1>2

(* The other words of a slot, and who may write them.                      *)
LEMMA SlotEffect ==
  ASSUME TypeInv, SlotInv, Next
  PROVE  \A j \in Slot :
           /\ payload'[j] = payload[j] \/ lock[j] = None
           /\ lease_epoch'[j] = lease_epoch[j] \/ word[j].state = "WorkerOwned"
           /\ \/ waiter'[j] = waiter[j] \/ waiter'[j].at # "taken"
              \/ lock[j] = None /\ MayTake(j)
           /\ \/ staged'[j] = staged[j] \/ staged'[j] = TRUE
              \/ word[j].state = "Free" \/ MayTake(j)
<1> DEFINE Goal(j) ==
             /\ payload'[j] = payload[j] \/ lock[j] = None
             /\ lease_epoch'[j] = lease_epoch[j] \/ word[j].state = "WorkerOwned"
             /\ \/ waiter'[j] = waiter[j] \/ waiter'[j].at # "taken"
                \/ lock[j] = None /\ MayTake(j)
             /\ \/ staged'[j] = staged[j] \/ staged'[j] = TRUE
                \/ word[j].state = "Free" \/ MayTake(j)
<1>0. /\ word \in [Slot -> Word] /\ payload \in [Slot -> Content] /\ lease_epoch \in [Slot -> Epoch]
      /\ waiter \in [Slot -> Waiter]
  BY SlotFacts
<1>1. staged \in [Slot -> BOOLEAN] BY DEF TypeInv, TypeOK, ArenaOK
<1> USE <1>0
<1>2. ASSUME NEW i \in Slot, NEW shelf, NEW content, Claim(i, word, shelf, content),
             content \in [Slot -> Content],
             \A j \in Slot : content[j] = payload[j] \/ lock[j] = None, UNCHANGED lease_epoch
      PROVE  \A j \in Slot : Goal(j)
  <2>1. \A j \in Slot : j # i => payload'[j] = content[j] /\ staged'[j] = staged[j] /\ waiter'[j] = waiter[j]
    BY <1>1, <1>2 DEF Claim
  <2>2. lock[i] = None /\ word[i].state = "Free" /\ waiter'[i].at = "waiting"
    BY <1>2 DEF Claim, CanClaim, check
  <2> QED BY <1>2, <2>1, <2>2
<1>3. \A n \in 0..Len(quarantine) :
        /\ ReleasedPayload(n) \in [Slot -> Content]
        /\ \A j \in Slot : ReleasedPayload(n)[j] = payload[j] \/ lock[j] = None
  BY ReleaseTyped DEF ReleasedPayload
<1>4. ASSUME NEW i \in Slot, GuardRetire(i), UNCHANGED <<payload, lease_epoch, staged>>
      PROVE  \A j \in Slot : Goal(j)
  <2>1. waiter'[i].at = "none" /\ \A j \in Slot : j # i => waiter'[j] = waiter[j]
    BY <1>4 DEF GuardRetire, NoWaiter
  <2> QED BY <1>4, <2>1
<1>5. CASE Future
  <2>1. PICK i \in Slot : \/ Allocate(i) \/ FutureGone(i) \/ DropFuture(i)
                          \/ ImportBegin(i) \/ ImportTake(i) \/ ImportRetire(i)
    BY <1>5 DEF Future
  <2>2. CASE Allocate(i) BY <1>2, <2>2 DEF Allocate
  <2>3. CASE ImportTake(i)
    <3>1. \A j \in Slot : j # i => waiter'[j] = waiter[j] /\ staged'[j] = staged[j]
      BY <1>1, <2>3 DEF ImportTake
    <3> QED BY <2>3, <3>1 DEF ImportTake
  <2>4. CASE FutureGone(i) \/ DropFuture(i) \/ ImportRetire(i)
    BY <1>4, <2>4 DEF FutureGone, DropFuture, ImportRetire, GuardFrame
  <2>5. CASE ImportBegin(i)
    <3>1. CASE GuardRetire(i) BY <1>4, <2>5, <3>1 DEF ImportBegin, GuardFrame
    <3>2. CASE ~GuardRetire(i)
      <4>1. waiter' = [waiter EXCEPT ![i].at = "importing"] BY <2>5, <3>2 DEF ImportBegin
      <4>2. waiter'[i].at = "importing" /\ \A j \in Slot : j # i => waiter'[j] = waiter[j]
        BY <4>1, SlotNat DEF Waiter
      <4> QED BY <2>5, <4>2 DEF ImportBegin, GuardFrame
    <3> QED BY <3>1, <3>2
  <2> QED BY <2>1, <2>2, <2>3, <2>4, <2>5
<1>6. CASE Turn
  <2>0. ready # <<>> => Head(ready).slot \in Slot BY SlotFacts, HeadTailProperties, IdNat
  <2>1. CASE ReleaseAndAllocate
    <3>1. PICK n \in 0..Len(quarantine) :
            \/ \E i \in Slot : Claim(i, word, Released(n), ReleasedPayload(n))
            \/ payload' = ReleasedPayload(n) /\ UNCHANGED <<staged, waiter>>
      BY <2>1 DEF ReleaseAndAllocate
    <3>2. UNCHANGED lease_epoch BY <2>1 DEF ReleaseAndAllocate
    <3> QED BY <1>2, <1>3, <3>1, <3>2
  <2>2. CASE Release BY <1>3, <2>2 DEF Release, queueVars
  <2>3. CASE LoseJob
    <3>1. waiter' = [waiter EXCEPT ![Head(ready).slot].at = "gone"] \/ UNCHANGED waiter
      BY <2>3 DEF LoseJob
    <3>2. \A j \in Slot : waiter'[j] = waiter[j] \/ waiter'[j].at = "gone"
      BY <2>0, <3>1, SlotNat DEF Waiter
    <3> QED BY <2>3, <3>2 DEF LoseJob
  <2>4. CASE FillJob
    <3>1. \A j \in Slot : lease_epoch'[j] = lease_epoch[j] \/ word[j].state = "WorkerOwned"
      <4>1. CASE CanLease(word[Head(ready).slot], Head(ready).gen)
        <5>1. lease_epoch' = [lease_epoch EXCEPT ![Head(ready).slot] = published + 1]
          BY <2>4, <4>1 DEF FillJob
        <5>2. word[Head(ready).slot].state = "WorkerOwned" BY <4>1 DEF CanLease, check
        <5> QED BY <5>1, <5>2
      <4>2. CASE ~CanLease(word[Head(ready).slot], Head(ready).gen) BY <2>4, <4>2 DEF FillJob
      <4> QED BY <4>1, <4>2
    <3> QED BY <2>4, <3>1 DEF FillJob
  <2>5. CASE LoseLeases
    <3>3. ASSUME NEW j \in Slot PROVE waiter'[j] = waiter[j] \/ waiter'[j].at = "gone"
      <4>1. waiter'[j] = waiter[j] \/ waiter'[j] = [waiter[j] EXCEPT !.at = "gone"]
        BY <2>5 DEF LoseLeases
      <4>2. waiter[j] \in Waiter BY SlotNat
      <4> QED BY <4>1, <4>2 DEF Waiter
    <3> QED BY <2>5, <3>3 DEF LoseLeases
  <2>6. CASE Drain
    <3>3. ASSUME NEW j \in Slot PROVE waiter'[j] = waiter[j] \/ waiter'[j].at = "sealed"
      <4>1. waiter'[j] = waiter[j] \/ waiter'[j] = [waiter[j] EXCEPT !.at = "sealed"]
        BY <2>6 DEF Drain
      <4>2. waiter[j] \in Waiter BY SlotNat
      <4> QED BY <4>1, <4>2 DEF Waiter
    <3> QED BY <2>6, <3>3 DEF Drain, arenaVars
  <2>7. CASE \/ AllocateExhausted \/ SettleDetached \/ SettleGone \/ LoadFloor \/ PostNext
             \/ PostEvents \/ FillEmpty \/ Publish \/ OfferTaken \/ OfferRefused
             \/ \E id \in late : LateRetire(id)
    <3>1. UNCHANGED <<payload, lease_epoch, waiter, staged>>
      BY <2>7 DEF AllocateExhausted, SettleDetached, SettleGone, LoadFloor, PostNext, PostEvents,
         FillEmpty, Publish, OfferTaken, OfferRefused, LateRetire, arenaVars, queueVars
    <3> QED BY <3>1
  <2> QED BY <1>6, <2>1, <2>2, <2>3, <2>4, <2>5, <2>6, <2>7 DEF Turn
<1>7. CASE Attach \/ TargetStops \/ Detach
  BY <1>7 DEF Attach, TargetStops, Detach, arenaVars, threadFrame, queueVars
<1>8. CASE Host
  <2>1. PICK t \in Thread : \/ Bind(t) \/ Begins(t) \/ CallSteps(t)
                           \/ \E id \in SeenIds : Pin(t, id) \/ Unpin(t, id)
    BY <1>8, HostCases
  <2>2. UNCHANGED <<payload, lease_epoch, waiter>>
    <3>1. CASE \E id \in SeenIds : Pin(t, id) \/ Unpin(t, id) BY <3>1, PinLeaves DEF queueVars
    <3> QED BY <2>1, <3>1, BeginFacts, CallFrame DEF queueVars
  <2>3. \A j \in Slot : staged'[j] = staged[j] \/ staged'[j] = TRUE
    <3>1. CASE Inside(t) BY <1>1, <3>1 DEF Inside
    <3>2. CASE ~Inside(t)
      <4>1. CASE CallSteps(t)
        BY <3>2, <4>1 DEF CallSteps, LoadBound, LoadDetaching, LoadEpoch, LoadAcked, ReadView,
           Snapshot, Recheck, Lock, Locked, CompleteCheck, CompleteApply, callFrame, arenaVars
      <4>2. CASE \E id \in SeenIds : Pin(t, id) \/ Unpin(t, id) BY <4>2, PinLeaves
      <4>3. CASE Bind(t) BY <4>3 DEF Bind, arenaVars
      <4>4. CASE Begins(t) BY <4>4, BeginFacts DEF callFrame, arenaVars
      <4> QED BY <2>1, <4>1, <4>2, <4>3, <4>4
    <3> QED BY <3>1, <3>2
  <2> QED BY <2>2, <2>3
<1> QED BY <1>5, <1>6, <1>7, <1>8 DEF Next
-----------------------------------------------------------------------------
(* What a step may do to the calls.                                        *)

(* What a call begins as.                                                  *)
Begun(t, c) ==
  \/ /\ c.op = "complete" /\ c.at = "check"
     /\ c.epoch # 0 => bound = t
  \/ /\ c.op \in Calls \ {"complete"} /\ c.at \in {"bound", "read_view", "lock"}
     /\ c.op = "body_alloc" => c.id \in pins[t]
     /\ c.at = "bound" => c.op \in {"view", "pinned_read"}
     /\ c.op \in {"view", "pinned_read"} /\ c.at # "bound" => c.id \in pins[t]

(* A call begins as Begun says.                                            *)
LEMMA BeginAs ==
  ASSUME TypeInv, NEW t \in Thread, Begins(t)
  PROVE  Begun(t, call'[t])
<1>1. call \in [Thread -> Call] BY SlotFacts
<1>2. ASSUME NEW id \in SeenIds, NEW op \in CallOps \ {"complete"}, Begin(t, id, op)
      PROVE  Begun(t, call'[t])
  <2>1. PICK at : /\ call'[t] = [op |-> op, id |-> id, era |-> 0, epoch |-> 0, snap |-> 0, at |-> at]
                  /\ at = CASE op \in {"view", "pinned_read"} /\ id \notin pins[t] -> "bound"
                            [] op = "values" \/ (op = "view" /\ id \in pins[t]) -> "read_view"
                            [] OTHER -> "lock"
    BY <1>1, <1>2 DEF Begin
  <2>2. op \in Calls \ {"complete"} BY LeaseAssumption
  <2>3. op = "body_alloc" => id \in pins[t] BY <1>2 DEF Begin
  <2>4. /\ at \in {"bound", "read_view", "lock"}
        /\ at = "bound" => op \in {"view", "pinned_read"}
        /\ op \in {"view", "pinned_read"} /\ at # "bound" => id \in pins[t]
    <3>1. CASE op \in {"view", "pinned_read"} /\ id \notin pins[t]
      <4>1. at = "bound" BY <2>1, <3>1
      <4> QED BY <3>1, <4>1
    <3>2. CASE ~(op \in {"view", "pinned_read"} /\ id \notin pins[t])
      <4>1. at \in {"read_view", "lock"} BY <2>1, <3>2
      <4> QED BY <3>2, <4>1
    <3> QED BY <3>1, <3>2
  <2> QED BY <2>1, <2>2, <2>3, <2>4 DEF Begun
<1>3. ASSUME NEW id \in SeenIds, NEW e \in {0} \cup (acked + 1)..delivered, CompleteBegin(t, id, e)
      PROVE  Begun(t, call'[t])
  <2>1. call'[t] = [op |-> "complete", at |-> "check", id |-> id, era |-> 0, epoch |-> AckFrom(t, e),
                    snap |-> 0]
    BY <1>1, <1>3 DEF CompleteBegin
  <2> QED BY <2>1 DEF AckFrom, Begun
<1> QED BY <1>2, <1>3 DEF Begins

(* A step moves the call of one thread at most.                            *)
LEMMA CallCases ==
  ASSUME TypeInv, Next
  PROVE  UNCHANGED call \/ \E t \in Thread : Begins(t) \/ CallSteps(t)
<1>1. CASE Future
  BY <1>1 DEF Future, Allocate, FutureGone, DropFuture, ImportBegin, ImportTake, ImportRetire,
     GuardFrame, threadVars
<1>2. CASE Turn
  BY <1>2 DEF Turn, AllocateExhausted, ReleaseAndAllocate, Drain, LoseLeases, LoseJob,
     SettleDetached, SettleGone, LoadFloor, Release, LateRetire, PostNext, PostEvents, FillJob,
     FillEmpty, Publish, OfferTaken, OfferRefused, threadVars
<1>3. CASE Attach \/ TargetStops \/ Detach BY <1>3 DEF Attach, TargetStops, Detach, threadVars
<1>4. CASE Host
  <2>1. PICK t \in Thread : \/ Bind(t) \/ Begins(t) \/ CallSteps(t)
                           \/ \E id \in SeenIds : Pin(t, id) \/ Unpin(t, id)
    BY <1>4, HostCases
  <2>2. CASE Bind(t) BY <2>2 DEF Bind, threadVars
  <2>3. CASE \E id \in SeenIds : Pin(t, id) \/ Unpin(t, id) BY <2>3, PinLeaves
  <2> QED BY <2>1, <2>2, <2>3
<1> QED BY <1>1, <1>2, <1>3, <1>4 DEF Next

(* The same, seen from one thread whose call goes on.                      *)
LEMMA CallOf ==
  ASSUME TypeInv, Next, NEW t \in Thread, call'[t].op # "none"
  PROVE  \/ call'[t] = call[t] \/ Begins(t)
         \/ CallSteps(t) /\ CallMove(t) /\ call[t].op # "none"
BY CallCases, BeginFacts, CallTable DEF NoCall

(* A step keeps the order of the loads of a call.                          *)
LEMMA StepKept == ASSUME TypeInv, StepInv, Next PROVE StepInv'
<1> SUFFICES ASSUME NEW t \in Thread, call'[t].op # "none"
             PROVE  /\ call'[t].at # "start"
                    /\ call'[t].at \in {"detaching", "epoch", "acked"} => call'[t].era # 0
                    /\ call'[t].at = "bound" => call'[t].era = 0
                    /\ call'[t].at \in {"bound", "detaching", "epoch", "acked"} =>
                         call'[t].op \in {"view", "pinned_read"}
  BY DEF StepInv
<1>1. CASE call'[t] = call[t] BY <1>1 DEF StepInv
<1>2. CASE Begins(t) BY <1>2, BeginAs, BeginFacts DEF Begun
<1>3. CASE CallMove(t) /\ call[t].op # "none"
  <2>1. era # 0 BY DEF TypeInv, TypeOK, TargetOK
  <2> QED BY <1>3, <2>1 DEF StepInv, CallMove, Moves, KeepsRule
<1> QED BY <1>1, <1>2, <1>3, CallOf

(* Who moves a lock: the thread that takes it when it is free, the holder  *)
(* when its call ends.                                                     *)
LockMoves(t, j) ==
  /\ call[t].op # "none" /\ call[t].id.slot = j
  /\ \/ lock[j] = None /\ lock'[j] = t /\ Moves(t, "lock", "locked")
     \/ call[t].at \in {"locked", "inside"} /\ call'[t] = NoCall

(* Every step leaves each slot's lock as it is, or is of that kind.        *)
LEMMA LockEffect ==
  ASSUME TypeInv, Next
  PROVE  \A j \in Slot : lock'[j] = lock[j] \/ \E t \in Thread : LockMoves(t, j)
<1>0. lock \in [Slot -> Thread \cup {None}] BY DEF TypeInv, TypeOK, ArenaOK
<1>1. CASE Future \/ Turn \/ Attach \/ TargetStops \/ Detach
  <2>1. CASE Future
    BY <2>1 DEF Future, Allocate, FutureGone, DropFuture, ImportBegin, ImportTake, ImportRetire,
       GuardFrame
  <2>2. CASE Turn
    BY <2>2 DEF Turn, AllocateExhausted, ReleaseAndAllocate, Drain, LoseLeases, LoseJob,
       SettleDetached, SettleGone, LoadFloor, Release, LateRetire, PostNext, PostEvents, FillJob,
       FillEmpty, Publish, OfferTaken, OfferRefused, arenaVars
  <2>3. CASE Attach \/ TargetStops \/ Detach BY <2>3 DEF Attach, TargetStops, Detach, arenaVars
  <2> QED BY <1>1, <2>1, <2>2, <2>3
<1>2. CASE Host
  <2>1. PICK t \in Thread : \/ Bind(t) \/ Begins(t) \/ CallSteps(t)
                           \/ \E id \in SeenIds : Pin(t, id) \/ Unpin(t, id)
    BY <1>2, HostCases
  <2>2. CASE Bind(t) BY <2>2 DEF Bind, arenaVars
  <2>3. CASE \E id \in SeenIds : Pin(t, id) \/ Unpin(t, id) BY <2>3, PinLeaves
  <2>4. CASE Begins(t) BY <2>4, BeginFacts DEF callFrame, arenaVars
  <2>5. CASE Lock(t)
    <3>1. CASE Goto(t, "locked")
      <4>1. /\ At(t, "lock") /\ lock[call[t].id.slot] = None
            /\ lock' = [lock EXCEPT ![call[t].id.slot] = t]
        <5>1. call'[t].at = "locked" BY <3>1, GotoFacts
        <5>2. ~Return(t) BY <5>1, ReturnFacts DEF NoCall
        <5> QED BY <2>5, <5>2 DEF Lock, CallSlot
      <4>2. Moves(t, "lock", "locked") BY <3>1, <4>1, GotoFacts DEF Moves, At
      <4> QED BY <1>0, <4>1, <4>2 DEF LockMoves, At
    <3>2. CASE ~Goto(t, "locked") BY <2>5, <3>2 DEF Lock
    <3> QED BY <3>1, <3>2
  <2>6. CASE Locked(t) \/ Inside(t)
    <3>1. CASE Return(t)
      <4>1. \A j \in Slot : j # call[t].id.slot => lock'[j] = lock[j]
        BY <1>0, <2>6 DEF Locked, Inside, CallSlot
      <4>2. call[t].op # "none" /\ call[t].at \in {"locked", "inside"}
        BY <2>6 DEF Locked, Inside, At
      <4>3. call'[t] = NoCall BY <3>1, ReturnFacts
      <4> QED BY <4>1, <4>2, <4>3 DEF LockMoves
    <3>2. CASE ~Return(t) BY <2>6, <3>2 DEF Locked, Inside
    <3> QED BY <3>1, <3>2
  <2>7. CASE \/ LoadBound(t) \/ LoadDetaching(t) \/ LoadEpoch(t) \/ LoadAcked(t) \/ ReadView(t)
             \/ Snapshot(t) \/ Recheck(t) \/ CompleteCheck(t) \/ CompleteApply(t)
    BY <2>7 DEF LoadBound, LoadDetaching, LoadEpoch, LoadAcked, ReadView, Snapshot, Recheck,
       CompleteCheck, CompleteApply, callFrame, arenaVars
  <2> QED BY <2>1, <2>2, <2>3, <2>4, <2>5, <2>6, <2>7 DEF CallSteps
<1> QED BY <1>1, <1>2 DEF Next

(* The pins of a thread move only between its calls.                       *)
LEMMA PinsEffect ==
  ASSUME TypeInv, Next
  PROVE  \A t \in Thread : pins'[t] = pins[t] \/ (Idle(t) /\ UNCHANGED call)
<1>1. CASE Future
  BY <1>1 DEF Future, Allocate, FutureGone, DropFuture, ImportBegin, ImportTake, ImportRetire,
     GuardFrame, threadVars
<1>2. CASE Turn
  BY <1>2 DEF Turn, AllocateExhausted, ReleaseAndAllocate, Drain, LoseLeases, LoseJob,
     SettleDetached, SettleGone, LoadFloor, Release, LateRetire, PostNext, PostEvents, FillJob,
     FillEmpty, Publish, OfferTaken, OfferRefused, threadVars
<1>3. CASE Attach \/ TargetStops \/ Detach BY <1>3 DEF Attach, TargetStops, Detach, threadVars
<1>4. CASE Host
  <2>1. PICK u \in Thread : \/ Bind(u) \/ Begins(u) \/ CallSteps(u)
                           \/ \E id \in SeenIds : Pin(u, id) \/ Unpin(u, id)
    BY <1>4, HostCases
  <2>2. CASE \E id \in SeenIds : Pin(u, id) \/ Unpin(u, id)
    <3>1. PICK id \in SeenIds : Pin(u, id) \/ Unpin(u, id) BY <2>2
    <3>2. pins \in [Thread -> SUBSET Id] BY DEF TypeInv, TypeOK, ThreadOK
    <3>3. \/ pins' = [pins EXCEPT ![u] = pins[u] \cup {id}]
          \/ pins' = [pins EXCEPT ![u] = pins[u] \ {id}]
      <4>1. CASE Pin(u, id) BY <4>1 DEF Pin
      <4>2. CASE Unpin(u, id) BY <4>2 DEF Unpin
      <4> QED BY <3>1, <4>1, <4>2
    <3>4. \A t \in Thread : t # u => pins'[t] = pins[t] BY <3>2, <3>3
    <3>5. Idle(u) /\ UNCHANGED call BY <3>1, PinLeaves
    <3> QED BY <3>4, <3>5
  <2>3. CASE Bind(u) \/ Begins(u) \/ CallSteps(u) BY <2>3, BeginFacts, CallFrame
  <2> QED BY <2>1, <2>2, <2>3
<1> QED BY <1>1, <1>2, <1>3, <1>4 DEF Next

(* The checks around a lock, made with the slot's word: what passes them   *)
(* is current.                                                             *)
LEMMA LockedPasses ==
  ASSUME TypeInv, EpochInv, SlotInv, NEW t \in Thread, Locked(t), call'[t].at = "inside"
  PROVE  /\ UNCHANGED lock /\ payload[call[t].id.slot] = call[t].id.gen
         /\ call[t].op \in {"write", "body_alloc"} => waiter[call[t].id.slot].at # "taken"
<1>1. ~Return(t) BY ReturnFacts DEF NoCall
<1>2. /\ call[t].op # "none" /\ UNCHANGED lock
      /\ check(word[call[t].id.slot], call[t].id.gen, AccessStates(call[t].op))
  BY <1>1 DEF Locked, At, CallWord, CallSlot
<1>3. call[t].id \in SeenIds BY <1>2 DEF SlotInv, HandedInv
<1>4. call[t].id.gen = word[call[t].id.slot].gen BY <1>2 DEF check
<1>5. call[t].id.slot \in Slot /\ payload[call[t].id.slot] = call[t].id.gen
  BY <1>3, <1>4, SeenCurrent
<1>6. ASSUME call[t].op \in {"write", "body_alloc"}, waiter[call[t].id.slot].at = "taken"
      PROVE  FALSE
  <2>1. word[call[t].id.slot].state = "Leased" BY <1>2, <1>6 DEF check, AccessStates
  <2>2. word[call[t].id.slot].state = "Completing" BY <1>5, <1>6 DEF SlotInv, WaiterInv, StatesOf
  <2> QED BY <2>1, <2>2
<1> QED BY <1>2, <1>5, <1>6

(* A step keeps what runs under the locks.                                 *)
LEMMA LockKept == ASSUME TypeInv, EpochInv, SlotInv, LockInv, Next PROVE LockInv'
<1> SUFFICES ASSUME NEW t \in Thread, call'[t].op # "none"
             PROVE  LET c == call'[t]
                    IN  /\ c.at = "recheck" /\ c.id.gen = word'[c.id.slot].gen => c.snap = c.id.gen
                        /\ c.at \in {"locked", "inside"} => lock'[c.id.slot] = t
                        /\ c.at = "inside" => payload'[c.id.slot] = c.id.gen
                        /\ c.at = "inside" /\ c.op \in {"write", "body_alloc"} =>
                             waiter'[c.id.slot] # [gen |-> c.id.gen, at |-> "taken"]
                        /\ c.op = "body_alloc" => c.id \in pins'[t]
  BY DEF LockInv
<1>0. t # None BY LeaseAssumption
<1>1. CASE call'[t] = call[t]
  <2> DEFINE c == call[t]
             i == c.id.slot
  <2>1. c.id \in SeenIds /\ c.op # "none" BY <1>1 DEF SlotInv, HandedInv
  <2>2. i \in Slot /\ (c.id.gen = word'[i].gen => c.id.gen = word[i].gen) BY <2>1, GenGrows
  <2>3. c.at = "recheck" /\ c.id.gen = word'[i].gen => c.snap = c.id.gen
    BY <2>1, <2>2 DEF LockInv
  <2>4. ASSUME c.at \in {"locked", "inside"} PROVE lock[i] = t /\ lock'[i] = t
    <3>1. lock[i] = t BY <2>1, <2>4 DEF LockInv
    <3>2. ASSUME NEW u \in Thread, LockMoves(u, i) PROVE FALSE
      <4>1. call[u].at \in {"locked", "inside"} /\ call'[u] = NoCall /\ call[u].op # "none"
            /\ call[u].id.slot = i
        BY <1>0, <3>1, <3>2 DEF LockMoves
      <4>2. lock[i] = u BY <4>1 DEF LockInv
      <4> QED BY <3>1, <4>1, <4>2 DEF NoCall
    <3> QED BY <2>2, <3>1, <3>2, LockEffect
  <2>5. c.at = "inside" => payload'[i] = c.id.gen
    BY <1>0, <2>1, <2>2, <2>4, SlotEffect DEF LockInv
  <2>6. c.at = "inside" /\ c.op \in {"write", "body_alloc"} =>
          waiter'[i] # [gen |-> c.id.gen, at |-> "taken"]
    <3>1. SUFFICES ASSUME c.at = "inside", c.op \in {"write", "body_alloc"}
                   PROVE  waiter'[i] # [gen |-> c.id.gen, at |-> "taken"]
      OBVIOUS
    <3>2. waiter[i] # [gen |-> c.id.gen, at |-> "taken"] BY <2>1, <3>1 DEF LockInv
    <3>3. waiter'[i] = waiter[i] \/ waiter'[i].at # "taken" BY <1>0, <2>2, <2>4, <3>1, SlotEffect
    <3> QED BY <3>2, <3>3
  <2>7. c.op = "body_alloc" => c.id \in pins'[t] BY <2>1, PinsEffect DEF LockInv, Idle
  <2> QED BY <1>1, <2>3, <2>4, <2>5, <2>6, <2>7
<1>2. CASE Begins(t)
  <2>1. UNCHANGED pins BY <1>2, BeginFacts DEF callFrame
  <2> QED BY <1>2, <2>1, BeginAs DEF Begun
<1>3. CASE CallSteps(t) /\ CallMove(t) /\ call[t].op # "none"
  <2>1. UNCHANGED <<word, payload, pins, waiter>> BY <1>3, CallFrame DEF queueVars
  <2>2. call'[t].op = call[t].op /\ call'[t].id = call[t].id BY <1>3 DEF CallMove
  <2>3. call[t].op = "body_alloc" => call[t].id \in pins[t] BY <1>3 DEF LockInv
  <2>4. CASE call'[t].at = "recheck"
    <3>1. call'[t].snap = payload[call[t].id.slot] BY <1>3, <2>4 DEF CallMove, Moves
    <3>2. call[t].id \in SeenIds BY <1>3 DEF SlotInv, HandedInv
    <3>3. call[t].id.gen = word[call[t].id.slot].gen => payload[call[t].id.slot] = call[t].id.gen
      BY <3>2, SeenCurrent
    <3> QED BY <2>1, <2>2, <2>3, <2>4, <3>1, <3>3
  <2>5. CASE call'[t].at = "locked"
    <3>1. Lock(t) BY <1>3, <2>5 DEF CallMove, Moves
    <3>2. ~Return(t) BY <2>5, ReturnFacts DEF NoCall
    <3>3. lock' = [lock EXCEPT ![call[t].id.slot] = t] BY <3>1, <3>2 DEF Lock, CallSlot
    <3>4. call[t].id.slot \in Slot BY <1>3, IdNat DEF TypeInv, CallOK
    <3>5. lock \in [Slot -> Thread \cup {None}] BY DEF TypeInv, TypeOK, ArenaOK
    <3> QED BY <2>1, <2>2, <2>3, <2>5, <3>3, <3>4, <3>5
  <2>6. CASE call'[t].at = "inside"
    <3>1. Locked(t) /\ call[t].at = "locked" BY <1>3, <2>6 DEF CallMove, Moves
    <3>2. lock[call[t].id.slot] = t BY <1>3, <3>1 DEF LockInv
    <3>3. /\ UNCHANGED lock /\ payload[call[t].id.slot] = call[t].id.gen
          /\ call[t].op \in {"write", "body_alloc"} => waiter[call[t].id.slot].at # "taken"
      BY <2>6, <3>1, LockedPasses
    <3> QED BY <2>1, <2>2, <2>3, <2>6, <3>2, <3>3
  <2> QED BY <2>1, <2>2, <2>3, <2>4, <2>5, <2>6
<1> QED BY <1>1, <1>2, <1>3, CallOf

-----------------------------------------------------------------------------
(* Body regions.                                                           *)

(* A pinned slot is a current one of the host, and its word counts a pin.  *)
LEMMA PinnedIs ==
  ASSUME TypeInv, SlotInv, NEW t \in Thread, NEW id \in pins[t]
  PROVE  /\ id \in Id /\ id.slot \in Slot /\ id \in SeenIds /\ id.gen = word[id.slot].gen
         /\ word[id.slot].readers > 0 /\ word[id.slot].state # "Free"
<1>1. id \in Id /\ id.slot \in Slot BY IdNat
<1>2. id \in SeenIds /\ id.gen = word[id.slot].gen BY DEF SlotInv, PinInv
<1>3. IdOf(id.slot) = id BY <1>1, <1>2, SlotNat, IdEqual
<1>4. word[id.slot].readers # 0 BY <1>1, <1>3, NoReaders DEF SlotInv
<1>5. word[id.slot].readers \in Nat BY <1>1, WordNat
<1>6. word[id.slot].state # "Free" BY <1>1, <1>4, PinnedHost DEF SlotInv, HostStates
<1> QED BY <1>1, <1>2, <1>4, <1>5, <1>6

(* A thread's own unpin is all that ends a pin of it.                      *)
LEMMA PinEnds ==
  ASSUME TypeInv, Next, NEW t \in Thread, NEW id \in pins[t], id \notin pins'[t]
  PROVE  id \in SeenIds /\ Unpin(t, id)
<1>1. ~(pins'[t] = pins[t]) OBVIOUS
<1>2. CASE Host
  <2>1. PICK u \in Thread : \/ Bind(u) \/ Begins(u) \/ CallSteps(u)
                           \/ \E x \in SeenIds : Pin(u, x) \/ Unpin(u, x)
    BY <1>2, HostCases
  <2>2. CASE Bind(u) \/ Begins(u) \/ CallSteps(u) BY <1>1, <2>2, BeginFacts, CallFrame
  <2>3. CASE \E x \in SeenIds : Pin(u, x) \/ Unpin(u, x)
    <3>1. PICK x \in SeenIds : Pin(u, x) \/ Unpin(u, x) BY <2>3
    <3>2. pins \in [Thread -> SUBSET Id] BY SlotFacts
    <3>3. CASE Pin(u, x)
      <4>1. pins' = [pins EXCEPT ![u] = pins[u] \cup {x}] BY <3>3 DEF Pin
      <4> QED BY <3>2, <4>1
    <3>4. CASE Unpin(u, x)
      <4>1. pins' = [pins EXCEPT ![u] = pins[u] \ {x}] BY <3>4 DEF Unpin
      <4>2. u = t /\ x = id BY <3>2, <4>1
      <4> QED BY <3>4, <4>2
    <3> QED BY <3>1, <3>3, <3>4
  <2> QED BY <2>1, <2>2, <2>3
<1>3. CASE ~Host
  <2>1. CASE Future
    BY <1>1, <2>1 DEF Future, Allocate, FutureGone, DropFuture, ImportBegin, ImportTake,
       ImportRetire, GuardFrame, threadVars
  <2>2. CASE Turn
    BY <1>1, <2>2 DEF Turn, AllocateExhausted, ReleaseAndAllocate, Drain, LoseLeases, LoseJob,
       SettleDetached, SettleGone, LoadFloor, Release, LateRetire, PostNext, PostEvents, FillJob,
       FillEmpty, Publish, OfferTaken, OfferRefused, threadVars
  <2>3. CASE Attach \/ TargetStops \/ Detach
    BY <1>1, <2>3 DEF Attach, TargetStops, Detach, threadVars
  <2> QED BY <1>3, <2>1, <2>2, <2>3 DEF Next
<1> QED BY <1>2, <1>3

(* A region is opened by body_alloc on a slot without one, and ends with   *)
(* the pin.                                                                *)
Opens(t) ==
  /\ Inside(t) /\ call[t].op = "body_alloc" /\ call[t].at = "inside"
  /\ ~staged[call[t].id.slot]
  /\ staged' = [staged EXCEPT ![call[t].id.slot] = TRUE]
  /\ regions' = [regions EXCEPT ![t] = regions[t] \cup {call[t].id}]

(* Every step opens one region this way, ends one with its pin, or leaves  *)
(* all.                                                                    *)
LEMMA RegionEffect ==
  ASSUME TypeInv, Next
  PROVE  \/ \E t \in Thread : Opens(t)
         \/ UNCHANGED regions
         \/ \E t \in Thread, id \in SeenIds :
              Unpin(t, id) /\ regions' = [regions EXCEPT ![t] = regions[t] \ {id}]
<1>1. CASE Future
  BY <1>1 DEF Future, Allocate, FutureGone, DropFuture, ImportBegin, ImportTake, ImportRetire,
     GuardFrame, threadVars
<1>2. CASE Turn
  BY <1>2 DEF Turn, AllocateExhausted, ReleaseAndAllocate, Drain, LoseLeases, LoseJob,
     SettleDetached, SettleGone, LoadFloor, Release, LateRetire, PostNext, PostEvents, FillJob,
     FillEmpty, Publish, OfferTaken, OfferRefused, threadVars
<1>3. CASE Attach \/ TargetStops \/ Detach BY <1>3 DEF Attach, TargetStops, Detach, threadVars
<1>4. CASE Host
  <2>1. PICK t \in Thread : \/ Bind(t) \/ Begins(t) \/ CallSteps(t)
                           \/ \E id \in SeenIds : Pin(t, id) \/ Unpin(t, id)
    BY <1>4, HostCases
  <2>2. CASE Bind(t) BY <2>2 DEF Bind, threadVars
  <2>3. CASE \E id \in SeenIds : Pin(t, id) \/ Unpin(t, id)
    <3>1. PICK id \in SeenIds : Pin(t, id) \/ Unpin(t, id) BY <2>3
    <3>2. CASE Pin(t, id) BY <3>2 DEF Pin
    <3>3. CASE Unpin(t, id)
      <4>1. regions' = [regions EXCEPT ![t] = regions[t] \ {id}] BY <3>3 DEF Unpin
      <4> QED BY <3>3, <4>1
    <3> QED BY <3>1, <3>2, <3>3
  <2>4. CASE Begins(t) BY <2>4, BeginFacts DEF callFrame
  <2>5. CASE CallSteps(t)
    <3>1. CASE Inside(t) BY <3>1 DEF Inside, Opens, At, CallSlot
    <3>2. CASE ~Inside(t)
      BY <2>5, <3>2 DEF CallSteps, LoadBound, LoadDetaching, LoadEpoch, LoadAcked, ReadView,
         Snapshot, Recheck, Lock, Locked, CompleteCheck, CompleteApply, callFrame
    <3> QED BY <3>1, <3>2
  <2> QED BY <2>1, <2>2, <2>3, <2>4, <2>5
<1> QED BY <1>1, <1>2, <1>3, <1>4 DEF Next

(* The slot of an open region keeps it: the worker takes no response and   *)
(* claims no slot under a pin.                                             *)
LEMMA RegionSlot ==
  ASSUME TypeInv, SlotInv, RegionInv, Next, NEW t \in Thread, NEW id \in regions[t]
  PROVE  staged'[id.slot] /\ waiter'[id.slot].at # "taken"
<1>1. id \in pins[t] /\ staged[id.slot] /\ waiter[id.slot].at # "taken" BY DEF RegionInv
<1>2. /\ id.slot \in Slot /\ word[id.slot].readers > 0 /\ word[id.slot].state # "Free"
  BY <1>1, PinnedIs
<1>3. ~MayTake(id.slot) BY <1>1, <1>2 DEF MayTake
<1> QED BY <1>1, <1>2, <1>3, SlotEffect

(* A step keeps the regions.                                               *)
LEMMA RegionKept == ASSUME TypeInv, SlotInv, LockInv, RegionInv, Next PROVE RegionInv'
<1>0. regions \in [Thread -> SUBSET Id] BY DEF TypeInv, TypeOK, ThreadOK
<1>1. CASE UNCHANGED regions
  <2> SUFFICES ASSUME NEW t \in Thread, NEW id \in regions[t]
               PROVE  /\ id \in pins'[t] /\ staged'[id.slot] /\ waiter'[id.slot].at # "taken"
                      /\ \A u \in Thread \ {t} : id \notin regions[u]
    BY <1>1 DEF RegionInv
  <2>1. id \in pins[t] /\ \A u \in Thread \ {t} : id \notin regions[u] BY DEF RegionInv
  <2>2. ~Unpin(t, id)
    <3>1. SUFFICES ASSUME Unpin(t, id) PROVE FALSE OBVIOUS
    <3>2. regions' = [regions EXCEPT ![t] = regions[t] \ {id}] BY <3>1 DEF Unpin
    <3> QED BY <1>0, <1>1, <3>2
  <2> QED BY <2>1, <2>2, PinEnds, RegionSlot
<1>2. ASSUME NEW u \in Thread, NEW x \in SeenIds, Unpin(u, x),
             regions' = [regions EXCEPT ![u] = regions[u] \ {x}]
      PROVE  RegionInv'
  <2> SUFFICES ASSUME NEW t \in Thread, NEW id \in regions'[t]
               PROVE  /\ id \in pins'[t] /\ staged'[id.slot] /\ waiter'[id.slot].at # "taken"
                      /\ \A v \in Thread \ {t} : id \notin regions'[v]
    BY DEF RegionInv
  <2>1. id \in regions[t] /\ (t = u => id # x) BY <1>0, <1>2
  <2>2. id \in pins[t] /\ \A v \in Thread \ {t} : id \notin regions[v] BY <2>1 DEF RegionInv
  <2>3. \A v \in Thread : regions'[v] \subseteq regions[v] BY <1>0, <1>2
  <2>4. id \in pins'[t]
    <3>1. pins' = [pins EXCEPT ![u] = pins[u] \ {x}] BY <1>2 DEF Unpin
    <3> QED BY <2>1, <2>2, <3>1, SlotFacts
  <2> QED BY <2>1, <2>2, <2>3, <2>4, RegionSlot
<1>3. ASSUME NEW u \in Thread, Opens(u) PROVE RegionInv'
  <2> DEFINE x == call[u].id
  <2>1. /\ ~staged[x.slot] /\ staged' = [staged EXCEPT ![x.slot] = TRUE]
        /\ regions' = [regions EXCEPT ![u] = regions[u] \cup {x}]
        /\ call[u].op = "body_alloc" /\ call[u].at = "inside" /\ CallSteps(u)
    BY <1>3 DEF Opens, CallSteps
  <2>2. UNCHANGED <<pins, waiter>> BY <2>1, CallFrame DEF queueVars
  <2>3. x \in pins[u] /\ waiter[x.slot] # [gen |-> x.gen, at |-> "taken"] BY <2>1 DEF LockInv
  <2>4. x.slot \in Slot /\ x.gen = word[x.slot].gen BY <2>3, PinnedIs
  <2>5. waiter[x.slot].at # "taken"
    <3>1. SUFFICES ASSUME waiter[x.slot].at = "taken" PROVE FALSE OBVIOUS
    <3>2. waiter[x.slot].gen = x.gen BY <2>4, <3>1 DEF SlotInv, WaiterInv
    <3>3. waiter[x.slot] \in Waiter BY <2>4, SlotNat
    <3>4. waiter[x.slot] = [gen |-> x.gen, at |-> "taken"] BY <3>1, <3>2, <3>3 DEF Waiter
    <3> QED BY <2>3, <3>4
  <2>6. \A v \in Thread : x \notin regions[v] BY <2>1 DEF RegionInv
  <2>7. staged'[x.slot]
    <3>1. staged \in [Slot -> BOOLEAN] BY DEF TypeInv, TypeOK, ArenaOK
    <3> QED BY <2>1, <2>4, <3>1
  <2> HIDE DEF x
  <2> SUFFICES ASSUME NEW t \in Thread, NEW id \in regions'[t]
               PROVE  /\ id \in pins'[t] /\ staged'[id.slot] /\ waiter'[id.slot].at # "taken"
                      /\ \A v \in Thread \ {t} : id \notin regions'[v]
    BY DEF RegionInv
  <2>8. CASE id \in regions[t]
    <3>1. id \in pins[t] /\ \A v \in Thread \ {t} : id \notin regions[v] BY <2>8 DEF RegionInv
    <3>2. id # x BY <2>6, <2>8
    <3>3. \A v \in Thread \ {t} : id \notin regions'[v] BY <1>0, <2>1, <3>1, <3>2
    <3> QED BY <2>2, <2>8, <3>1, <3>3, RegionSlot
  <2>9. CASE id \notin regions[t]
    <3>1. t = u /\ id = x BY <1>0, <2>1, <2>9
    <3>2. \A v \in Thread \ {u} : x \notin regions'[v] BY <1>0, <2>1, <2>6
    <3> QED BY <2>2, <2>3, <2>5, <2>7, <3>1, <3>2
  <2> QED BY <2>8, <2>9
<1> QED BY <1>1, <1>2, <1>3, RegionEffect

-----------------------------------------------------------------------------
(* The target, the acknowledgments and the rule.                           *)

(* A step that leaves the target and what is said of it alone.             *)
LEMMA TargetSame ==
  ASSUME TargetInv, UNCHANGED <<detaching, taking, target, attached, era>>,
         inbox'.attach = inbox.attach, inbox'.detach = inbox.detach,
         \/ wpc' = wpc
         \/ /\ wpc \notin {"lose", "lose_jobs"} /\ wpc' \notin {"lose", "lose_jobs"}
            /\ wpc' \in {"gone", "gone_jobs"} => Lost
            /\ wpc' \in {"fill", "offer"} => target # NoTarget
  PROVE  TargetInv'
<1>1. Lost' = Lost /\ \A x : Alive(x)' = Alive(x) BY DEF Lost, Alive
<1>2. Alive(taking)' = Alive(taking) /\ Alive(target)' = Alive(target)
      /\ Alive(inbox.attach)' = Alive(inbox.attach)
  BY <1>1 DEF Alive
<1> QED BY <1>1, <1>2 DEF TargetInv

(* A step keeps what the worker and the hosts know of the target.          *)
LEMMA TargetKept == ASSUME TypeInv, TargetInv, Next PROVE TargetInv'
<1>0. inbox \in [completed: SUBSET Id, attach: {NoTarget} \cup Era, detach: BOOLEAN]
      /\ detaching \in BOOLEAN /\ era \in Era
  BY DEF TypeInv, TypeOK, IntakeOK, TargetOK
<1>1. CASE Future
  <2>1. UNCHANGED <<inbox, detaching, taking, target, attached, era, wpc>>
    BY <1>1 DEF Future, Allocate, FutureGone, DropFuture, ImportBegin, ImportTake, ImportRetire,
       GuardFrame, intakeVars, turnVars, targetVars
  <2> QED BY <2>1, TargetSame
<1>2. CASE Turn
  <2>1. CASE Drain
    <3>1. /\ taking = NoTarget /\ inbox'.attach = NoTarget /\ ~inbox'.detach
          /\ UNCHANGED <<detaching, attached, era>>
      BY <2>1 DEF Drain, TargetInv, targetVars
    <3>2. CASE inbox.detach
      <4>1. wpc' = "lose" /\ taking' = inbox.attach BY <2>1, <3>2 DEF Drain
      <4>2. taking' # NoTarget => Alive(taking)' \/ attached = "stopped"
        BY <3>1, <4>1 DEF TargetInv, Alive
      <4> QED BY <3>1, <3>2, <4>1, <4>2 DEF TargetInv, Lost
    <3>3. CASE ~inbox.detach
      <4>1. /\ wpc = "idle" /\ wpc' = "floor" /\ taking' = taking
            /\ target' \in {target, inbox.attach} BY <2>1, <3>3 DEF Drain
      <4>2. target' # NoTarget => Alive(target)' \/ attached = "stopped"
        BY <3>1, <3>3, <4>1 DEF TargetInv, Alive, Lost
      <4> QED BY <3>1, <3>3, <4>1, <4>2 DEF TargetInv, Lost
    <3> QED BY <3>2, <3>3
  <2>2. CASE LoseLeases
    <3>1. /\ target' = NoTarget /\ UNCHANGED <<inbox, detaching, taking, attached, era>>
          /\ (wpc = "lose" /\ wpc' = "lose_jobs") \/ (wpc = "gone" /\ wpc' = "gone_jobs")
      BY <2>2 DEF LoseLeases, intakeVars, targetVars
    <3>2. Lost' = Lost /\ Alive(taking)' = Alive(taking) /\ Alive(inbox.attach)' = Alive(inbox.attach)
      BY <3>1 DEF Lost, Alive
    <3> QED BY <3>1, <3>2 DEF TargetInv
  <2>3. CASE SettleDetached
    <3>1. /\ wpc = "lose_jobs" /\ wpc' = "floor" /\ target' = taking /\ taking' = NoTarget
          /\ detaching' = (detaching /\ inbox.detach) /\ UNCHANGED <<inbox, attached, era>>
      BY <2>3 DEF SettleDetached, settle, targetVars
    <3>2. Lost' = Lost /\ Alive(target)' = Alive(taking) /\ Alive(inbox.attach)' = Alive(inbox.attach)
      BY <3>1 DEF Lost, Alive
    <3> QED BY <1>0, <3>1, <3>2 DEF TargetInv
  <2>4. CASE SettleGone
    <3>1. /\ wpc = "gone_jobs" /\ wpc' = "idle"
          /\ detaching' = (detaching /\ inbox.detach)
          /\ UNCHANGED <<inbox, attached, era, target, taking>>
      BY <2>4 DEF SettleGone, settle, targetVars, queueVars
    <3>2. Lost' = Lost /\ Alive(target)' = Alive(target) /\ Alive(inbox.attach)' = Alive(inbox.attach)
      BY <3>1 DEF Lost, Alive
    <3> QED BY <1>0, <3>1, <3>2 DEF TargetInv
  <2>5. CASE LoseJob \/ \E id \in late : LateRetire(id)
    BY <2>5, TargetSame DEF LoseJob, LateRetire, intakeVars, turnVars, targetVars
  <2>6. CASE FillJob BY <2>6, TargetSame DEF FillJob, intakeVars, turnVars, targetVars
  <2>7. CASE OfferRefused
    <3>1. /\ wpc = "offer" /\ UNCHANGED <<inbox, detaching, taking, target, attached, era>>
          /\ wpc' = "idle" \/ (wpc' = "gone" /\ ~Alive(target))
      BY <2>7 DEF OfferRefused, targetVars
    <3>2. wpc' = "gone" => Lost BY <3>1 DEF TargetInv
    <3> QED BY <3>1, <3>2, TargetSame
  <2>8. CASE \/ AllocateExhausted \/ ReleaseAndAllocate \/ LoadFloor \/ Release
             \/ PostNext \/ PostEvents \/ FillEmpty \/ Publish \/ OfferTaken
    <3>1. UNCHANGED <<inbox, detaching, taking, target, attached, era>>
      BY <2>8 DEF AllocateExhausted, ReleaseAndAllocate, LoadFloor, Release, PostNext, PostEvents,
         FillEmpty, Publish, OfferTaken, intakeVars, queueVars, targetVars
    <3>2. /\ wpc \in {"idle", "exhausted", "floor", "release", "late", "post", "fill", "offer"}
          /\ wpc' \in {"idle", "exhausted", "release", "late", "post", "fill", "offer"}
          /\ wpc' \in {"fill", "offer"} => target # NoTarget
      BY <2>8 DEF AllocateExhausted, ReleaseAndAllocate, LoadFloor, Release, PostNext, PostEvents,
         FillEmpty, Publish, OfferTaken, TargetInv
    <3> QED BY <3>1, <3>2, TargetSame
  <2> QED BY <1>2, <2>1, <2>2, <2>3, <2>4, <2>5, <2>6, <2>7, <2>8 DEF Turn
<1>3. CASE Attach
  <2>1. /\ attached = "no" /\ attached' = "live" /\ inbox'.attach = era /\ inbox'.detach = inbox.detach
        /\ UNCHANGED <<detaching, taking, target, era, wpc>>
    BY <1>0, <1>3 DEF Attach, threadFrame, queueVars, turnVars
  <2>2. /\ \A x : ~Alive(x)
        /\ Lost => inbox.detach
        /\ inbox.detach => Lost'
        /\ Alive(inbox.attach)'
    BY <2>1 DEF Lost, Alive
  <2> QED BY <2>1, <2>2 DEF TargetInv
<1>4. CASE TargetStops
  <2>1. /\ attached' = "stopped" /\ UNCHANGED <<inbox, detaching, taking, target, wpc>>
    BY <1>4 DEF TargetStops, threadFrame, queueVars, turnVars, intakeVars
  <2> QED BY <2>1 DEF TargetInv, Lost
<1>5. CASE Detach
  <2>1. /\ inbox'.attach = NoTarget /\ inbox'.detach /\ detaching' /\ UNCHANGED <<taking, target, wpc>>
    BY <1>0, <1>5 DEF Detach, threadFrame, queueVars, turnVars
  <2> QED BY <2>1 DEF TargetInv, Lost
<1>6. CASE Host
  <2>1. PICK t \in Thread : \/ Bind(t) \/ Begins(t) \/ CallSteps(t)
                           \/ \E id \in SeenIds : Pin(t, id) \/ Unpin(t, id)
    BY <1>6, HostCases
  <2>2. UNCHANGED <<taking, target, attached, era, wpc>>
    BY <2>1, BeginFacts, CallFrame, PinLeaves DEF queueVars, turnVars, targetVars
  <2>3. UNCHANGED detaching /\ inbox'.attach = inbox.attach /\ inbox'.detach = inbox.detach
    <3>1. CASE Bind(t) BY <3>1 DEF Bind
    <3>2. CASE Begins(t) BY <3>2, BeginFacts DEF callFrame, intakeVars
    <3>3. CASE \E id \in SeenIds : Pin(t, id) \/ Unpin(t, id) BY <3>3, PinLeaves DEF intakeVars
    <3>4. CASE CompleteApply(t)
      <4>1. detaching' = detaching BY <3>4 DEF CompleteApply
      <4>2. inbox' = inbox \/ inbox' = [inbox EXCEPT !.completed = @ \cup {call[t].id}]
        BY <3>4 DEF CompleteApply
      <4> QED BY <1>0, <4>1, <4>2
    <3>5. CASE CallSteps(t) /\ ~CompleteApply(t)
      BY <3>5 DEF CallSteps, LoadBound, LoadDetaching, LoadEpoch, LoadAcked, ReadView, Snapshot,
         Recheck, Lock, Locked, Inside, CompleteCheck, callFrame, intakeVars
    <3> QED BY <2>1, <3>1, <3>2, <3>3, <3>4, <3>5
  <2> QED BY <2>2, <2>3, TargetSame
<1> QED BY <1>1, <1>2, <1>3, <1>4, <1>5, <1>6 DEF Next

(* What a step may do to the rule: a settle, after the loss of the target; *)
(* the end of an era; an acknowledgment; or nothing that ends it.          *)
Settles ==
  /\ detaching \/ attached = "stopped"
  /\ acked' = published /\ (detaching' => detaching)
  /\ bound' = bound \/ (bound' = None /\ attached = "stopped")
  /\ UNCHANGED <<attached, era, call>>
Ends ==
  /\ era' = era + 1 /\ UNCHANGED <<acked, call>>
  /\ \/ attached' = "stopped" /\ UNCHANGED <<bound, detaching>>
     \/ detaching' /\ bound' = None
Accepts(u) ==
  /\ CompleteApply(u) /\ call[u].op = "complete"
  /\ acked' = call[u].epoch /\ acked' = acked + 1 /\ UNCHANGED <<bound, detaching, attached, era>>
Keeps ==
  /\ UNCHANGED <<acked, detaching, era>> /\ (bound' = bound \/ bound = None)
  /\ attached' = attached \/ (attached = "no" /\ attached' = "live")

(* Every step moves the acknowledgments, the bound thread and the target's *)
(* loss in one of these ways.                                              *)
LEMMA RuleEffect ==
  ASSUME TypeInv, TargetInv, Next
  PROVE  Settles \/ Ends \/ (\E u \in Thread : Accepts(u)) \/ Keeps
<1>1. CASE Future
  <2>1. UNCHANGED <<bound, detaching, acked, era, attached>>
    BY <1>1 DEF Future, Allocate, FutureGone, DropFuture, ImportBegin, ImportTake, ImportRetire,
       GuardFrame, intakeVars, targetVars
  <2> QED BY <2>1 DEF Keeps
<1>2. CASE Turn
  <2>1. CASE SettleDetached
    BY <2>1 DEF SettleDetached, settle, TargetInv, Settles, targetVars, threadVars
  <2>2. CASE SettleGone
    BY <2>2 DEF SettleGone, settle, TargetInv, Lost, Settles, targetVars, threadVars
  <2>3. CASE ~(SettleDetached \/ SettleGone)
    <3>1. UNCHANGED <<bound, detaching, acked, era, attached>>
      BY <1>2, <2>3
      DEF Turn, AllocateExhausted, ReleaseAndAllocate, Drain, LoseLeases, LoseJob, LoadFloor,
          Release, LateRetire, PostNext, PostEvents, FillJob, FillEmpty, Publish, OfferTaken,
          OfferRefused, intakeVars, targetVars
    <3> QED BY <3>1 DEF Keeps
  <2> QED BY <2>1, <2>2, <2>3
<1>3. CASE Attach BY <1>3 DEF Attach, Keeps
<1>4. CASE TargetStops \/ Detach
  BY <1>4 DEF TargetStops, Detach, EndEra, Ends, intakeVars
<1>5. CASE Host
  <2>1. PICK t \in Thread : \/ Bind(t) \/ Begins(t) \/ CallSteps(t)
                           \/ \E id \in SeenIds : Pin(t, id) \/ Unpin(t, id)
    BY <1>5, HostCases
  <2>2. CASE Bind(t) BY <2>2 DEF Bind, Keeps, targetVars
  <2>3. CASE Begins(t) BY <2>3, BeginFacts DEF callFrame, intakeVars, targetVars, Keeps
  <2>4. CASE \E id \in SeenIds : Pin(t, id) \/ Unpin(t, id)
    BY <2>4, PinLeaves DEF intakeVars, targetVars, Keeps
  <2>5. CASE CompleteApply(t)
    <3>1. UNCHANGED <<bound, detaching, attached, era>> BY <2>5 DEF CompleteApply, targetVars
    <3>2. \/ acked' = acked
          \/ call[t].epoch # 0 /\ acked' = call[t].epoch /\ call[t].epoch = acked + 1
      BY <2>5 DEF CompleteApply, Acknowledges
    <3>3. call[t].op = "complete" BY <2>5 DEF CompleteApply, At, TypeInv, CallOK
    <3> QED BY <2>5, <3>1, <3>2, <3>3 DEF Keeps, Accepts
  <2>6. CASE CallSteps(t) /\ ~CompleteApply(t)
    <3>1. UNCHANGED <<bound, detaching, acked, era, attached>>
      BY <2>6 DEF CallSteps, LoadBound, LoadDetaching, LoadEpoch, LoadAcked, ReadView, Snapshot,
         Recheck, Lock, Locked, Inside, CompleteCheck, callFrame, intakeVars, targetVars
    <3> QED BY <3>1 DEF Keeps
  <2> QED BY <2>1, <2>2, <2>3, <2>4, <2>5, <2>6
<1> QED BY <1>1, <1>2, <1>3, <1>4, <1>5 DEF Next

(* A call that completes keeps its epoch.                                  *)
LEMMA CompleteKeeps ==
  ASSUME TypeInv, NEW t \in Thread, CallMove(t), call[t].op # "none", call'[t].op = "complete"
  PROVE  call[t].op = "complete" /\ call'[t].epoch = call[t].epoch
<1>1. call[t].op = "complete" BY DEF CallMove
<1>2. call[t].at \in CompleteSteps BY <1>1 DEF TypeInv, CallOK
<1> QED BY <1>1, <1>2 DEF CallMove, Moves, KeepsRule

(* A step keeps the acknowledgments in flight.                             *)
LEMMA AckKept == ASSUME TypeInv, EpochInv, TargetInv, AckInv, Next PROVE AckInv'
<1> SUFFICES ASSUME NEW t \in Thread, call'[t].op = "complete", call'[t].epoch # 0
             PROVE  bound' = t \/ detaching' \/ call'[t].epoch <= acked'
  BY DEF AckInv
<1>1. CASE Begins(t)
  <2>1. bound = t BY <1>1, BeginAs DEF Begun
  <2>2. bound' = bound BY <1>1, BeginFacts DEF callFrame, intakeVars
  <2> QED BY <2>1, <2>2
<1>2. CASE ~Begins(t)
  <2>1. call[t].op = "complete" /\ call'[t].epoch = call[t].epoch
    BY <1>2, CallOf, CompleteKeeps
  <2>2. bound = t \/ detaching \/ call[t].epoch <= acked BY <2>1 DEF AckInv
  <2>3. call[t].epoch <= published
    <3>1. call[t].epoch \in Nat BY LeaseAssumption, SlotFacts DEF Call
    <3>2. call[t].epoch <= delivered /\ delivered <= Posted BY <2>1 DEF EpochInv
    <3>3. Posted <= published BY EpochNat DEF Posted
    <3> QED BY <3>1, <3>2, <3>3, EpochNat
  <2>4. CASE Settles BY <2>1, <2>3, <2>4 DEF Settles
  <2>5. CASE Ends BY <2>1, <2>2, <2>5 DEF Ends
  <2>6. ASSUME NEW u \in Thread, Accepts(u) PROVE bound' = t \/ detaching' \/ call'[t].epoch <= acked'
    <3>1. call[t].epoch \in Nat BY LeaseAssumption, SlotFacts DEF Call
    <3> QED BY <2>1, <2>2, <2>6, <3>1, EpochNat DEF Accepts
  <2>7. CASE Keeps
    <3>1. t # None BY LeaseAssumption
    <3> QED BY <2>1, <2>2, <2>7, <3>1 DEF Keeps
  <2> QED BY <2>4, <2>5, <2>6, <2>7, RuleEffect
<1> QED BY <1>1, <1>2

(* What hosts were given stays given.                                      *)
LEMMA SeenGrows ==
  ASSUME TypeInv, EpochInv, Next
  PROVE  SeenIds \subseteq SeenIds' /\ delivered <= delivered'
<1>1. CASE OfferTaken
  <2>1. seen \subseteq seen' /\ delivered' = published BY <1>1 DEF OfferTaken
  <2>2. delivered <= published
    <3>1. delivered <= Posted BY DEF EpochInv
    <3>2. Posted <= published BY EpochNat DEF Posted
    <3> QED BY <3>1, <3>2, EpochNat
  <2> QED BY <2>1, <2>2 DEF SeenIds
<1>2. CASE ~OfferTaken
  <2>1. UNCHANGED <<seen, delivered>>
    <3>1. CASE Future
      BY <3>1 DEF Future, Allocate, FutureGone, DropFuture, ImportBegin, ImportTake, ImportRetire,
         GuardFrame, targetVars
    <3>2. CASE Turn
      BY <1>2, <3>2 DEF Turn, AllocateExhausted, ReleaseAndAllocate, Drain, LoseLeases, LoseJob,
         SettleDetached, SettleGone, LoadFloor, Release, LateRetire, PostNext, PostEvents, FillJob,
         FillEmpty, Publish, OfferRefused, targetVars
    <3>3. CASE Attach \/ TargetStops \/ Detach BY <3>3 DEF Attach, TargetStops, Detach
    <3>4. CASE Host
      <4>1. PICK t \in Thread : \/ Bind(t) \/ Begins(t) \/ CallSteps(t)
                               \/ \E id \in SeenIds : Pin(t, id) \/ Unpin(t, id)
        BY <3>4, HostCases
      <4> QED BY <4>1, BeginFacts, CallFrame, PinLeaves DEF targetVars
    <3> QED BY <3>1, <3>2, <3>3, <3>4 DEF Next
  <2> QED BY <2>1, EpochNat DEF SeenIds
<1> QED BY <1>1, <1>2

(* A slot delivered in epoch e stays until e is acknowledged: a retirement *)
(* is stamped with an epoch at least e, and a release stops before it.     *)
LEMMA RetainedKept ==
  ASSUME TypeInv, EpochInv, SlotInv, Next, NEW id \in SeenIds, NEW e \in Nat, e <= delivered, e > acked,
         Retained(id, e)
  PROVE  Retained(id, e)'
<1>1. id.slot \in Slot /\ id.gen \in Nat BY GenGrows, IdNat
<1>2. word'[id.slot].gen = word[id.slot].gen \/ Retires(id.slot) BY <1>1, GenEffect
<1>3. CASE word[id.slot].gen = id.gen
  <2>1. CASE word'[id.slot].gen = word[id.slot].gen BY <1>3, <2>1 DEF Retained
  <2>2. CASE Retires(id.slot)
    <3>1. /\ word'[id.slot].gen = id.gen + 1 /\ wpc # "offer"
          /\ quarantine' = Append(quarantine, <<id.slot, Stamp>>)
      BY <1>3, <2>2 DEF Retires
    <3>2. /\ quarantine'[Len(quarantine')] = <<id.slot, published>>
          /\ Len(quarantine') \in 1..Len(quarantine')
      BY <1>1, <3>1, Quarantines, ListNat
    <3>3. e <= published
      <4>1. delivered <= published BY <3>1 DEF EpochInv, Posted
      <4> QED BY <4>1, EpochNat
    <3>4. published >= e BY <3>3, EpochNat
    <3> QED BY <3>1, <3>2, <3>4 DEF Retained
  <2> QED BY <1>2, <2>1, <2>2
<1>4. CASE word[id.slot].gen # id.gen
  <2>1. PICK k \in 1..Len(quarantine) : quarantine[k][1] = id.slot /\ quarantine[k][2] >= e
    BY <1>4 DEF Retained
  <2>2. word[id.slot].gen = id.gen + 1 BY <1>4 DEF Retained
  <2>3. word[id.slot].state = "Free" BY <1>1, <2>1 DEF SlotInv, ListInv, Quarantined
  <2>4. word'[id.slot].gen = id.gen + 1 BY <1>2, <2>2, <2>3 DEF Retires
  <2> SUFFICES \E m \in 1..Len(quarantine') : quarantine'[m] = quarantine[k]
    BY <2>1, <2>4 DEF Retained
  <2>5. CASE quarantine' = quarantine BY <2>5
  <2>6. ASSUME NEW n \in 0..Len(quarantine), Releasable(n),
               quarantine' = SubSeq(quarantine, n + 1, Len(quarantine))
        PROVE  \E m \in 1..Len(quarantine') : quarantine'[m] = quarantine[k]
    <3>1. floor < e BY EpochNat DEF EpochInv
    <3>2. quarantine[k][2] > floor BY <2>1, <3>1, EpochNat
    <3>3. k \notin 1..n
      <4>1. SUFFICES ASSUME k \in 1..n PROVE FALSE OBVIOUS
      <4>2. quarantine[k][2] <= floor BY <2>6, <4>1 DEF Releasable
      <4> QED BY <3>2, <4>2, EpochNat
    <3>4. n \in Nat /\ Len(quarantine) \in Nat /\ Len(quarantine') = Len(quarantine) - n
      BY <2>6, ListNat, Releases
    <3>5. k - n \in 1..Len(quarantine') /\ n + (k - n) = k BY <3>3, <3>4
    <3>6. quarantine'[k - n] = quarantine[k] BY <2>6, <3>5, Releases
    <3> QED BY <3>5, <3>6
  <2>7. ASSUME NEW i \in Slot, quarantine' = Append(quarantine, <<i, Stamp>>)
        PROVE  \E m \in 1..Len(quarantine') : quarantine'[m] = quarantine[k]
    BY <2>7, Quarantines
  <2> QED BY <2>5, <2>6, <2>7, QuarantineCases
<1> QED BY <1>3, <1>4

(* A call that goes on touches only its own words and the locks.           *)
LEMMA MoveLeaves ==
  ASSUME TypeInv, NEW t \in Thread, CallSteps(t), call'[t].op # "none"
  PROVE  UNCHANGED <<word, lease_epoch, payload, quarantine, bound, detaching, acked, era, attached,
                     delivered, seen, pins, waiter>>
<1>1. ~CompleteApply(t) BY ReturnFacts DEF CompleteApply, NoCall
<1>2. UNCHANGED <<bound, detaching, acked>>
  BY <1>1 DEF CallSteps, LoadBound, LoadDetaching, LoadEpoch, LoadAcked, ReadView, Snapshot,
     Recheck, Lock, Locked, Inside, CompleteCheck, callFrame, intakeVars
<1> QED BY <1>2, CallFrame DEF allocVars, queueVars, targetVars

(* The rule of a call bound in an era, for one thread.                     *)
Current(t) == call[t].era = era /\ attached # "stopped"
RuleOf(t) ==
  /\ call[t].era <= era
  /\ Current(t) => bound = t
  /\ Current(t) /\ call[t].at # "detaching" => ~detaching
  /\ call[t].id.gen = word[call[t].id.slot].gen /\ call[t].at \notin {"detaching", "epoch"} =>
       call[t].epoch = lease_epoch[call[t].id.slot]
  /\ Current(t) /\ call[t].at \notin {"detaching", "epoch", "acked"} => call[t].epoch > acked
  /\ call[t].at = "inside" =>
       call[t].epoch <= delivered /\ (Current(t) => Retained(call[t].id, call[t].epoch))

(* The rule of a call in flight, taken apart for the proofs below.         *)
LEMMA RuleParts ==
  RuleInv <=> \A t \in Thread : call[t].op \in {"view", "pinned_read"} =>
                IF call[t].era = 0 THEN call[t].at # "bound" => call[t].id \in pins[t] ELSE RuleOf(t)
BY DEF RuleInv, RuleOf, Current

(* The numbers of a call.                                                  *)
LEMMA CallNat ==
  ASSUME TypeInv
  PROVE  /\ \A t \in Thread : call[t].era \in Nat /\ call[t].epoch \in Nat
         /\ era \in Nat /\ era # 0
<1>1. \A c \in Call : c.era \in Nat /\ c.epoch \in Nat BY LeaseAssumption DEF Call
<1> QED BY <1>1, SlotFacts, LeaseAssumption DEF TypeInv, TypeOK, TargetOK

(* A call under the rule that does not move keeps what it loaded: the      *)
(* thread stays bound, the floor behind its epoch, or the era ends.        *)
LEMMA RuleStays ==
  ASSUME TypeInv, EpochInv, SlotInv, TargetInv, AckInv, Next, NEW t \in Thread,
         call[t].op \in {"view", "pinned_read"}, call'[t] = call[t], call[t].era # 0, RuleOf(t)
  PROVE  RuleOf(t)'
<1> DEFINE c == call[t]
<1>1. c.id \in SeenIds BY DEF SlotInv, HandedInv
<1>2. c.era \in Nat /\ c.epoch \in Nat /\ era \in Nat /\ c.era <= era BY CallNat DEF RuleOf
<1>3. c.era <= era' BY <1>2, RuleEffect DEF Settles, Ends, Accepts, Keeps
<1>4. Current(t)' => Current(t) /\ ~Ends
  BY <1>2, RuleEffect DEF Current, Settles, Ends, Accepts, Keeps
<1>5. t # None BY LeaseAssumption
<1>6. Current(t)' => bound' = t
  BY <1>4, <1>5, RuleEffect DEF RuleOf, Current, Settles, Accepts, Keeps
<1>7. Current(t)' /\ c.at # "detaching" => ~detaching'
  BY <1>4, RuleEffect DEF RuleOf, Current, Settles, Accepts, Keeps
<1>8. c.id.gen = word'[c.id.slot].gen /\ c.at \notin {"detaching", "epoch"} =>
        c.epoch = lease_epoch'[c.id.slot]
  <2>1. SUFFICES ASSUME c.id.gen = word'[c.id.slot].gen, c.at \notin {"detaching", "epoch"}
                 PROVE  c.epoch = lease_epoch'[c.id.slot]
    OBVIOUS
  <2>2. c.id.gen = word[c.id.slot].gen BY <1>1, <2>1, GenGrows
  <2>3. c.id.slot \in Slot /\ word[c.id.slot].state # "WorkerOwned" BY <1>1, <2>2, SeenCurrent
  <2>4. c.epoch = lease_epoch[c.id.slot] BY <2>1, <2>2 DEF RuleOf
  <2> QED BY <2>3, <2>4, SlotEffect
<1>9. Current(t)' /\ c.at \notin {"detaching", "epoch", "acked"} => c.epoch > acked'
  <2>1. SUFFICES ASSUME Current(t)', c.at \notin {"detaching", "epoch", "acked"}
                 PROVE  c.epoch > acked'
    OBVIOUS
  <2>2. c.epoch > acked /\ bound = t /\ ~detaching /\ attached # "stopped"
    BY <1>4, <2>1 DEF RuleOf, Current
  <2>3. ~Settles BY <2>2 DEF Settles
  <2>4. ASSUME NEW u \in Thread, Accepts(u) PROVE FALSE
    <3>1. call[u].op = "complete" /\ call[u].epoch = acked + 1 BY <2>4 DEF Accepts
    <3>2. call[u].epoch # 0 /\ ~(call[u].epoch <= acked) BY <3>1, EpochNat
    <3>3. bound = u BY <2>2, <3>1, <3>2 DEF AckInv
    <3> QED BY <2>2, <3>1, <3>3
  <2> QED BY <1>4, <2>1, <2>2, <2>3, <2>4, RuleEffect DEF Keeps
<1>10. c.at = "inside" => c.epoch <= delivered' /\ (Current(t)' => Retained(c.id, c.epoch)')
  <2>1. SUFFICES ASSUME c.at = "inside"
                 PROVE  c.epoch <= delivered' /\ (Current(t)' => Retained(c.id, c.epoch)')
    OBVIOUS
  <2>2. c.epoch <= delivered BY <2>1 DEF RuleOf
  <2>3. delivered <= delivered' /\ delivered \in Nat /\ delivered' \in Nat
    <3>1. delivered' \in Nat
      <4>1. TypeInv' BY StepTyped
      <4> QED BY <4>1, LeaseAssumption DEF TypeInv, TypeOK, TargetOK
    <3> QED BY <3>1, SeenGrows, EpochNat
  <2>4. ASSUME Current(t)' PROVE Retained(c.id, c.epoch)'
    <3>1. Current(t) BY <1>4, <2>4
    <3>2. c.epoch > acked /\ Retained(c.id, c.epoch) BY <2>1, <3>1 DEF RuleOf
    <3>3. PICK id \in SeenIds, e \in Nat : id = call[t].id /\ e = call[t].epoch BY <1>1, <1>2
    <3>4. Retained(id, e)' BY <2>2, <3>2, <3>3, RetainedKept
    <3>5. call'[t].id = id /\ call'[t].epoch = e BY <3>3
    <3> QED BY <3>4, <3>5 DEF Retained
  <2> QED BY <1>2, <2>2, <2>3, <2>4
<1> QED BY <1>3, <1>6, <1>7, <1>8, <1>9, <1>10 DEF RuleOf

(* A call under the rule that moves on: each load adds what it checks.     *)
LEMMA RuleMoves ==
  ASSUME TypeInv, EpochInv, SlotInv, StepInv, NEW t \in Thread, CallSteps(t), CallMove(t),
         call[t].op \in {"view", "pinned_read"}, call'[t].era # 0,
         call[t].era # 0 => RuleOf(t)
  PROVE  RuleOf(t)'
<1>1. call'[t].op = call[t].op /\ call'[t].id = call[t].id BY DEF CallMove
<1>2. UNCHANGED <<word, lease_epoch, quarantine, bound, detaching, acked, era, attached, delivered>>
  BY <1>1, MoveLeaves
<1>4. CASE Moves(t, "bound", "detaching")
  BY <1>1, <1>2, <1>4, CallNat DEF CallMove, Moves, RuleOf, Current
<1>5. CASE Moves(t, "locked", "inside")
  <2>1. Locked(t) /\ KeepsRule(t) BY <1>5 DEF CallMove, Moves
  <2>2. ~Return(t) BY <1>5, ReturnFacts DEF NoCall, Moves
  <2>3. check(word[call[t].id.slot], call[t].id.gen, AccessStates(call[t].op))
    BY <2>1, <2>2 DEF Locked, CallWord, CallSlot
  <2>4. call[t].id.gen = word[call[t].id.slot].gen BY <2>3 DEF check
  <2>5. call[t].id \in SeenIds BY DEF SlotInv, HandedInv
  <2>6. lease_epoch[call[t].id.slot] <= delivered BY <2>4, <2>5, SeenCurrent
  <2>7. RuleOf(t) /\ call[t].at = "locked" BY <1>5, <2>1 DEF KeepsRule, Moves
  <2>8. call[t].epoch <= delivered BY <2>4, <2>6, <2>7 DEF RuleOf
  <2>9. Retained(call[t].id, call[t].epoch)' BY <1>1, <1>2, <2>4 DEF Retained
  <2> QED BY <1>1, <1>2, <1>5, <2>1, <2>7, <2>8, <2>9 DEF RuleOf, Current, KeepsRule, Moves
<1>6. CASE ~Moves(t, "bound", "detaching") /\ ~Moves(t, "locked", "inside")
  <2>1. call'[t].at # "inside" /\ call'[t].era = call[t].era
    BY <1>6 DEF CallMove, Moves, KeepsRule
  <2>2. RuleOf(t) BY <2>1
  <2> QED BY <1>1, <1>2, <1>6, <2>1, <2>2 DEF CallMove, Moves, KeepsRule, RuleOf, Current
<1> QED BY <1>4, <1>5, <1>6

(* A step keeps what the calls under the rule have established.            *)
LEMMA RuleKept ==
  ASSUME TypeInv, EpochInv, SlotInv, TargetInv, AckInv, StepInv, RuleInv, Next
  PROVE  RuleInv'
<1> SUFFICES ASSUME NEW t \in Thread, call'[t].op \in {"view", "pinned_read"}
             PROVE  IF call'[t].era = 0 THEN call'[t].at # "bound" => call'[t].id \in pins'[t]
                    ELSE RuleOf(t)'
  <2>1. (RuleInv <=> \A t \in Thread : call[t].op \in {"view", "pinned_read"} =>
           IF call[t].era = 0 THEN call[t].at # "bound" => call[t].id \in pins[t] ELSE RuleOf(t))'
    BY RuleParts, PTL
  <2> QED BY <2>1
<1>1. CASE call'[t] = call[t]
  <2>1. pins'[t] = pins[t] BY <1>1, PinsEffect DEF Idle
  <2>2. CASE call[t].era = 0 BY <1>1, <2>1, <2>2, RuleParts
  <2>3. CASE call[t].era # 0
    <3>1. RuleOf(t) BY <1>1, <2>3, RuleParts
    <3> QED BY <1>1, <2>3, <3>1, RuleStays
  <2> QED BY <2>2, <2>3
<1>2. CASE Begins(t)
  <2>1. call'[t].era = 0 /\ UNCHANGED pins BY <1>2, BeginFacts DEF callFrame
  <2>2. Begun(t, call'[t]) BY <1>2, BeginAs
  <2> QED BY <2>1, <2>2 DEF Begun
<1>3. CASE CallSteps(t) /\ CallMove(t) /\ call[t].op # "none"
  <2>1. call'[t].op = call[t].op /\ call'[t].id = call[t].id BY <1>3 DEF CallMove
  <2>2. CASE call'[t].era = 0
    <3>1. pins' = pins BY <1>3, <2>1, MoveLeaves
    <3>2. call[t].era = 0 /\ call[t].at # "bound"
      BY <1>3, <2>2, CallNat DEF CallMove, Moves, KeepsRule
    <3> QED BY <2>1, <2>2, <3>1, <3>2, RuleParts
  <2>3. CASE call'[t].era # 0
    <3>1. call[t].era # 0 => RuleOf(t) BY <2>1, RuleParts
    <3> QED BY <1>3, <2>1, <2>3, <3>1, RuleMoves
  <2> QED BY <2>2, <2>3
<1> QED BY <1>1, <1>2, <1>3, CallOf

-----------------------------------------------------------------------------
(* The pointers hosts may still read.                                      *)

(* What protects a view under the rule.                                    *)
ViewOf(v) ==
  /\ v.era = era /\ RuleHolds(v.thread, v.epoch) /\ v.epoch <= delivered
  /\ v.id \in SeenIds /\ Retained(v.id, v.epoch)

(* ViewInv says that of every pointer handed out without a pin.            *)
LEMMA ViewParts ==
  ViewInv <=> \A v \in views : IF v.era = 0 THEN v.id \in pins[v.thread] ELSE ViewOf(v)
BY DEF ViewInv, ViewOf

(* The rule protects a view until the era ends or its epoch is             *)
(* acknowledged.                                                           *)
LEMMA ViewStays ==
  ASSUME TypeInv, EpochInv, SlotInv, TargetInv, AckInv, Next, NEW v \in View, ViewOf(v), ~Ends,
         \A u \in Thread : Accepts(u) => ~(v.thread = u /\ v.epoch <= call[u].epoch)
  PROVE  ViewOf(v)'
<1>1. v.thread \in Thread /\ v.epoch \in Nat BY LeaseAssumption DEF View
<1>2. /\ bound = v.thread /\ ~detaching /\ attached # "stopped" /\ v.epoch > acked
      /\ v.era = era /\ v.epoch <= delivered /\ v.id \in SeenIds /\ Retained(v.id, v.epoch)
  BY DEF ViewOf, RuleHolds
<1>3. v.thread # None BY <1>1, LeaseAssumption
<1>4. ~Settles BY <1>2 DEF Settles
<1>5. ASSUME NEW u \in Thread, Accepts(u) PROVE v.era = era' /\ RuleHolds(v.thread, v.epoch)'
  <2>1. /\ call[u].op = "complete" /\ call[u].epoch = acked + 1 /\ acked' = call[u].epoch
        /\ UNCHANGED <<bound, detaching, attached, era>>
    BY <1>5 DEF Accepts
  <2>2. call[u].epoch # 0 /\ ~(call[u].epoch <= acked) BY <2>1, EpochNat
  <2>3. bound = u BY <1>2, <2>1, <2>2 DEF AckInv
  <2>4. v.epoch > acked' BY <1>1, <1>2, <1>5, <2>1, <2>3, EpochNat
  <2> QED BY <1>2, <2>1, <2>4 DEF RuleHolds
<1>6. v.era = era' /\ RuleHolds(v.thread, v.epoch)'
  BY <1>2, <1>3, <1>4, <1>5, RuleEffect DEF Keeps, RuleHolds
<1>7. Retained(v.id, v.epoch)'
  <2>1. PICK id \in SeenIds, e \in Nat : id = v.id /\ e = v.epoch BY <1>1, <1>2
  <2>2. Retained(id, e)' BY <1>2, <2>1, RetainedKept
  <2> QED BY <2>1, <2>2 DEF Retained
<1>8. v.id \in SeenIds' /\ v.epoch <= delivered'
  <2>1. TypeInv' BY StepTyped
  <2>2. delivered' \in Nat BY <2>1, LeaseAssumption DEF TypeInv, TypeOK, TargetOK
  <2> QED BY <1>1, <1>2, <2>2, SeenGrows, EpochNat
<1> QED BY <1>6, <1>7, <1>8 DEF ViewOf

(* The steps that change which pointers may be read.                       *)
LEMMA ViewCases ==
  ASSUME TypeInv, Next
  PROVE  \/ UNCHANGED <<views, pins>> /\ ~Ends /\ \A u \in Thread : ~Accepts(u)
         \/ TargetStops \/ Detach
         \/ \E t \in Thread : \/ \E id \in SeenIds : Pin(t, id) \/ Unpin(t, id)
                              \/ Recheck(t) \/ Inside(t) \/ CompleteApply(t)
<1>0. era \in Nat /\ era # era + 1 BY CallNat
<1>1. CASE Future
  <2>1. UNCHANGED <<views, pins, era, acked>>
    BY <1>1 DEF Future, Allocate, FutureGone, DropFuture, ImportBegin, ImportTake, ImportRetire,
       GuardFrame, threadVars, intakeVars, targetVars
  <2> QED BY <1>0, <2>1, EpochNat DEF Ends, Accepts
<1>2. CASE Turn
  <2>1. UNCHANGED <<views, pins, era, call>>
    BY <1>2 DEF Turn, AllocateExhausted, ReleaseAndAllocate, Drain, LoseLeases, LoseJob,
       SettleDetached, SettleGone, LoadFloor, Release, LateRetire, PostNext, PostEvents, FillJob,
       FillEmpty, Publish, OfferTaken, OfferRefused, threadVars, targetVars
  <2>2. \A u \in Thread : ~CompleteApply(u)
    BY <2>1, ReturnFacts DEF CompleteApply, At, NoCall
  <2> QED BY <1>0, <2>1, <2>2 DEF Ends, Accepts
<1>3. CASE Attach
  <2>1. UNCHANGED <<views, pins, era, acked>> BY <1>3 DEF Attach, threadVars
  <2> QED BY <1>0, <2>1, EpochNat DEF Ends, Accepts
<1>4. CASE Host
  <2>1. PICK t \in Thread : \/ Bind(t) \/ Begins(t) \/ CallSteps(t)
                           \/ \E id \in SeenIds : Pin(t, id) \/ Unpin(t, id)
    BY <1>4, HostCases
  <2>2. CASE Bind(t)
    <3>1. UNCHANGED <<views, pins, era, acked>> BY <2>2 DEF Bind, threadVars, targetVars
    <3> QED BY <1>0, <3>1, EpochNat DEF Ends, Accepts
  <2>3. CASE Begins(t)
    <3>1. UNCHANGED <<views, pins, era, acked>>
      BY <2>3, BeginFacts DEF callFrame, intakeVars, targetVars
    <3> QED BY <1>0, <3>1, EpochNat DEF Ends, Accepts
  <2>4. CASE CallSteps(t) /\ ~Recheck(t) /\ ~Inside(t) /\ ~CompleteApply(t)
    <3>1. UNCHANGED <<views, acked>>
      BY <2>4 DEF CallSteps, LoadBound, LoadDetaching, LoadEpoch, LoadAcked, ReadView, Snapshot,
         Lock, Locked, CompleteCheck, callFrame, intakeVars
    <3>2. UNCHANGED <<pins, era>> BY <2>4, CallFrame DEF targetVars
    <3> QED BY <1>0, <3>1, <3>2, EpochNat DEF Ends, Accepts
  <2> QED BY <2>1, <2>2, <2>3, <2>4
<1> QED BY <1>1, <1>2, <1>3, <1>4 DEF Next

(* The pointers are views.                                                 *)
LEMMA ViewsTyped == ASSUME TypeInv PROVE views \subseteq View
BY DEF TypeInv, TypeOK, ThreadOK

(* A pointer handed out by the end of a call.                              *)
LEMMA HandedOut ==
  ASSUME TypeInv, EpochInv, SlotInv, RuleInv, NEW t \in Thread, Recheck(t) \/ Inside(t),
         NEW v \in views', v \notin views
  PROVE  v \in View /\ IF v.era = 0 THEN v.id \in pins[v.thread] ELSE ViewOf(v)
<1> DEFINE c == call[t]
<1>1. /\ c.op \in {"view", "pinned_read"} /\ HandOut(t)
      /\ v = [thread |-> t, id |-> c.id, era |-> c.era, epoch |-> c.epoch]
      /\ c.era = 0 \/ (c.era = era /\ attached # "stopped")
  BY DEF Recheck, Inside, HandOut
<1>2. v.thread = t /\ v.id = c.id /\ v.era = c.era /\ v.epoch = c.epoch BY <1>1
<1>3. c.id \in SeenIds BY <1>1 DEF SlotInv, HandedInv
<1>4. v \in View
  <2>1. c.op # "none" BY <1>1
  <2>2. c \in Call /\ c.id \in Id BY <2>1, SlotFacts DEF TypeInv, CallOK
  <2> QED BY <1>1, <2>2 DEF View, Call
<1>5. c.at \in {"recheck", "inside"} BY DEF Recheck, Inside, At
<1>6. CASE c.era = 0
  <2>1. c.id \in pins[t] BY <1>1, <1>5, <1>6, RuleParts
  <2> QED BY <1>2, <1>4, <1>6, <2>1
<1>7. CASE c.era # 0
  <2>1. RuleOf(t) /\ Current(t) BY <1>1, <1>7, RuleParts DEF Current
  <2>2. bound = t /\ ~detaching /\ attached # "stopped" /\ c.epoch > acked /\ c.era = era
    BY <1>5, <2>1 DEF RuleOf, Current
  <2>3. c.epoch <= delivered /\ Retained(c.id, c.epoch)
    <3>1. CASE c.at = "inside" BY <2>1, <3>1 DEF RuleOf
    <3>2. CASE Recheck(t)
      <4>1. check_lease(word[c.id.slot], c.id.gen)
        <5>1. views' # views OBVIOUS
        <5> QED BY <3>2, <5>1 DEF Recheck, CallWord, CallSlot
      <4>2. c.id.gen = word[c.id.slot].gen BY <4>1 DEF check_lease, check
      <4>3. lease_epoch[c.id.slot] <= delivered BY <1>3, <4>2, SeenCurrent
      <4>4. c.epoch = lease_epoch[c.id.slot] BY <1>5, <2>1, <4>2 DEF RuleOf
      <4> QED BY <4>2, <4>3, <4>4 DEF Retained
    <3> QED BY <3>1, <3>2 DEF Inside, At
  <2>4. ViewOf(v) BY <1>2, <1>3, <2>2, <2>3 DEF ViewOf, RuleHolds
  <2> QED BY <1>2, <1>4, <1>7, <2>4
<1> QED BY <1>6, <1>7

(* The pointers an unpin leaves to the rule.                               *)
LEMMA Unpinned ==
  ASSUME TypeInv, EpochInv, SlotInv, NEW t \in Thread, NEW id \in SeenIds, Unpin(t, id),
         NEW v \in views'
  PROVE  \/ v \in views /\ ~(v.thread = t /\ v.id = id /\ v.era = 0)
         \/ v \in View /\ v.era # 0 /\ ViewOf(v)
<1>1. SUFFICES ASSUME ~(v \in views /\ ~(v.thread = t /\ v.id = id /\ v.era = 0))
               PROVE  v \in View /\ v.era # 0 /\ ViewOf(v)
  OBVIOUS
<1>2. PICK w \in views : /\ w.thread = t /\ w.id = id /\ Rule(t, id.slot)
                         /\ v = [w EXCEPT !.era = era, !.epoch = lease_epoch[id.slot]]
  BY <1>1 DEF Unpin
<1>3. id \in pins[t] BY DEF Unpin
<1>4. id.slot \in Slot /\ id.gen = word[id.slot].gen BY <1>3, PinnedIs
<1>5. lease_epoch[id.slot] <= delivered BY <1>4, SeenCurrent
<1>6. w \in View BY ViewsTyped
<1>7. era \in Era /\ lease_epoch[id.slot] \in Epoch
  BY <1>4, SlotFacts DEF TypeInv, TypeOK, TargetOK
<1>8. /\ v \in View /\ v.thread = t /\ v.id = id /\ v.era = era /\ v.epoch = lease_epoch[id.slot]
  BY <1>2, <1>6, <1>7 DEF View
<1>9. Retained(id, lease_epoch[id.slot]) BY <1>4 DEF Retained
<1>10. RuleHolds(t, lease_epoch[id.slot]) BY <1>2 DEF Rule, RuleHolds
<1> QED BY <1>5, <1>8, <1>9, <1>10, CallNat DEF ViewOf

(* A step keeps every pointer that may be read protected.                  *)
LEMMA ViewKept ==
  ASSUME TypeInv, EpochInv, SlotInv, TargetInv, AckInv, RuleInv, ViewInv, Next
  PROVE  ViewInv'
<1> SUFFICES ASSUME NEW v \in views'
             PROVE  IF v.era = 0 THEN v.id \in pins'[v.thread] ELSE ViewOf(v)'
  <2>1. (ViewInv <=> \A v \in views : IF v.era = 0 THEN v.id \in pins[v.thread] ELSE ViewOf(v))'
    BY ViewParts, PTL
  <2> QED BY <2>1
<1>0. views \subseteq View BY ViewsTyped
<1>1. CASE UNCHANGED <<views, pins>> /\ ~Ends /\ \A u \in Thread : ~Accepts(u)
  <2>1. v \in views /\ v \in View BY <1>0, <1>1
  <2> QED BY <1>1, <2>1, ViewStays, ViewParts
<1>2. CASE TargetStops \/ Detach
  <2>1. UNCHANGED pins /\ EndEra BY <1>2 DEF TargetStops, Detach
  <2>2. \/ v \in views /\ v.era = 0
        \/ \E w \in views : v = [w EXCEPT !.era = 0] /\ w.id \in pins[w.thread]
    BY <2>1 DEF EndEra, RuleEnded
  <2>3. CASE v \in views /\ v.era = 0 BY <2>1, <2>3, ViewParts
  <2>4. ASSUME NEW w \in views, v = [w EXCEPT !.era = 0], w.id \in pins[w.thread]
        PROVE  v.era = 0 /\ v.id \in pins[v.thread]
    <3>1. w \in View BY ViewsTyped
    <3>2. v.era = 0 /\ v.id = w.id /\ v.thread = w.thread BY <2>4, <3>1 DEF View
    <3> QED BY <2>4, <3>2
  <2> QED BY <2>1, <2>2, <2>3, <2>4
<1>3. ASSUME NEW t \in Thread, NEW id \in SeenIds, Pin(t, id) \/ Unpin(t, id)
      PROVE  IF v.era = 0 THEN v.id \in pins'[v.thread] ELSE ViewOf(v)'
  <2>1. UNCHANGED <<acked, era>> BY <1>3, PinLeaves DEF intakeVars, targetVars
  <2>2. ~Ends /\ \A u \in Thread : ~Accepts(u) BY <2>1, EpochNat, CallNat DEF Ends, Accepts
  <2>3. ASSUME ViewOf(v), v \in View PROVE ViewOf(v)' BY <2>2, <2>3, ViewStays
  <2>4. CASE Pin(t, id)
    <3>1. views' = views /\ pins' = [pins EXCEPT ![t] = pins[t] \cup {id}] BY <2>4 DEF Pin
    <3>2. v \in views /\ v \in View /\ v.thread \in Thread BY <1>0, <3>1 DEF View
    <3>3. pins[v.thread] \subseteq pins'[v.thread] BY <3>1, <3>2, SlotFacts
    <3> QED BY <2>3, <3>2, <3>3, ViewParts
  <2>5. CASE Unpin(t, id)
    <3>1. pins' = [pins EXCEPT ![t] = pins[t] \ {id}] BY <2>5 DEF Unpin
    <3>2. CASE v \in views /\ ~(v.thread = t /\ v.id = id /\ v.era = 0)
      <4>1. v \in View /\ v.thread \in Thread BY <1>0, <3>2 DEF View
      <4>2. v.era = 0 => v.id \in pins'[v.thread] BY <3>1, <3>2, <4>1, SlotFacts, ViewParts
      <4>3. v.era # 0 => ViewOf(v) BY <3>2, ViewParts
      <4> QED BY <2>3, <4>1, <4>2, <4>3
    <3>3. CASE v \in View /\ v.era # 0 /\ ViewOf(v) BY <2>3, <3>3
    <3> QED BY <2>5, <3>2, <3>3, Unpinned
  <2> QED BY <1>3, <2>4, <2>5
<1>4. ASSUME NEW t \in Thread, Recheck(t) \/ Inside(t)
      PROVE  IF v.era = 0 THEN v.id \in pins'[v.thread] ELSE ViewOf(v)'
  <2>1. UNCHANGED <<acked, era, pins>>
    BY <1>4, CallFrame DEF CallSteps, Recheck, Inside, callFrame, intakeVars, targetVars
  <2>2. ~Ends /\ \A u \in Thread : ~Accepts(u) BY <2>1, EpochNat, CallNat DEF Ends, Accepts
  <2>3. v \in View /\ IF v.era = 0 THEN v.id \in pins[v.thread] ELSE ViewOf(v)
    BY <1>0, <1>4, HandedOut, ViewParts
  <2> QED BY <2>1, <2>2, <2>3, ViewStays
<1>5. ASSUME NEW t \in Thread, CompleteApply(t)
      PROVE  IF v.era = 0 THEN v.id \in pins'[v.thread] ELSE ViewOf(v)'
  <2>1. UNCHANGED <<pins, era>> BY <1>5 DEF CompleteApply, targetVars
  <2>2. ~Ends BY <2>1, CallNat DEF Ends
  <2>3. \A u \in Thread : Accepts(u) => u = t
    <3>1. call[t].op # "none" /\ \A u \in Thread : u # t => call'[u] = call[u]
      BY <1>5, CallTable DEF CallSteps
    <3>2. \A u \in Thread : CompleteApply(u) => call[u].op # "none" /\ call'[u].op = "none"
      BY ReturnFacts DEF CompleteApply, At, NoCall
    <3> QED BY <3>1, <3>2 DEF Accepts
  <2>4. \/ v \in views /\ (v.era = 0 \/ (Accepts(t) => ~(v.thread = t /\ v.epoch <= call[t].epoch)))
        \/ \E w \in views : v = [w EXCEPT !.era = 0] /\ w.id \in pins[w.thread]
    <3>1. CASE call[t].epoch # 0 /\ Acknowledges(call[t].epoch)
      BY <1>5, <3>1 DEF CompleteApply, RuleEnded
    <3>2. CASE ~(call[t].epoch # 0 /\ Acknowledges(call[t].epoch))
      <4>1. views' = views /\ acked' = acked BY <1>5, <3>2 DEF CompleteApply
      <4>2. ~Accepts(t) BY <4>1, EpochNat DEF Accepts
      <4> QED BY <4>1, <4>2
    <3> QED BY <3>1, <3>2
  <2>5. CASE v \in views /\ v.era = 0 BY <2>1, <2>5, ViewParts
  <2>6. CASE /\ v \in views /\ v.era # 0
             /\ Accepts(t) => ~(v.thread = t /\ v.epoch <= call[t].epoch)
    <3>1. ViewOf(v) /\ v \in View BY <1>0, <2>6, ViewParts
    <3> QED BY <2>2, <2>3, <2>6, <3>1, ViewStays
  <2>7. ASSUME NEW w \in views, v = [w EXCEPT !.era = 0], w.id \in pins[w.thread]
        PROVE  v.era = 0 /\ v.id \in pins[v.thread]
    <3>1. w \in View BY ViewsTyped
    <3>2. v.era = 0 /\ v.id = w.id /\ v.thread = w.thread BY <2>7, <3>1 DEF View
    <3> QED BY <2>7, <3>2
  <2> QED BY <2>1, <2>4, <2>5, <2>6, <2>7
<1> QED BY <1>1, <1>2, <1>3, <1>4, <1>5, ViewCases

-----------------------------------------------------------------------------
(* The invariant of the protocol, and what it gives.                       *)

(* The start satisfies the parts proved here.                              *)
LEMMA RuleInit == Init => TargetInv /\ AckInv /\ LockInv /\ StepInv /\ RuleInv /\ ViewInv /\ RegionInv
BY DEF Init, TargetInv, Lost, AckInv, LockInv, StepInv, RuleInv, ViewInv, RegionInv, NoCall

(* Every step keeps them.                                                  *)
LEMMA RuleStep ==
  LeaseInv /\ [Next]_vars =>
    TargetInv' /\ AckInv' /\ LockInv' /\ StepInv' /\ RuleInv' /\ ViewInv' /\ RegionInv'
<1>1. CASE LeaseInv /\ Next
  BY <1>1, TargetKept, AckKept, LockKept, StepKept, RuleKept, ViewKept, RegionKept DEF LeaseInv
<1>2. CASE LeaseInv /\ UNCHANGED vars
  <2>2. TargetInv' /\ AckInv' /\ LockInv' /\ StepInv' /\ RegionInv'
    BY <1>2 DEF LeaseInv, vars, TargetInv, Alive, Lost, AckInv, LockInv, StepInv, RegionInv
  <2>3. RuleInv' BY <1>2 DEF LeaseInv, vars, RuleInv, Retained
  <2>4. ViewInv' BY <1>2 DEF LeaseInv, vars, ViewInv, RuleHolds, SeenIds, Retained
  <2> QED BY <2>2, <2>3, <2>4
<1> QED BY <1>1, <1>2

(* The inductive invariant holds in every reachable state, for every       *)
(* number of slots, host threads, batches, epochs and targets.             *)
THEOREM LeaseHolds == Spec => []LeaseInv
<1>1. Init => LeaseInv
  <2>1. Init => StampInv BY DEF Init, StampInv
  <2> QED BY <2>1, InitTyped, EpochInit, SlotInit, RuleInit DEF LeaseInv
<1>2. LeaseInv /\ [Next]_vars => LeaseInv'
  BY StepTyped, EpochStep, SlotStep, StampStep, RuleStep DEF LeaseInv
<1> QED BY <1>1, <1>2, PTL DEF Spec

(* A pointer handed out by with_view or with_pinned_read points at the     *)
(* request it was taken from until the later of the thread's unpin and its *)
(* acknowledgment, however releases, claims, settles, stops and detaches   *)
(* interleave with the loads of view_allowed and read_view.                *)
THEOREM ViewsFrozen == Spec => []ViewFrozen
<1>1. ASSUME LeaseInv PROVE ViewFrozen
  <2> SUFFICES ASSUME NEW v \in views PROVE payload[v.id.slot] = v.id.gen BY DEF ViewFrozen
  <2> USE DEF LeaseInv
  <2>1. v.thread \in Thread BY <1>1, ViewsTyped DEF View
  <2>2. CASE v.era = 0
    <3>1. v.id \in pins[v.thread] BY <1>1, <2>2, ViewParts
    <3>2. v.id \in SeenIds /\ v.id.gen = word[v.id.slot].gen BY <1>1, <2>1, <3>1, PinnedIs
    <3> QED BY <1>1, <3>2, SeenCurrent
  <2>3. CASE v.era # 0
    <3>1. v.id \in SeenIds /\ Retained(v.id, v.epoch) BY <1>1, <2>3, ViewParts DEF ViewOf
    <3>2. CASE word[v.id.slot].gen = v.id.gen BY <1>1, <3>1, <3>2, SeenCurrent
    <3>3. CASE word[v.id.slot].gen # v.id.gen
      <4>1. word[v.id.slot].gen = v.id.gen + 1 /\ v.id.slot \in Quarantined
        BY <3>1, <3>3 DEF Retained, Quarantined
      <4>2. payload[v.id.slot] + 1 = word[v.id.slot].gen BY <1>1, <4>1 DEF SlotInv, PayloadInv
      <4>3. v.id.slot \in Slot /\ v.id.gen \in Nat
        <5>1. v.id \in Id BY <1>1, ViewsTyped DEF View
        <5> QED BY <1>1, <5>1, IdNat
      <4>4. payload[v.id.slot] \in Nat BY <1>1, <4>3, SlotNat
      <4> QED BY <4>1, <4>2, <4>3, <4>4
    <3> QED BY <3>2, <3>3
  <2> QED BY <2>2, <2>3
<1> QED BY <1>1, LeaseHolds, PTL

(* A snapshot of with_values that passes the second check of read_view saw *)
(* only its own request, though no rule, pin or lock protects the copy.    *)
THEOREM SnapshotsOwn == Spec => []SnapshotOwn
<1>1. ASSUME LeaseInv PROVE SnapshotOwn
  <2> SUFFICES ASSUME NEW t \in Thread, At(t, "recheck"), check_lease(CallWord(t), call[t].id.gen)
               PROVE  call[t].snap = call[t].id.gen
    BY DEF SnapshotOwn
  <2>1. call[t].op # "none" /\ call[t].at = "recheck" BY DEF At
  <2>2. call[t].id.gen = word[call[t].id.slot].gen
    BY DEF check_lease, check, CallWord, CallSlot
  <2> QED BY <1>1, <2>1, <2>2 DEF LeaseInv, LockInv
<1> QED BY <1>1, LeaseHolds, PTL

(* What runs under the lock after the second check of with_read and        *)
(* with_write runs on the request its id names, alone, and a write never   *)
(* runs on a response the worker already took.                             *)
THEOREM LockedAccesses == Spec => []LockedAccessOwn
<1>1. ASSUME LeaseInv PROVE LockedAccessOwn
  BY <1>1 DEF LeaseInv, LockInv, LockedAccessOwn, At, CallSlot
<1> QED BY <1>1, LeaseHolds, PTL

(* The words count exactly the pins (Arena::pin, unpin), a pinned slot is  *)
(* never retired, and an open body region is the pinning thread's alone:   *)
(* take_response takes no response under it.                               *)
THEOREM RegionsOwned == Spec => []RegionOwned
<1>1. ASSUME LeaseInv PROVE RegionOwned
  <2> USE DEF LeaseInv
  <2>1. ASSUME NEW t \in Thread, NEW id \in pins[t]
        PROVE  check(word[id.slot], id.gen, {"Leased", "Completing", "Closed"})
    <3>1. id \in SeenIds /\ id.gen = word[id.slot].gen BY <1>1, PinnedIs
    <3>2. word[id.slot].state \in HostStates BY <1>1, <3>1, SeenCurrent
    <3> QED BY <3>1, <3>2 DEF check, HostStates
  <2>2. PinsCounted BY <1>1, <2>1 DEF PinsCounted, SlotInv, PinInv
  <2>3. ASSUME NEW t \in Thread, NEW id \in regions[t]
        PROVE  /\ id \in pins[t] /\ staged[id.slot] /\ word[id.slot].gen = id.gen
               /\ waiter[id.slot].at # "taken" /\ \A u \in Thread \ {t} : id \notin regions[u]
    <3>1. /\ id \in pins[t] /\ staged[id.slot] /\ waiter[id.slot].at # "taken"
          /\ \A u \in Thread \ {t} : id \notin regions[u]
      BY <1>1 DEF RegionInv
    <3>2. word[id.slot].gen = id.gen BY <1>1, <3>1, PinnedIs
    <3> QED BY <3>1, <3>2
  <2> QED BY <2>2, <2>3 DEF RegionOwned
<1> QED BY <1>1, LeaseHolds, PTL

(* While a target is live the floor moves only by the acknowledgment of    *)
(* the thread bound to it: Intake::complete accepts no epoch from a call   *)
(* left over from an earlier target.                                       *)
THEOREM AcksByBound == Spec => AckedByBound
<1>1. ASSUME LeaseInv, Next
      PROVE  \A t \in Thread :
               acked' # acked /\ call[t].op = "complete" /\ call'[t].op = "none"
                 /\ attached = "live" /\ target = era /\ bound # None /\ ~detaching
                 => bound = t
  <2> SUFFICES ASSUME NEW t \in Thread, acked' # acked, call[t].op = "complete", call'[t].op = "none",
                      attached = "live", ~detaching
               PROVE  bound = t
    OBVIOUS
  <2>1. PICK u \in Thread : Accepts(u)
    <3>1. Settles \/ Ends \/ (\E u \in Thread : Accepts(u)) \/ Keeps
      BY <1>1, RuleEffect DEF LeaseInv
    <3> QED BY <3>1 DEF Settles, Ends, Keeps
  <2>2. CompleteApply(u) /\ call[u].op = "complete" /\ call[u].epoch = acked + 1
    BY <2>1 DEF Accepts
  <2>3. u = t
    <3>1. \A x \in Thread : x # u => call'[x] = call[x]
      BY <1>1, <2>2, CallTable DEF CallSteps, LeaseInv
    <3> QED BY <3>1
  <2>4. call[u].epoch # 0 /\ ~(call[u].epoch <= acked) BY <1>1, <2>2, EpochNat DEF LeaseInv
  <2> QED BY <1>1, <2>2, <2>3, <2>4 DEF LeaseInv, AckInv
<1>2. LeaseInv /\ [Next]_vars =>
        [\A t \in Thread :
           acked' # acked /\ call[t].op = "complete" /\ call'[t].op = "none"
             /\ attached = "live" /\ target = era /\ bound # None /\ ~detaching
             => bound = t]_vars
  BY <1>1
<1> QED BY <1>2, LeaseHolds, PTL DEF Spec, AckedByBound
=============================================================================
