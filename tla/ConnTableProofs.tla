-------------------------- MODULE ConnTableProofs ---------------------------
(***************************************************************************)
(* The connection table of a worker index, for every set of slots and      *)
(* threads, every number of entries and every number of cores: TableInv is *)
(* an invariant, so an entry is free once, an open connection is always    *)
(* somebody's, a stopped index leaves none open, and the ids implement the *)
(* names of IdLife.                                                        *)
(***************************************************************************)
EXTENDS ConnTableInv, TLAPS, FiniteSetTheorems, SequenceTheorems

ThreadRec == [pc : ThreadPc, slot : Slot, conn : ConnId]
WorkerRec ==
  [pc : WorkerPc, job : Job, todo : SUBSET ConnId, conn : ConnId, at : Nat, end : 0 .. Entries]

(* Every entry has an index, and what rests is typed.                      *)
LEMMA RestTyped ==
  /\ 0 \in Index /\ None \in ConnId
  /\ ThIdle \in ThreadRec /\ WkIdle \in WorkerRec
<1>1. 0 \in Index BY TableAssumption DEF Index
<1>2. None \in ConnId BY <1>1 DEF None, ConnId
<1>3. (CHOOSE s \in Slot : TRUE) \in Slot BY TableAssumption
<1> QED BY <1>1, <1>2, <1>3, TableAssumption
        DEF ThIdle, WkIdle, ThreadRec, WorkerRec, ThreadPc, WorkerPc, Job

(* The reservations left after one is dropped.                             *)
LEMMA DropTyped ==
  ASSUME TableTyped, NEW c, drop_reservation(c)
  PROVE  reserved' \subseteq Reservation /\ IsFiniteSet(reserved') /\ count' \in Nat
<1>1. reserved \subseteq Reservation /\ IsFiniteSet(reserved) /\ count \in Nat BY DEF TableTyped
<1>2. reserved' \subseteq reserved BY DEF drop_reservation, listVars
<1>3. IsFiniteSet(reserved') BY <1>1, <1>2, FS_Subset
<1> QED BY <1>1, <1>2, <1>3 DEF drop_reservation, listVars

(* The list is a list of reservations, and so are the connections on it.   *)
LEMMA ListedTyped ==
  ASSUME TableTyped PROVE Listed \subseteq ConnId
BY DEF TableTyped, Listed, Reservation

(* The steps of threads keep the types.                                    *)
LEMMA ThreadTyped ==
  ASSUME TableTyped, NEW t \in Thread, (\E s \in Slot : Accept(t, s)) \/ ThreadStep(t)
  PROVE  TableTyped'
<1> USE RestTyped
<1>0. /\ gen \in [Index -> Nat] /\ open \in [Index -> BOOLEAN]
      /\ free \in Seq(Index) /\ grown \in 0 .. Entries
      /\ reserved \subseteq Reservation /\ IsFiniteSet(reserved) /\ count \in Nat
      /\ th \in [Thread -> ThreadRec] /\ action \in [Slot -> ConnId]
      /\ th[t] \in ThreadRec /\ th[t].conn \in ConnId /\ th[t].slot \in Slot
      /\ th[t].conn.index \in Index
  BY DEF TableTyped, ThreadRec, ConnId
<1>1. ASSUME UNCHANGED <<leaseVars, coreVars, ownVars, wk>>,
             gen' \in [Index -> Nat], open' \in [Index -> BOOLEAN],
             free' \in Seq(Index), grown' \in 0 .. Entries,
             reserved' \subseteq Reservation, IsFiniteSet(reserved'), count' \in Nat,
             th' \in [Thread -> ThreadRec]
      PROVE  TableTyped'
  BY <1>1 DEF TableTyped, ThreadRec, leaseVars, coreVars, ownVars
<1>2. ASSUME NEW pc \in ThreadPc, At(t, pc) PROVE th' \in [Thread -> ThreadRec]
  BY <1>0, <1>2 DEF At, ThreadRec
<1>13. ASSUME NEW pc \in ThreadPc, NEW c \in ConnId,
              th' = [th EXCEPT ![t].pc = pc, ![t].conn = c]
       PROVE  th' \in [Thread -> ThreadRec]
  BY <1>0, <1>13 DEF ThreadRec
<1>3. ASSUME NEW s \in Slot, Accept(t, s) PROVE TableTyped'
  <2>1. th' \in [Thread -> ThreadRec] BY <1>0, <1>3 DEF Accept, ThreadRec, ThreadPc
  <2> QED BY <1>0, <1>1, <1>3, <2>1 DEF Accept, entryVars, listVars
<1>4. CASE TakeIndex(t)
  <2>1. free # <<>> => Head(free) \in Index /\ Tail(free) \in Seq(Index)
    BY <1>0, HeadTailProperties
  <2>2. free' \in Seq(Index) BY <1>0, <1>4, <2>1 DEF TakeIndex
  <2>5. grown' \in 0 .. Entries
    <3>1. grown' = grown \/ (grown < Entries /\ grown' = grown + 1) BY <1>4 DEF TakeIndex
    <3> QED BY <1>0, <3>1, TableAssumption
  <2>3. grown < Entries => grown \in Index BY <1>0, TableAssumption DEF Index
  <2>4. th' \in [Thread -> ThreadRec]
    <3>1. \A i \in Index : [index |-> i, gen |-> 0] \in ConnId BY DEF ConnId
    <3>2. "open" \in ThreadPc BY DEF ThreadPc
    <3>3. CASE free # <<>> BY <1>4, <1>13, <2>1, <3>1, <3>2, <3>3 DEF TakeIndex
    <3>4. CASE free = <<>> /\ grown < Entries
      <4>0. grown # Entries BY <1>0, <3>4, TableAssumption
      <4>1. th' = [th EXCEPT ![t].pc = "open", ![t].conn = [index |-> grown, gen |-> 0]]
        BY <1>4, <3>4, <4>0 DEF TakeIndex
      <4> QED BY <1>13, <2>3, <3>1, <3>2, <3>4, <4>1
    <3>5. CASE free = <<>> /\ grown = Entries
      <4>0. ~(grown < Entries) BY <3>5, TableAssumption
      <4>1. th' = [th EXCEPT ![t] = ThIdle] BY <1>4, <3>5, <4>0 DEF TakeIndex
      <4> QED BY <1>0, <4>1
    <3> QED BY <1>0, <3>3, <3>4, <3>5, TableAssumption
  <2> QED BY <1>0, <1>1, <1>4, <2>2, <2>4, <2>5 DEF TakeIndex, listVars
<1>5. CASE OpenEntry(t)
  <2>1. th' \in [Thread -> ThreadRec]
    <3>1. gen[th[t].conn.index] + 1 \in Nat BY <1>0
    <3>2. [th[t].conn EXCEPT !.gen = gen[th[t].conn.index] + 1] \in ConnId BY <1>0, <3>1 DEF ConnId
    <3> QED BY <1>0, <1>5, <3>2 DEF OpenEntry, ThreadRec, ThreadPc
  <2>2. gen' \in [Index -> Nat] /\ open' \in [Index -> BOOLEAN]
    BY <1>0, <1>5 DEF OpenEntry
  <2> QED BY <1>0, <1>1, <1>5, <2>1, <2>2 DEF OpenEntry, listVars
<1>6. CASE CheckLease(t)
  BY <1>0, <1>1, <1>2, <1>6 DEF CheckLease, ThreadPc, entryVars, listVars
<1>7. CASE ListReservation(t)
  <2>1. th' \in [Thread -> ThreadRec] BY <1>2, <1>7 DEF ListReservation, ThreadPc
  <2>2. reserved' \subseteq Reservation /\ IsFiniteSet(reserved')
    <3>1. [conn |-> th[t].conn, slot |-> th[t].slot] \in Reservation BY <1>0 DEF Reservation
    <3> QED BY <1>0, <1>7, <3>1, FS_AddElement DEF ListReservation
  <2> QED BY <1>0, <1>1, <1>7, <2>1, <2>2 DEF ListReservation, entryVars
<1>8. CASE CountReservation(t)
  BY <1>0, <1>1, <1>2, <1>8 DEF CountReservation, ThreadPc, entryVars
<1>9. CASE Record(t)
  <2>1. th' \in [Thread -> ThreadRec] BY <1>0, <1>9 DEF Record
  <2>2. action' \in [Slot -> ConnId] BY <1>0, <1>9 DEF Record
  <2> QED BY <1>9, <2>1, <2>2
          DEF Record, TableTyped, ThreadRec, entryVars, listVars, coreVars, ownVars
<1>10. CASE ThreadShuts(t)
  <2>1. th' \in [Thread -> ThreadRec] BY <1>0, <1>2, <1>10 DEF ThreadShuts, ThreadPc
  <2>2. open' \in [Index -> BOOLEAN] BY <1>0, <1>10 DEF ThreadShuts, Shut
  <2> QED BY <1>0, <1>1, <1>10, <2>1, <2>2 DEF ThreadShuts, listVars
<1>11. CASE ThreadUnlists(t)
  <2>1. th' \in [Thread -> ThreadRec] BY <1>2, <1>11 DEF ThreadUnlists, ThreadPc
  <2>2. reserved' \subseteq Reservation /\ IsFiniteSet(reserved') /\ count' \in Nat
    BY <1>11, DropTyped DEF ThreadUnlists
  <2> QED BY <1>0, <1>1, <1>11, <2>1, <2>2 DEF ThreadUnlists, entryVars
<1>12. CASE ThreadFrees(t)
  <2>1. th' \in [Thread -> ThreadRec] /\ free' \in Seq(Index)
    BY <1>0, <1>12 DEF ThreadFrees
  <2> QED BY <1>0, <1>1, <1>12, <2>1 DEF ThreadFrees, listVars
<1> QED BY <1>3, <1>4, <1>5, <1>6, <1>7, <1>8, <1>9, <1>10, <1>11, <1>12 DEF ThreadStep

(* A procedure starts with connections to close.                           *)
LEMMA BeginTyped ==
  ASSUME NEW job \in Job, NEW todo \in SUBSET ConnId, Begin(job, todo)
  PROVE  wk' \in WorkerRec
BY RestTyped, TableAssumption DEF Begin, WorkerRec, WorkerPc

(* The steps of the worker keep the types.                                 *)
LEMMA SlotTyped ==
  ASSUME TableTyped, NEW s \in Slot,
         \/ Answer(s) \/ Request(s) \/ LeaseEnds(s) \/ Claim(s) \/ Abandon(s) \/ NoAction(s)
  PROVE  TableTyped'
<1> USE RestTyped
<1>0. /\ wk \in WorkerRec /\ action[s] \in ConnId /\ claims \subseteq ConnId
      /\ reserved \subseteq Reservation /\ IsFiniteSet(reserved) /\ count \in Nat
      /\ lease \in [Slot -> {"unused", "leased", "answered", "gone"}]
  BY DEF TableTyped, WorkerRec
<1>1. lease' \in [Slot -> {"unused", "leased", "answered", "gone"}]
  BY <1>0 DEF Answer, Request, LeaseEnds, Claim, Abandon, NoAction
<1>2. wk' \in WorkerRec /\ claims' \subseteq ConnId
  BY <1>0, BeginTyped DEF Answer, Request, LeaseEnds, Claim, Abandon, NoAction, ownVars, Job
<1>3. reserved' \subseteq Reservation /\ IsFiniteSet(reserved') /\ count' \in Nat
  <2>1. UNCHANGED <<reserved, count>> \/ drop_reservation(action[s])
    BY DEF Answer, Request, LeaseEnds, Claim, Abandon, NoAction, listVars
  <2> QED BY <1>0, <2>1, DropTyped
<1>4. UNCHANGED <<entryVars, action, th, coreVars, served>>
  BY DEF Answer, Request, LeaseEnds, Claim, Abandon, NoAction, ownVars
<1> QED BY <1>1, <1>2, <1>3, <1>4 DEF TableTyped, WorkerRec, entryVars, coreVars

(* The steps of the worker that start a procedure keep the types.          *)
LEMMA StartTyped ==
  ASSUME TableTyped,
         \/ \E c \in Claimed : Serve(c) \/ DropClaim(c) \/ EndServed(c)
         \/ Sweep \/ HostFails \/ CoreEnds \/ CoreStarts
  PROVE  TableTyped'
<1> USE RestTyped, ListedTyped
<1>0. wk \in WorkerRec /\ claims \subseteq ConnId /\ served \subseteq ConnId /\ Claimed \subseteq ConnId
  BY DEF TableTyped, WorkerRec, Claimed
<1>1. {r.conn : r \in {x \in reserved : lease[x.slot] = "gone"}} \subseteq ConnId
  BY DEF TableTyped, Reservation
<1>2. wk' \in WorkerRec
  <2>1. CASE \E c \in Claimed : Serve(c) \/ DropClaim(c) \/ EndServed(c)
    BY <1>0, <2>1, BeginTyped DEF Serve, DropClaim, EndServed, Job
  <2>2. CASE Sweep BY <1>1, <2>2, BeginTyped DEF Sweep, Job
  <2>3. CASE HostFails BY <1>0, <2>3, BeginTyped DEF HostFails, Job
  <2>4. CASE CoreEnds \/ CoreStarts BY <2>4, BeginTyped DEF CoreEnds, CoreStarts, Job
  <2> QED BY <2>1, <2>2, <2>3, <2>4
<1>3. claims' \subseteq ConnId /\ served' \subseteq ConnId
  <2>1. CASE \E c \in Claimed : Serve(c) \/ DropClaim(c) \/ EndServed(c)
    BY <1>0, <2>1 DEF Serve, DropClaim, EndServed
  <2>2. CASE Sweep \/ HostFails \/ CoreEnds \/ CoreStarts
    BY <1>0, <2>2 DEF Sweep, HostFails, CoreEnds, CoreStarts, ownVars
  <2> QED BY <2>1, <2>2
<1>4. /\ core' \in {"up", "ending", "down", "starting"} /\ failed' \in BOOLEAN
      /\ cores' \in 0 .. MaxCores
  <2>1. core \in {"up", "ending", "down", "starting"} /\ failed \in BOOLEAN
        /\ cores \in 0 .. MaxCores
    BY DEF TableTyped
  <2>2. \/ UNCHANGED coreVars
        \/ core' = core /\ failed' = TRUE /\ cores' = cores
        \/ core' = "ending" /\ UNCHANGED <<failed, cores>>
        \/ core' = "starting" /\ failed' = FALSE /\ cores' = cores + 1 /\ cores < MaxCores
    BY DEF Serve, DropClaim, EndServed, Sweep, HostFails, CoreEnds, CoreStarts
  <2>3. cores < MaxCores => cores + 1 \in 0 .. MaxCores BY <2>1, TableAssumption
  <2> QED BY <2>1, <2>2, <2>3 DEF coreVars
<1>5. UNCHANGED <<entryVars, listVars, leaseVars, th>>
  BY DEF Serve, DropClaim, EndServed, Sweep, HostFails, CoreEnds, CoreStarts
<1> QED BY <1>2, <1>3, <1>4, <1>5
        DEF TableTyped, WorkerRec, entryVars, listVars, leaseVars

(* The closing steps of the worker keep the types.                         *)
LEMMA CloseTyped ==
  ASSUME TableTyped, WorkerPlaced, WorkerStep
  PROVE  TableTyped'
<1> USE RestTyped, ListedTyped
<1>0. /\ wk \in WorkerRec /\ wk.conn \in ConnId /\ wk.conn.index \in Index /\ grown \in 0 .. Entries
      /\ gen \in [Index -> Nat] /\ open \in [Index -> BOOLEAN] /\ free \in Seq(Index)
      /\ reserved \subseteq Reservation /\ IsFiniteSet(reserved) /\ count \in Nat
      /\ wk.at \in Nat /\ wk.end \in 0 .. Entries
  BY DEF TableTyped, WorkerRec, ConnId
<1>1. wk' \in WorkerRec
  <2>1. CASE NextConn BY <1>0, <2>1 DEF NextConn, WorkerRec, WorkerPc
  <2>2. CASE WorkerShuts \/ WorkerUnlists \/ WorkerFrees
    BY <1>0, <2>2 DEF WorkerShuts, WorkerUnlists, WorkerFrees, WorkerTo, WorkerRec, WorkerPc
  <2>3. CASE ClosesDone
    <3>1. wk.job = "fail" => wk' \in WorkerRec BY <2>3, BeginTyped DEF ClosesDone, Job
    <3>2. wk.job = "all" => wk' \in WorkerRec
      <4>1. "scan" \in Job /\ 0 \in Nat BY DEF Job
      <4> QED BY <1>0, <2>3, <4>1 DEF ClosesDone, WorkerRec
    <3> QED BY <2>3, <3>1, <3>2 DEF ClosesDone
  <2>4. CASE Scan
    <3>1. wk.at \in Index BY <1>0, <2>4, TableAssumption DEF Scan, Index
    <3>2. [index |-> wk.at, gen |-> gen[wk.at]] \in ConnId BY <1>0, <3>1 DEF ConnId
    <3>3. wk.at + 1 \in Nat BY <1>0
    <3>4. (IF open[wk.at] THEN {[index |-> wk.at, gen |-> gen[wk.at]]} ELSE {}) \in SUBSET ConnId
      BY <3>2
    <3> QED BY <1>0, <2>4, <3>3, <3>4 DEF Scan, WorkerRec
  <2>5. CASE ScanEnds BY <2>5 DEF ScanEnds
  <2> QED BY <2>1, <2>2, <2>3, <2>4, <2>5 DEF WorkerStep
<1>2. open' \in [Index -> BOOLEAN] /\ free' \in Seq(Index)
  <2>1. Append(free, wk.conn.index) \in Seq(Index) BY <1>0
  <2>2. [open EXCEPT ![wk.conn.index] = FALSE] \in [Index -> BOOLEAN] BY <1>0
  <2> QED
   BY <1>0, <2>1, <2>2 DEF WorkerStep, NextConn, WorkerShuts, WorkerUnlists, WorkerFrees, ClosesDone, Scan,
              ScanEnds, Shut, entryVars
<1>3. reserved' \subseteq Reservation /\ IsFiniteSet(reserved') /\ count' \in Nat
  <2>1. UNCHANGED <<reserved, count>> \/ drop_reservation(wk.conn)
    BY DEF WorkerStep, NextConn, WorkerShuts, WorkerUnlists, WorkerFrees, ClosesDone, Scan,
           ScanEnds, listVars
  <2> QED BY <1>0, <2>1, DropTyped
<1>4. UNCHANGED <<gen, grown, lease, action, th, failed, cores, claims, served>>
      /\ core' \in {core, "down", "up"}
  BY DEF WorkerStep, NextConn, WorkerShuts, WorkerUnlists, WorkerFrees, ClosesDone, Scan,
         ScanEnds, entryVars, leaseVars, coreVars, ownVars
<1> QED BY <1>1, <1>2, <1>3, <1>4 DEF TableTyped, WorkerRec

(* The place of the worker follows its procedure.                          *)
LEMMA PlacedStep ==
  ASSUME TableTyped, WorkerPlaced, [TableNext]_tableVars
  PROVE  WorkerPlaced'
<1>0. wk \in WorkerRec /\ wk.at \in Nat /\ wk.end \in Nat /\ grown \in Nat
  BY DEF TableTyped, WorkerRec
<1>1. CASE UNCHANGED <<wk, core>> BY <1>1 DEF WorkerPlaced
<1>2. ASSUME NEW job \in {"one", "sweep", "fail", "reserved"}, NEW todo, Begin(job, todo),
             core \notin {"ending", "starting", "down"}, core' = core
      PROVE  WorkerPlaced'
  BY <1>2 DEF WorkerPlaced, Begin
<1>3. ASSUME NEW todo, Begin("all", todo), core' \in {"ending", "starting"}
      PROVE  WorkerPlaced'
  BY <1>3 DEF WorkerPlaced, Begin
<1>4. ASSUME NEW t \in Thread, (\E s \in Slot : Accept(t, s)) \/ ThreadStep(t)
      PROVE  UNCHANGED <<wk, core>>
  BY <1>4 DEF ThreadStep, Accept, TakeIndex, OpenEntry, CheckLease, ListReservation,
              CountReservation, Record, ThreadShuts, ThreadUnlists, ThreadFrees, coreVars
<1>5. ASSUME NEW s \in Slot,
             \/ Answer(s) \/ Request(s) \/ LeaseEnds(s) \/ Claim(s) \/ Abandon(s) \/ NoAction(s)
      PROVE  WorkerPlaced'
  <2>1. UNCHANGED <<wk, core>> \/ (Idle /\ core' = core /\ Begin("one", {action[s]}))
    BY <1>5 DEF Answer, Request, LeaseEnds, Claim, Abandon, NoAction, coreVars
  <2> QED BY <1>1, <1>2, <2>1 DEF Idle
<1>6. ASSUME NEW c \in Claimed, Serve(c) \/ DropClaim(c) \/ EndServed(c)
      PROVE  WorkerPlaced'
  <2>1. UNCHANGED <<wk, core>> \/ (Idle /\ core' = core /\ Begin("one", {c}))
    BY <1>6 DEF Serve, DropClaim, EndServed, coreVars
  <2> QED BY <1>1, <1>2, <2>1 DEF Idle
<1>7. CASE Sweep \/ HostFails BY <1>2, <1>7 DEF Sweep, HostFails, Idle, coreVars
<1>8. CASE CoreEnds \/ CoreStarts BY <1>3, <1>8 DEF CoreEnds, CoreStarts
<1>9. CASE NextConn \/ WorkerShuts \/ WorkerUnlists \/ WorkerFrees
  <2>1. /\ core' = core /\ wk.pc # "idle" /\ wk'.pc # "idle"
        /\ wk'.job = wk.job /\ wk'.at = wk.at /\ wk'.end = wk.end
    BY <1>0, <1>9 DEF NextConn, WorkerShuts, WorkerUnlists, WorkerFrees, WorkerTo, coreVars, WorkerRec
  <2> QED BY <2>1 DEF WorkerPlaced
<1>10. CASE ClosesDone
  <2>1. core' = core /\ wk.pc = "next" /\ core # "down" BY <1>10 DEF ClosesDone, coreVars, WorkerPlaced
  <2>2. CASE wk.job = "fail" BY <1>10, <2>1, <2>2 DEF ClosesDone, WorkerPlaced, Begin
  <2>3. CASE wk.job = "all"
    <3>1. wk' = [wk EXCEPT !.job = "scan", !.at = 0, !.end = grown] BY <1>10, <2>3 DEF ClosesDone
    <3>2. wk'.pc = "next" /\ wk'.job = "scan" /\ wk'.at = 0 /\ wk'.end = grown
      BY <1>0, <2>1, <3>1 DEF WorkerRec
    <3> QED BY <1>0, <2>1, <2>3, <3>2 DEF WorkerPlaced
  <2>4. CASE wk.job \notin {"fail", "all"}
    <3>1. wk' = WkIdle /\ wk.job # "scan" BY <1>10, <2>4 DEF ClosesDone
    <3> QED BY <2>1, <2>4, <3>1 DEF WorkerPlaced, WkIdle
  <2> QED BY <2>2, <2>3, <2>4
<1>11. CASE Scan
  <2>1. /\ core' = core /\ wk.pc = "next" /\ wk'.pc = "next" /\ wk'.job = wk.job
        /\ wk'.at = wk.at + 1 /\ wk'.end = wk.end /\ wk.at < wk.end
    BY <1>0, <1>11 DEF Scan, coreVars, WorkerRec
  <2> QED BY <1>0, <2>1 DEF WorkerPlaced
<1>12. CASE ScanEnds
  BY <1>12 DEF ScanEnds, WorkerPlaced, WkIdle
<1>13. CASE UNCHANGED tableVars BY <1>1, <1>13 DEF tableVars
<1> QED BY <1>1, <1>4, <1>5, <1>6, <1>7, <1>8, <1>9, <1>10, <1>11, <1>12, <1>13
        DEF TableNext, WorkerStep

(* The types and the place of the worker are kept by every step.           *)
LEMMA TypedStep ==
  ASSUME TableTyped, WorkerPlaced, [TableNext]_tableVars
  PROVE  TableTyped' /\ WorkerPlaced'
<1>1. CASE UNCHANGED tableVars BY <1>1 DEF TableTyped, WorkerPlaced, tableVars
<1> QED BY <1>1, ThreadTyped, SlotTyped, StartTyped, CloseTyped, PlacedStep DEF TableNext

-----------------------------------------------------------------------------
(* How many places an entry is in: each step moves it from one to another. *)

One(b) == IF b THEN 1 ELSE 0
ThreadHolds(t, i) == th[t].pc \in {"open", "unlist", "free"} /\ th[t].conn.index = i
WorkerHolds(i) == wk.pc \in {"unlist", "free"} /\ wk.conn.index = i

(* Two sets that differ in one element at most.                            *)
LEMMA DifferByOne ==
  ASSUME NEW S, NEW T, NEW x, IsFiniteSet(S), IsFiniteSet(T), S \ {x} = T \ {x}
  PROVE  /\ Cardinality(S) \in Nat /\ Cardinality(T) \in Nat
         /\ Cardinality(T) = Cardinality(S) + One(x \in T) - One(x \in S)
         /\ x \in S => Cardinality(S) >= 1
<1>1. Cardinality(S) \in Nat /\ Cardinality(T) \in Nat BY FS_CardinalityType
<1>2. Cardinality(S \ {x}) = IF x \in S THEN Cardinality(S) - 1 ELSE Cardinality(S)
  BY FS_RemoveElement
<1>3. Cardinality(T \ {x}) = IF x \in T THEN Cardinality(T) - 1 ELSE Cardinality(T)
  BY FS_RemoveElement
<1>4. x \in S => Cardinality(S) # 0 BY FS_EmptySet
<1> QED BY <1>1, <1>2, <1>3, <1>4 DEF One

(* The places of an entry on a list that grows at its end.                 *)
LEMMA InFreeAppend ==
  ASSUME NEW j \in Index, NEW i \in Index, free \in Seq(Index), free' = Append(free, j)
  PROVE  /\ Cardinality(InFree(i)) \in Nat
         /\ Cardinality(InFree(i)') = Cardinality(InFree(i)) + One(i = j)
<1> DEFINE n == Len(free) + 1
<1>1. /\ Len(free) \in Nat /\ DOMAIN free = 1 .. Len(free) /\ DOMAIN free' = 1 .. n
      /\ \A k \in 1 .. n : free'[k] = IF k = n THEN j ELSE free[k]
  OBVIOUS
<1>2. IsFiniteSet(1 .. n) BY <1>1, FS_Interval
<1>3. IsFiniteSet(InFree(i)) /\ IsFiniteSet(InFree(i)') BY <1>1, <1>2, FS_Subset DEF InFree
<1>4. InFree(i)' \ {n} = InFree(i) \ {n} BY <1>1 DEF InFree
<1>5. n \notin InFree(i) /\ (n \in InFree(i)' <=> i = j) BY <1>1 DEF InFree
<1>6. PICK S, T : S = InFree(i) /\ T = InFree(i)' OBVIOUS
<1> HIDE DEF n
<1>7. /\ Cardinality(S) \in Nat /\ Cardinality(T) \in Nat
      /\ Cardinality(T) = Cardinality(S) + One(n \in T) - One(n \in S)
  BY <1>3, <1>4, <1>6, DifferByOne
<1>8. One(n \in S) = 0 /\ One(n \in T) = One(i = j) BY <1>5, <1>6 DEF One
<1>9. One(i = j) \in Nat BY DEF One
<1> HIDE DEF One
<1> QED BY <1>6, <1>7, <1>8, <1>9

(* The places of an entry on a list whose first element is taken.          *)
LEMMA InFreeTail ==
  ASSUME NEW i \in Index, free \in Seq(Index), free # <<>>, free' = Tail(free)
  PROVE  /\ Cardinality(InFree(i)) \in Nat
         /\ Cardinality(InFree(i)') = Cardinality(InFree(i)) - One(i = Head(free))
<1> DEFINE S == InFree(i) \ {1}
           T == InFree(i)'
           f == [k \in S |-> k - 1]
<1>1. /\ Len(free) \in Nat \ {0} /\ DOMAIN free = 1 .. Len(free)
      /\ DOMAIN free' = 1 .. Len(free) - 1 /\ Head(free) = free[1]
      /\ \A k \in 1 .. Len(free) - 1 : free'[k] = free[k + 1]
  OBVIOUS
<1>2. IsFiniteSet(1 .. Len(free)) BY <1>1, FS_Interval
<1>3. IsFiniteSet(InFree(i)) /\ IsFiniteSet(S) BY <1>1, <1>2, FS_Subset DEF InFree
<1>4. S = {k \in 2 .. Len(free) : free[k] = i} BY <1>1 DEF InFree
<1>5. T = {k \in 1 .. Len(free) - 1 : free[k + 1] = i} BY <1>1 DEF InFree
<1>6. f \in Bijection(S, T)
  <2>1. f \in [S -> T] BY <1>1, <1>4, <1>5
  <2>2. \A a, b \in S : f[a] = f[b] => a = b BY <1>1, <1>4
  <2>5. \A b \in T : b \in Nat /\ b + 1 \in S BY <1>1, <1>4, <1>5
  <2>3. \A b \in T : b + 1 \in S /\ f[b + 1] = b
    <3> HIDE DEF S, T
    <3> QED BY <2>5
  <2> HIDE DEF f, S, T
  <2>4. \A b \in T : \E a \in S : f[a] = b BY <2>3
  <2> QED BY <2>1, <2>2, <2>4 DEF Bijection, Injection, Surjection, IsInjective
<1>7. Cardinality(T) = Cardinality(S)
  <2> HIDE DEF f, S, T
  <2> QED BY <1>3, <1>6, FS_Bijection DEF ExistsBijection
<1>8. 1 \in InFree(i) <=> i = Head(free) BY <1>1 DEF InFree
<1>9. Cardinality(S) = Cardinality(InFree(i)) - One(i = Head(free))
  <2>1. S \ {1} = InFree(i) \ {1} /\ 1 \notin S OBVIOUS
  <2> HIDE DEF S
  <2>2. /\ Cardinality(InFree(i)) \in Nat
        /\ Cardinality(S) = Cardinality(InFree(i)) + One(1 \in S) - One(1 \in InFree(i))
    BY <1>3, <2>1, DifferByOne
  <2> QED BY <1>8, <2>1, <2>2 DEF One
<1> QED BY <1>3, <1>7, <1>9, FS_CardinalityType

(* The threads that hold an entry, when one thread steps.                  *)
LEMMA HeldStep ==
  ASSUME NEW t \in Thread, NEW i, \A u \in Thread \ {t} : th'[u] = th[u]
  PROVE  /\ Cardinality(HeldBy(i)) \in Nat /\ Cardinality(HeldBy(i)') \in Nat
         /\ Cardinality(HeldBy(i)')
              = Cardinality(HeldBy(i)) + One(ThreadHolds(t, i)') - One(ThreadHolds(t, i))
         /\ ThreadHolds(t, i) => Cardinality(HeldBy(i)) >= 1
<1>1. IsFiniteSet(HeldBy(i)) /\ IsFiniteSet(HeldBy(i)')
  BY TableAssumption, FS_Subset DEF HeldBy
<1>2. HeldBy(i) \ {t} = HeldBy(i)' \ {t} BY DEF HeldBy
<1>3. (t \in HeldBy(i) <=> ThreadHolds(t, i)) /\ (t \in HeldBy(i)' <=> ThreadHolds(t, i)')
  BY DEF HeldBy, ThreadHolds
<1> QED BY <1>1, <1>2, <1>3, DifferByOne DEF One

(* The sizes FreeOnce adds up, before a step and after it.                 *)
LEMMA PlaceNumbers ==
  ASSUME TableTyped, TableTyped', NEW i \in Index
  PROVE  /\ Cardinality(InFree(i)) \in Nat /\ Cardinality(HeldBy(i)) \in Nat
         /\ Cardinality(InFree(i)') \in Nat /\ Cardinality(HeldBy(i)') \in Nat
         /\ Holders(i) = Cardinality(InFree(i)) + Cardinality(HeldBy(i)) + One(open[i])
                          + One(WorkerHolds(i))
         /\ Holders(i)' = Cardinality(InFree(i)') + Cardinality(HeldBy(i)') + One(open'[i])
                          + One(WorkerHolds(i)')
<1>1. IsFiniteSet(HeldBy(i)) /\ IsFiniteSet(HeldBy(i)')
  BY TableAssumption, FS_Subset DEF HeldBy
<1>2. /\ IsFiniteSet(1 .. Len(free)) /\ DOMAIN free = 1 .. Len(free)
      /\ IsFiniteSet(1 .. Len(free')) /\ DOMAIN free' = 1 .. Len(free')
  BY FS_Interval DEF TableTyped
<1>3. IsFiniteSet(InFree(i)) /\ IsFiniteSet(InFree(i)') BY <1>2, FS_Subset DEF InFree
<1> QED BY <1>1, <1>3, FS_CardinalityType DEF Holders, One, WorkerHolds

(* A step of a thread moves an entry from one place to another.            *)
LEMMA FreeThread ==
  ASSUME TableTyped, TableTyped', FreeOnce,
         NEW t \in Thread, (\E s \in Slot : Accept(t, s)) \/ ThreadStep(t)
  PROVE  FreeOnce'
<1> SUFFICES ASSUME NEW i \in Index PROVE Holders(i)' = One(i < grown')
  BY DEF FreeOnce, One
<1> DEFINE F == Cardinality(InFree(i))
           H == Cardinality(HeldBy(i))
           j == th[t].conn.index
<1>0. /\ th \in [Thread -> ThreadRec] /\ th[t] \in ThreadRec /\ j \in Index
      /\ open \in [Index -> BOOLEAN] /\ free \in Seq(Index) /\ grown \in 0 .. Entries
  BY DEF TableTyped, ThreadRec, ConnId
<1>12. i \in Nat /\ grown \in Nat /\ Entries \in Nat BY <1>0, TableAssumption DEF Index
<1>13. /\ One(open[i]) \in {0, 1} /\ One(WorkerHolds(i)) \in {0, 1}
       /\ One(i < grown) \in {0, 1}
  BY DEF One
<1>1. F + H + One(open[i]) + One(WorkerHolds(i)) = One(i < grown) /\ F \in Nat /\ H \in Nat
  BY PlaceNumbers DEF FreeOnce, One
<1>2. Holders(i)' = F' + H' + One(open'[i]) + One(WorkerHolds(i)')
      /\ F' \in Nat /\ H' \in Nat
  BY PlaceNumbers
<1>3. \A u \in Thread \ {t} : th'[u] = th[u]
  BY <1>0 DEF ThreadStep, Accept, TakeIndex, OpenEntry, CheckLease, ListReservation,
     CountReservation, Record, ThreadShuts, ThreadUnlists, ThreadFrees, At
<1>4. /\ H' = H + One(ThreadHolds(t, i)') - One(ThreadHolds(t, i))
      /\ ThreadHolds(t, i) => H >= 1
  BY <1>3, HeldStep
<1>5. WorkerHolds(i)' = WorkerHolds(i)
  BY DEF ThreadStep, Accept, TakeIndex, OpenEntry, CheckLease, ListReservation,
     CountReservation, Record, ThreadShuts, ThreadUnlists, ThreadFrees, WorkerHolds
<1> USE DEF One
<1>6. CASE UNCHANGED <<free, grown, open>> /\ (ThreadHolds(t, i)' <=> ThreadHolds(t, i))
  <2>1. F' = F BY <1>6 DEF InFree
  <2> HIDE DEF F, H
  <2> QED BY <1>1, <1>2, <1>4, <1>5, <1>6, <2>1
<1>7. CASE \/ \E s \in Slot : Accept(t, s)
           \/ CheckLease(t) \/ ListReservation(t) \/ CountReservation(t) \/ Record(t)
           \/ ThreadUnlists(t)
  <2>1. UNCHANGED <<free, grown, open>>
    BY <1>7 DEF Accept, CheckLease, ListReservation, CountReservation, Record, ThreadUnlists,
                entryVars
  <2>2. ThreadHolds(t, i)' <=> ThreadHolds(t, i)
    BY <1>0, <1>7 DEF Accept, CheckLease, ListReservation, CountReservation, Record,
                      ThreadUnlists, ThreadHolds, At, ThIdle, ThreadRec
  <2> QED BY <1>6, <2>1, <2>2
<1>8. CASE TakeIndex(t)
  <2>0. ~ThreadHolds(t, i) /\ open' = open BY <1>8 DEF TakeIndex, ThreadHolds
  <2>1. CASE free # <<>>
    <3>1. /\ free' = Tail(free) /\ grown' = grown
          /\ (ThreadHolds(t, i)' <=> i = Head(free))
      BY <1>0, <1>8, <2>1 DEF TakeIndex, ThreadHolds, ThreadRec
    <3>2. F' = F - One(i = Head(free)) BY <1>0, <2>1, <3>1, InFreeTail
    <3> HIDE DEF F, H
    <3> QED BY <1>1, <1>2, <1>4, <1>5, <2>0, <3>1, <3>2
  <2>2. CASE free = <<>> /\ grown < Entries
    <3>0. grown # Entries BY <1>0, <2>2, TableAssumption
    <3>1. /\ free' = free /\ grown' = grown + 1
          /\ (ThreadHolds(t, i)' <=> i = grown)
      BY <1>0, <1>8, <2>2, <3>0 DEF TakeIndex, ThreadHolds, ThreadRec
    <3>2. F' = F BY <3>1 DEF InFree
    <3>3. H' = H + One(i = grown) BY <1>1, <1>4, <2>0, <3>1
    <3>4. One(i < grown') = One(i < grown) + One(i = grown) BY <1>12, <3>1
    <3>5. One(i = grown) \in {0, 1} OBVIOUS
    <3>6. Holders(i)' = F + H' + One(open[i]) + One(WorkerHolds(i)) BY <1>2, <1>5, <2>0, <3>2
    <3> HIDE DEF F, H, One
    <3> QED BY <1>1, <1>13, <3>3, <3>4, <3>5, <3>6
  <2>3. CASE free = <<>> /\ grown = Entries
    <3>1. UNCHANGED <<free, grown, open>> /\ ~ThreadHolds(t, i)'
      BY <1>0, <1>8, <2>3, TableAssumption DEF TakeIndex, ThreadHolds, ThIdle
    <3> QED BY <1>6, <2>0, <3>1
  <2>4. grown < Entries \/ grown = Entries BY <1>0, <1>12
  <2> QED BY <2>1, <2>2, <2>3, <2>4
<1>9. CASE OpenEntry(t)
  <2>1. /\ UNCHANGED <<free, grown>> /\ ~ThreadHolds(t, i)' /\ (ThreadHolds(t, i) <=> i = j)
        /\ open' = [open EXCEPT ![j] = TRUE]
    BY <1>0, <1>9 DEF OpenEntry, ThreadHolds, ThreadRec
  <2>2. F' = F BY <2>1 DEF InFree
  <2>3. One(open'[i]) = IF i = j THEN 1 ELSE One(open[i]) BY <1>0, <2>1
  <2>4. H' = H - One(i = j) /\ (i = j => H >= 1) BY <1>1, <1>4, <2>1
  <2> HIDE DEF F, H, j, One
  <2>5. CASE i = j BY <1>1, <1>2, <1>5, <1>13, <2>1, <2>2, <2>3, <2>4, <2>5 DEF One
  <2>6. CASE i # j BY <1>1, <1>2, <1>5, <1>13, <2>1, <2>2, <2>3, <2>4, <2>6 DEF One
  <2> QED BY <2>5, <2>6
<1>10. CASE ThreadShuts(t)
  <2>1. UNCHANGED <<free, grown>> /\ ~ThreadHolds(t, i)
    BY <1>10 DEF ThreadShuts, ThreadHolds
  <2>2. F' = F BY <2>1 DEF InFree
  <2>3. CASE IsOpen(th[t].conn)
    <3>1. open[j] /\ open' = [open EXCEPT ![j] = FALSE] /\ (ThreadHolds(t, i)' <=> i = j)
      <4>1. open[j] /\ open' = [open EXCEPT ![j] = FALSE] /\ At(t, "unlist")
        BY <1>10, <2>3 DEF ThreadShuts, Shut, IsOpen
      <4>2. th'[t].pc = "unlist" /\ th'[t].conn = th[t].conn BY <1>0, <4>1 DEF At, ThreadRec
      <4> QED BY <4>1, <4>2 DEF ThreadHolds
    <3>2. One(open'[i]) = IF i = j THEN 0 ELSE One(open[i]) BY <1>0, <3>1
    <3>3. i = j => One(open[i]) = 1 BY <3>1
    <3>4. H' = H + One(i = j) BY <1>1, <1>4, <2>1, <3>1
    <3> HIDE DEF F, H, j, One
    <3>5. CASE i = j
      BY <1>1, <1>2, <1>5, <1>13, <2>1, <2>2, <3>2, <3>3, <3>4, <3>5 DEF One
    <3>6. CASE i # j
      BY <1>1, <1>2, <1>5, <1>13, <2>1, <2>2, <3>2, <3>3, <3>4, <3>6 DEF One
    <3> QED BY <3>5, <3>6
  <2>4. CASE ~IsOpen(th[t].conn)
    <3>1. open' = open /\ ~ThreadHolds(t, i)'
      BY <1>0, <1>10, <2>4 DEF ThreadShuts, ThreadHolds, ThIdle
    <3> QED BY <1>6, <2>1, <3>1
  <2> QED BY <2>3, <2>4
<1>11. CASE ThreadFrees(t)
  <2>1. /\ UNCHANGED <<open, grown>> /\ ~ThreadHolds(t, i)' /\ (ThreadHolds(t, i) <=> i = j)
        /\ free' = Append(free, j)
    BY <1>0, <1>11 DEF ThreadFrees, ThreadHolds, ThIdle
  <2>2. F' = F + One(i = j) BY <1>0, <2>1, InFreeAppend
  <2> HIDE DEF F, H, j
  <2> QED BY <1>1, <1>2, <1>4, <1>5, <2>1, <2>2
<1> QED BY <1>7, <1>8, <1>9, <1>10, <1>11 DEF ThreadStep

(* A step of the worker moves an entry from one place to another.          *)
LEMMA FreeWorker ==
  ASSUME TableTyped, TableTyped', FreeOnce,
         WorkerShuts \/ WorkerUnlists \/ WorkerFrees
  PROVE  FreeOnce'
<1> SUFFICES ASSUME NEW i \in Index PROVE Holders(i)' = One(i < grown')
  BY DEF FreeOnce, One
<1> DEFINE F == Cardinality(InFree(i))
           H == Cardinality(HeldBy(i))
           j == wk.conn.index
<1>0. /\ wk \in WorkerRec /\ j \in Index
      /\ open \in [Index -> BOOLEAN] /\ free \in Seq(Index) /\ grown \in 0 .. Entries
  BY DEF TableTyped, WorkerRec, ConnId
<1>1. F + H + One(open[i]) + One(WorkerHolds(i)) = One(i < grown) /\ F \in Nat /\ H \in Nat
  BY PlaceNumbers DEF FreeOnce, One
<1>2. Holders(i)' = F' + H' + One(open'[i]) + One(WorkerHolds(i)')
  BY PlaceNumbers
<1>3. /\ One(open[i]) \in {0, 1} /\ One(WorkerHolds(i)) \in {0, 1}
      /\ One(i < grown) \in {0, 1}
  BY DEF One
<1>4. H' = H /\ grown' = grown
  BY DEF WorkerShuts, WorkerUnlists, WorkerFrees, HeldBy, entryVars
<1>5. CASE WorkerShuts
  <2>1. F' = F /\ ~WorkerHolds(i) BY <1>5 DEF WorkerShuts, InFree, WorkerHolds
  <2>2. CASE IsOpen(wk.conn)
    <3>1. open[j] /\ open' = [open EXCEPT ![j] = FALSE] /\ (WorkerHolds(i)' <=> i = j)
      BY <1>0, <1>5, <2>2 DEF WorkerShuts, Shut, IsOpen, WorkerTo, WorkerHolds, WorkerRec
    <3>2. One(open'[i]) = (IF i = j THEN 0 ELSE One(open[i])) /\ (i = j => One(open[i]) = 1)
      BY <1>0, <3>1 DEF One
    <3>3. One(WorkerHolds(i)') = One(i = j) /\ One(WorkerHolds(i)) = 0 BY <2>1, <3>1 DEF One
    <3> HIDE DEF F, H, j
    <3>4. CASE i = j BY <1>1, <1>2, <1>3, <1>4, <2>1, <3>2, <3>3, <3>4 DEF One
    <3>5. CASE i # j BY <1>1, <1>2, <1>3, <1>4, <2>1, <3>2, <3>3, <3>5 DEF One
    <3> QED BY <3>4, <3>5
  <2>3. CASE ~IsOpen(wk.conn)
    <3>1. open' = open /\ ~WorkerHolds(i)'
      BY <1>0, <1>5, <2>3 DEF WorkerShuts, WorkerTo, WorkerHolds, WorkerRec
    <3>2. One(open'[i]) = One(open[i]) /\ One(WorkerHolds(i)') = One(WorkerHolds(i))
      BY <2>1, <3>1 DEF One
    <3> HIDE DEF F, H
    <3> QED BY <1>1, <1>2, <1>3, <1>4, <2>1, <3>2
  <2> QED BY <2>2, <2>3
<1>6. CASE WorkerUnlists
  <2>1. F' = F /\ open' = open /\ (WorkerHolds(i)' <=> WorkerHolds(i))
    BY <1>0, <1>6 DEF WorkerUnlists, InFree, WorkerTo, WorkerHolds, WorkerRec, entryVars
  <2>2. One(WorkerHolds(i)') = One(WorkerHolds(i)) BY <2>1 DEF One
  <2> HIDE DEF F, H
  <2> QED BY <1>1, <1>2, <1>3, <1>4, <2>1, <2>2
<1>7. CASE WorkerFrees
  <2>1. /\ open' = open /\ free' = Append(free, j)
        /\ ~WorkerHolds(i)' /\ (WorkerHolds(i) <=> i = j)
    BY <1>0, <1>7 DEF WorkerFrees, WorkerTo, WorkerHolds, WorkerRec
  <2>2. F' = F + One(i = j) BY <1>0, <2>1, InFreeAppend
  <2>3. One(WorkerHolds(i)') = 0 /\ One(WorkerHolds(i)) = One(i = j) BY <2>1 DEF One
  <2>4. One(i = j) \in {0, 1} BY DEF One
  <2> HIDE DEF F, H, j
  <2> QED BY <1>1, <1>2, <1>3, <1>4, <2>1, <2>2, <2>3, <2>4
<1> QED BY <1>5, <1>6, <1>7

(* The other steps of the worker hold no entry before or after.            *)
LEMMA FreeOther ==
  ASSUME TableTyped, FreeOnce,
         \/ \E s \in Slot : \/ Answer(s) \/ Request(s) \/ LeaseEnds(s) \/ Claim(s) \/ Abandon(s)
                            \/ NoAction(s)
         \/ \E c \in Claimed : Serve(c) \/ DropClaim(c) \/ EndServed(c)
         \/ Sweep \/ HostFails \/ CoreEnds \/ CoreStarts
         \/ NextConn \/ ClosesDone \/ Scan \/ ScanEnds,
         WorkerPlaced
  PROVE  FreeOnce'
<1>0. wk \in WorkerRec BY DEF TableTyped, WorkerRec
<1>1. UNCHANGED <<free, grown, open, th>>
  BY DEF Answer, Request, LeaseEnds, Claim, Abandon, NoAction, Serve, DropClaim, EndServed,
         Sweep, HostFails, CoreEnds, CoreStarts, NextConn, ClosesDone, Scan, ScanEnds, entryVars
<1>2. wk' = wk \/ (wk.pc \in {"idle", "next"} /\ wk'.pc \in {"idle", "next", "shut"})
  <2>1. ASSUME NEW s \in Slot,
               \/ Answer(s) \/ Request(s) \/ LeaseEnds(s) \/ Claim(s) \/ Abandon(s) \/ NoAction(s)
        PROVE  wk' = wk \/ (wk.pc = "idle" /\ wk'.pc = "next")
    BY <2>1 DEF Answer, Request, LeaseEnds, Claim, Abandon, NoAction, Begin, Idle
  <2>2. ASSUME NEW c \in Claimed, Serve(c) \/ DropClaim(c) \/ EndServed(c)
        PROVE  wk' = wk \/ (wk.pc = "idle" /\ wk'.pc = "next")
    BY <2>2 DEF Serve, DropClaim, EndServed, Begin, Idle
  <2>3. CASE Sweep \/ HostFails \/ CoreEnds \/ CoreStarts
    BY <2>3 DEF Sweep, HostFails, CoreEnds, CoreStarts, Begin, Idle, WorkerPlaced
  <2>4. CASE NextConn \/ Scan \/ ScanEnds
    <3>1. CASE NextConn BY <1>0, <3>1 DEF NextConn, WorkerRec
    <3>2. CASE Scan BY <1>0, <3>2 DEF Scan, WorkerRec
    <3>3. CASE ScanEnds BY <3>3 DEF ScanEnds, WkIdle
    <3> QED BY <2>4, <3>1, <3>2, <3>3
  <2>5. CASE ClosesDone
    <3>1. wk.pc = "next" BY <2>5 DEF ClosesDone
    <3>2. CASE wk.job = "fail" BY <2>5, <3>1, <3>2 DEF ClosesDone, Begin
    <3>3. CASE wk.job = "all" BY <1>0, <2>5, <3>1, <3>3 DEF ClosesDone, WorkerRec
    <3>4. CASE wk.job \notin {"fail", "all"} BY <2>5, <3>1, <3>4 DEF ClosesDone, WkIdle
    <3> QED BY <3>2, <3>3, <3>4
  <2> QED BY <2>1, <2>2, <2>3, <2>4, <2>5
<1>3. ASSUME NEW i \in Index PROVE Holders(i)' = Holders(i)
  BY <1>1, <1>2 DEF Holders, InFree, HeldBy
<1> QED BY <1>1, <1>3 DEF FreeOnce

(* An entry is in one place after every step.                              *)
LEMMA FreeStep ==
  ASSUME TableTyped, TableTyped', WorkerPlaced, FreeOnce, [TableNext]_tableVars
  PROVE  FreeOnce'
<1>1. CASE UNCHANGED tableVars
  BY <1>1 DEF FreeOnce, Holders, InFree, HeldBy, tableVars
<1> QED BY <1>1, FreeThread, FreeWorker, FreeOther DEF TableNext, WorkerStep

-----------------------------------------------------------------------------
(* The ids anyone holds.                                                   *)

(* The generation of an entry's word only grows.                           *)
LEMMA GenGrows ==
  ASSUME TableTyped, [TableNext]_tableVars
  PROVE  \A i \in Index : gen[i] <= gen'[i] /\ gen[i] \in Nat /\ gen'[i] \in Nat
<1>0. gen \in [Index -> Nat] BY DEF TableTyped
<1>1. gen' = gen \/ \E t \in Thread : OpenEntry(t)
  BY DEF TableNext, ThreadStep, Accept, TakeIndex, CheckLease, ListReservation, CountReservation,
         Record, ThreadShuts, ThreadUnlists, ThreadFrees, Answer, Request, LeaseEnds, Claim,
         Abandon, NoAction, Serve, DropClaim, EndServed, Sweep, HostFails, CoreEnds, CoreStarts,
         WorkerStep, NextConn, WorkerShuts, WorkerUnlists, WorkerFrees, ClosesDone, Scan, ScanEnds,
         entryVars, tableVars
<1>2. ASSUME NEW t \in Thread, OpenEntry(t)
      PROVE  \A i \in Index : gen[i] <= gen'[i] /\ gen'[i] \in Nat
  BY <1>0, <1>2 DEF OpenEntry
<1> QED BY <1>0, <1>1, <1>2

(* A connection a step newly holds is of its entry's word or of none.      *)
LEMMA NewlyHeld ==
  ASSUME TableTyped, TableTyped', WorkerPlaced, [TableNext]_tableVars, NEW c \in HeldIds'
  PROVE  c \in HeldIds \/ c.gen = 0 \/ c.gen = gen'[c.index]
<1>0. /\ th \in [Thread -> ThreadRec] /\ wk \in WorkerRec /\ action \in [Slot -> ConnId]
      /\ gen \in [Index -> Nat] /\ gen' \in [Index -> Nat]
  BY DEF TableTyped, ThreadRec, WorkerRec
<1>1. None.gen = 0 /\ WkIdle.todo = {} /\ WkIdle.conn = None /\ ThIdle.conn = None
  BY DEF None, WkIdle, ThIdle
<1>2. ASSUME NEW job, NEW todo \in SUBSET HeldIds, Begin(job, todo)
      PROVE  wk'.todo \subseteq HeldIds /\ wk'.conn = None
  BY <1>2 DEF Begin
<1>3. Listed' \subseteq HeldIds
  <2>1. \/ reserved' \subseteq reserved
        \/ \E t \in Thread : reserved' = reserved \cup {[conn |-> th[t].conn, slot |-> th[t].slot]}
    BY DEF TableNext, ThreadStep, Accept, TakeIndex, OpenEntry, CheckLease, ListReservation,
       CountReservation, Record, ThreadShuts, ThreadUnlists, ThreadFrees, Answer, Request,
       LeaseEnds, Claim, Abandon, NoAction, Serve, DropClaim, EndServed, Sweep, HostFails,
       CoreEnds, CoreStarts, WorkerStep, NextConn, WorkerShuts, WorkerUnlists, WorkerFrees,
       ClosesDone, Scan, ScanEnds, drop_reservation, listVars, tableVars
  <2> QED BY <2>1 DEF Listed, HeldIds
<1>4. claims' \cup served' \subseteq HeldIds
  <2>1. /\ claims' \subseteq claims \cup {action[s] : s \in Slot}
        /\ served' \subseteq served \cup claims
    BY DEF TableNext, ThreadStep, Accept, TakeIndex, OpenEntry, CheckLease, ListReservation,
       CountReservation, Record, ThreadShuts, ThreadUnlists, ThreadFrees, Answer, Request,
       LeaseEnds, Claim, Abandon, NoAction, Serve, DropClaim, EndServed, Sweep, HostFails,
       CoreEnds, CoreStarts, WorkerStep, NextConn, WorkerShuts, WorkerUnlists, WorkerFrees,
       ClosesDone, Scan, ScanEnds, ownVars, tableVars
  <2> QED BY <2>1 DEF HeldIds
<1>5. \A s \in Slot : action'[s] \in HeldIds
  <2>1. action' = action \/ \E t \in Thread : Record(t)
    BY DEF TableNext, ThreadStep, Accept, TakeIndex, OpenEntry, CheckLease, ListReservation,
       CountReservation, ThreadShuts, ThreadUnlists, ThreadFrees, Answer, Request,
       LeaseEnds, Claim, Abandon, NoAction, Serve, DropClaim, EndServed, Sweep, HostFails,
       CoreEnds, CoreStarts, WorkerStep, NextConn, WorkerShuts, WorkerUnlists, WorkerFrees,
       ClosesDone, Scan, ScanEnds, leaseVars, tableVars
  <2>2. ASSUME NEW t \in Thread, Record(t) PROVE \A s \in Slot : action'[s] \in HeldIds
    BY <1>0, <2>2 DEF Record, HeldIds
  <2> QED BY <2>1, <2>2 DEF HeldIds
<1>6. \A u \in Thread : LET d == th'[u].conn
                        IN  d \in HeldIds \/ d.gen = 0 \/ d.gen = gen'[d.index]
  <2>1. th' = th \/ \E t \in Thread : (\E s \in Slot : Accept(t, s)) \/ ThreadStep(t)
    BY DEF TableNext, Answer, Request, LeaseEnds, Claim, Abandon, NoAction, Serve, DropClaim,
       EndServed, Sweep, HostFails, CoreEnds, CoreStarts, WorkerStep, NextConn, WorkerShuts,
       WorkerUnlists, WorkerFrees, ClosesDone, Scan, ScanEnds, tableVars
  <2>2. ASSUME NEW t \in Thread, (\E s \in Slot : Accept(t, s)) \/ ThreadStep(t),
               NEW u \in Thread
        PROVE  LET d == th'[u].conn
               IN  d = th[u].conn \/ d.gen = 0 \/ d.gen = gen'[d.index]
    <3>0. th[t] \in ThreadRec /\ th[u] \in ThreadRec /\ th[t].conn \in ConnId
          /\ th[t].conn.index \in Index
      BY <1>0 DEF ThreadRec, ConnId
    <3>1. CASE u # t
      BY <1>0, <2>2, <3>1 DEF ThreadStep, Accept, TakeIndex, OpenEntry, CheckLease,
         ListReservation, CountReservation, Record, ThreadShuts, ThreadUnlists, ThreadFrees, At
    <3>2. CASE u = t /\ OpenEntry(t)
      BY <1>0, <3>0, <3>2 DEF OpenEntry, ThreadRec, ConnId
    <3>3. CASE u = t /\ ~OpenEntry(t)
      BY <1>0, <1>1, <2>2, <3>0, <3>3 DEF ThreadStep, Accept, TakeIndex, CheckLease,
         ListReservation, CountReservation, Record, ThreadShuts, ThreadUnlists, ThreadFrees, At,
         ThreadRec, None
    <3> QED BY <3>1, <3>2, <3>3
  <2> QED BY <2>1, <2>2 DEF HeldIds
<1>7. /\ wk'.conn \in HeldIds \/ wk'.conn.gen = 0
      /\ \A d \in wk'.todo : d \in HeldIds \/ d.gen = gen'[d.index]
  <2>1. CASE wk' = wk BY <2>1 DEF HeldIds
  <2>2. ASSUME NEW job, NEW todo \in SUBSET HeldIds, Begin(job, todo)
        PROVE  /\ wk'.conn \in HeldIds \/ wk'.conn.gen = 0
               /\ \A d \in wk'.todo : d \in HeldIds \/ d.gen = gen'[d.index]
    BY <1>1, <1>2, <2>2
  <2>3. ASSUME NEW t \in Thread, (\E s \in Slot : Accept(t, s)) \/ ThreadStep(t)
        PROVE  wk' = wk
    BY <2>3 DEF ThreadStep, Accept, TakeIndex, OpenEntry, CheckLease,
         ListReservation, CountReservation, Record, ThreadShuts, ThreadUnlists, ThreadFrees
  <2>4. ASSUME NEW s \in Slot,
               \/ Answer(s) \/ Request(s) \/ LeaseEnds(s) \/ Claim(s) \/ Abandon(s) \/ NoAction(s)
        PROVE  wk' = wk \/ \E todo \in SUBSET HeldIds : Begin("one", todo)
    <3>1. {action[s]} \in SUBSET HeldIds BY DEF HeldIds
    <3> QED BY <2>4, <3>1 DEF Answer, Request, LeaseEnds, Claim, Abandon, NoAction
  <2>5. ASSUME NEW d \in Claimed, Serve(d) \/ DropClaim(d) \/ EndServed(d)
        PROVE  wk' = wk \/ \E todo \in SUBSET HeldIds : Begin("one", todo)
    <3>1. {d} \in SUBSET HeldIds BY DEF HeldIds, Claimed
    <3> QED BY <2>5, <3>1 DEF Serve, DropClaim, EndServed
  <2>6. CASE Sweep \/ HostFails \/ CoreEnds \/ CoreStarts
    <3>1. /\ {r.conn : r \in {x \in reserved : lease[x.slot] = "gone"}} \in SUBSET HeldIds
          /\ claims \in SUBSET HeldIds
          /\ (IF count = 0 THEN {} ELSE Listed) \in SUBSET HeldIds
      BY DEF HeldIds, Listed
    <3> QED BY <2>2, <2>6, <3>1 DEF Sweep, HostFails, CoreEnds, CoreStarts
  <2>7. CASE NextConn
    BY <1>0, <2>7 DEF NextConn, WorkerRec, HeldIds
  <2>8. CASE WorkerShuts \/ WorkerUnlists \/ WorkerFrees
    BY <1>0, <2>8 DEF WorkerShuts, WorkerUnlists, WorkerFrees, WorkerTo, WorkerRec, HeldIds
  <2>9. CASE ClosesDone
    <3>1. CASE wk.job = "fail"
      <4>1. (IF count = 0 THEN {} ELSE Listed) \in SUBSET HeldIds BY DEF HeldIds
      <4> QED BY <2>2, <2>9, <3>1, <4>1 DEF ClosesDone
    <3>2. CASE wk.job = "all" BY <1>0, <2>9, <3>2 DEF ClosesDone, WorkerRec, HeldIds
    <3>3. CASE wk.job \notin {"fail", "all"} BY <1>1, <2>9, <3>3 DEF ClosesDone
    <3> QED BY <3>1, <3>2, <3>3
  <2>10. CASE Scan
    <3>1. wk'.conn = wk.conn /\ gen' = gen
          /\ wk'.todo \subseteq {[index |-> wk.at, gen |-> gen[wk.at]]}
      BY <1>0, <2>10 DEF Scan, WorkerRec, entryVars
    <3> QED BY <3>1 DEF HeldIds
  <2>11. CASE ScanEnds BY <1>1, <2>11 DEF ScanEnds
  <2>12. CASE UNCHANGED tableVars BY <2>1, <2>12 DEF tableVars
  <2> QED BY <2>1, <2>2, <2>3, <2>4, <2>5, <2>6, <2>7, <2>8, <2>9, <2>10, <2>11, <2>12
          DEF TableNext, WorkerStep
<1>8. \/ c \in Listed' \/ c \in claims' \cup served' \/ c \in wk'.todo \/ c = wk'.conn
      \/ \E t \in Thread : c = th'[t].conn
      \/ \E s \in Slot : c = action'[s]
  BY DEF HeldIds
<1> QED BY <1>3, <1>4, <1>5, <1>6, <1>7, <1>8

(* Every id that is held stays behind its entry's word.                    *)
LEMMA BehindStep ==
  ASSUME TableTyped, TableTyped', WorkerPlaced, IdsBehind, [TableNext]_tableVars
  PROVE  IdsBehind'
<1> SUFFICES ASSUME NEW c \in HeldIds' PROVE c.gen <= gen'[c.index]
  BY DEF IdsBehind, Known
<1>1. c \in ConnId
  BY DEF HeldIds, Listed, TableTyped, ThreadRec, Reservation
<1>2. c.index \in Index /\ c.gen \in Nat BY <1>1 DEF ConnId
<1>3. gen[c.index] <= gen'[c.index] /\ gen[c.index] \in Nat /\ gen'[c.index] \in Nat
  BY <1>2, GenGrows
<1>4. c \in HeldIds => c.gen <= gen[c.index] BY DEF IdsBehind, Known
<1> QED BY <1>2, <1>3, <1>4, NewlyHeld

WorkerSteps ==
  \/ \E s \in Slot : \/ Answer(s) \/ Request(s) \/ LeaseEnds(s) \/ Claim(s) \/ Abandon(s)
                     \/ NoAction(s)
  \/ \E c \in Claimed : Serve(c) \/ DropClaim(c) \/ EndServed(c)
  \/ Sweep \/ HostFails \/ CoreEnds \/ CoreStarts
  \/ WorkerStep

(* What a step of the worker leaves alone.                                 *)
LEMMA WorkerFrame ==
  ASSUME WorkerSteps
  PROVE  /\ UNCHANGED <<th, gen, grown, action>>
         /\ UNCHANGED listVars \/ \E c : drop_reservation(c)
BY DEF WorkerSteps, Answer, Request, LeaseEnds, Claim, Abandon, NoAction, Serve, DropClaim,
       EndServed, Sweep, HostFails, CoreEnds, CoreStarts, WorkerStep, NextConn, WorkerShuts,
       WorkerUnlists, WorkerFrees, ClosesDone, Scan, ScanEnds, entryVars, leaseVars

ThreadSteps(t) == (\E s \in Slot : Accept(t, s)) \/ ThreadStep(t)

(* What a step of a thread leaves alone.                                   *)
LEMMA ThreadFrame ==
  ASSUME TableTyped, NEW t \in Thread, ThreadSteps(t)
  PROVE  /\ UNCHANGED <<lease, coreVars, ownVars, wk>>
         /\ \A u \in Thread \ {t} : th'[u] = th[u]
<1>1. th \in [Thread -> ThreadRec] BY DEF TableTyped, ThreadRec
<1> QED BY <1>1 DEF ThreadSteps, ThreadStep, Accept, TakeIndex, OpenEntry, CheckLease,
     ListReservation, CountReservation, Record, ThreadShuts, ThreadUnlists, ThreadFrees, At,
     leaseVars

(* Every step is one of a thread, one of the worker, or none.              *)
LEMMA StepSplit ==
  ASSUME [TableNext]_tableVars
  PROVE  (\E t \in Thread : ThreadSteps(t)) \/ WorkerSteps \/ UNCHANGED tableVars
BY DEF TableNext, ThreadSteps, WorkerSteps

(* A dropped reservation leaves the others on the list.                    *)
LEMMA DropShrinks ==
  ASSUME NEW c, drop_reservation(c)
  PROVE  reserved' \subseteq reserved /\ Listed' \subseteq Listed /\ Listed \subseteq Listed' \cup {c}
BY DEF drop_reservation, Listed, listVars

(* Reservations stay apart: no connection is listed twice.                 *)
LEMMA ListedStep ==
  ASSUME TableTyped, TableTyped', IdsBehind, ListedOnce, [TableNext]_tableVars
  PROVE  ListedOnce'
<1>0. /\ th \in [Thread -> ThreadRec] /\ gen \in [Index -> Nat] /\ reserved \subseteq Reservation
  BY DEF TableTyped, ThreadRec
<1>1. ASSUME reserved' \subseteq reserved,
             \A u \in Thread : Reserving(u)' => Reserving(u) /\ th'[u].conn = th[u].conn
      PROVE  ListedOnce'
  <2>1. Listed' \subseteq Listed BY <1>1 DEF Listed
  <2> QED BY <1>1, <2>1 DEF ListedOnce
<1>2. CASE WorkerSteps
  <2>1. reserved' \subseteq reserved BY <1>2, WorkerFrame, DropShrinks DEF listVars
  <2> QED BY <1>1, <1>2, <2>1, WorkerFrame DEF Reserving
<1>3. CASE UNCHANGED tableVars BY <1>1, <1>3 DEF tableVars, Reserving
<1>4. ASSUME NEW t \in Thread, ThreadSteps(t) PROVE ListedOnce'
  <2>0. /\ th[t] \in ThreadRec /\ th[t].conn \in ConnId
        /\ th[t].conn.index \in Index /\ gen[th[t].conn.index] \in Nat
    BY <1>0 DEF ThreadRec, ConnId
  <2>1. \A u \in Thread \ {t} : th'[u] = th[u] BY <1>4, ThreadFrame
  <2>2. ASSUME reserved' \subseteq reserved,
               Reserving(t)' => Reserving(t) /\ th'[t].conn = th[t].conn
        PROVE  ListedOnce'
    BY <1>1, <2>1, <2>2 DEF Reserving
  <2>3. CASE OpenEntry(t)
    <3> DEFINE d == th[t].conn
    <3>1. /\ reserved' = reserved /\ th'[t].pc = "check"
          /\ th'[t].conn = [d EXCEPT !.gen = gen[d.index] + 1]
      BY <1>0, <2>0, <2>3 DEF OpenEntry, listVars, ThreadRec
    <3>2. th'[t].conn.index = d.index /\ th'[t].conn.gen = gen[d.index] + 1
      BY <2>0, <3>1 DEF ConnId
    <3>3. ~Known(th'[t].conn) BY <2>0, <3>2 DEF Known
    <3>4. Listed' = Listed /\ \A e \in Listed : e # th'[t].conn
      BY <3>1, <3>3 DEF Listed, IdsBehind, HeldIds
    <3>5. \A u \in Thread \ {t} : th[u].conn # th'[t].conn
      BY <3>3 DEF IdsBehind, HeldIds
    <3>6. th'[t].conn.gen > 0 BY <2>0, <3>2
    <3>7. \A u \in Thread \ {t} : Reserving(u)' => Reserving(u) /\ th'[u].conn = th[u].conn
      BY <2>1 DEF Reserving
    <3> HIDE DEF d
    <3>8. \A u \in Thread : Reserving(u)' => th'[u].conn.gen > 0 /\ th'[u].conn \notin Listed'
      BY <3>4, <3>6, <3>7 DEF ListedOnce
    <3>9. \A u, v \in Thread : Reserving(u)' /\ Reserving(v)' /\ u # v => th'[u].conn # th'[v].conn
      BY <3>5, <3>7 DEF ListedOnce
    <3>10. \A p, q \in reserved' : p.conn = q.conn => p = q BY <3>1 DEF ListedOnce
    <3> QED BY <3>8, <3>9, <3>10 DEF ListedOnce
  <2>4. CASE ListReservation(t)
    <3> DEFINE r == [conn |-> th[t].conn, slot |-> th[t].slot]
    <3>1. Reserving(t) /\ ~Reserving(t)' /\ reserved' = reserved \cup {r}
      BY <1>0, <2>0, <2>4 DEF ListReservation, Reserving, At, ThreadRec
    <3>2. r.conn \notin Listed BY <3>1 DEF ListedOnce
    <3>3. Listed' = Listed \cup {r.conn} BY <3>1 DEF Listed
    <3>4. \A u \in Thread \ {t} : Reserving(u)' => Reserving(u) /\ th'[u].conn = th[u].conn
      BY <2>1 DEF Reserving
    <3>5. \A u \in Thread : Reserving(u)' => th'[u].conn.gen > 0 /\ th'[u].conn \notin Listed'
      BY <3>1, <3>3, <3>4 DEF ListedOnce
    <3>6. \A u, v \in Thread : Reserving(u)' /\ Reserving(v)' /\ u # v => th'[u].conn # th'[v].conn
      BY <3>1, <3>4 DEF ListedOnce
    <3>7. \A q \in reserved : q.conn # r.conn BY <3>2 DEF Listed
    <3>8. \A p, q \in reserved' : p.conn = q.conn => p = q BY <3>1, <3>7 DEF ListedOnce
    <3> QED BY <3>5, <3>6, <3>8 DEF ListedOnce
  <2>5. CASE CheckLease(t)
    BY <1>0, <2>0, <2>2, <2>5 DEF CheckLease, Reserving, At, listVars, ThreadRec
  <2>6. CASE ThreadUnlists(t)
    BY <1>0, <2>0, <2>2, <2>6, DropShrinks DEF ThreadUnlists, Reserving, At, ThreadRec
  <2>7. CASE \/ \E s \in Slot : Accept(t, s)
             \/ TakeIndex(t) \/ CountReservation(t) \/ Record(t) \/ ThreadShuts(t) \/ ThreadFrees(t)
    <3>1. reserved' = reserved
      BY <2>7 DEF Accept, TakeIndex, CountReservation, Record, ThreadShuts, ThreadFrees, listVars
    <3>2. ~Reserving(t)'
      BY <1>0, <2>0, <2>7 DEF Accept, TakeIndex, CountReservation, Record, ThreadShuts,
         ThreadFrees, Reserving, At, ThIdle, ThreadRec
    <3> QED BY <2>2, <3>1, <3>2
  <2> QED BY <1>4, <2>3, <2>4, <2>5, <2>6, <2>7 DEF ThreadSteps, ThreadStep
<1> QED BY <1>2, <1>3, <1>4, StepSplit

(* A dropped reservation is one that was counted.                          *)
LEMMA DropCounted ==
  ASSUME TableTyped, ListedOnce, Counted, NEW c, drop_reservation(c), UNCHANGED Counting
  PROVE  Counted'
<1>0. IsFiniteSet(reserved) /\ count \in Nat BY DEF TableTyped
<1>1. IsFiniteSet(Counting) BY TableAssumption, FS_Subset DEF Counting
<1>2. Cardinality(reserved) \in Nat /\ Cardinality(Counting) \in Nat
  BY <1>0, <1>1, FS_CardinalityType
<1>3. CASE UNCHANGED listVars BY <1>3 DEF Counted, listVars
<1>4. CASE ~UNCHANGED listVars
  <2>1. PICK r \in reserved : r.conn = c BY <1>4 DEF drop_reservation, Listed
  <2>2. reserved' = reserved \ {r} BY <1>4, <2>1 DEF drop_reservation, ListedOnce
  <2>3. Cardinality(reserved') = Cardinality(reserved) - 1 BY <1>0, <2>1, <2>2, FS_RemoveElement
  <2>4. count' = count - 1 BY <1>4 DEF drop_reservation
  <2> QED BY <1>0, <1>2, <2>3, <2>4 DEF Counted
<1> QED BY <1>3, <1>4

(* The count never leads the list, whoever takes a reservation off first.  *)
LEMMA CountedStep ==
  ASSUME TableTyped, TableTyped', ListedOnce, Counted, [TableNext]_tableVars
  PROVE  Counted'
<1>0. th \in [Thread -> ThreadRec] /\ count \in Nat /\ IsFiniteSet(reserved)
  BY DEF TableTyped, ThreadRec
<1>1. CASE UNCHANGED <<listVars, Counting>> BY <1>1 DEF Counted, listVars
<1>2. CASE WorkerSteps
  <2>1. UNCHANGED Counting BY <1>2, WorkerFrame DEF Counting
  <2> QED BY <1>1, <1>2, <2>1, WorkerFrame, DropCounted
<1>3. CASE UNCHANGED tableVars BY <1>1, <1>3 DEF tableVars, listVars, Counting
<1>4. ASSUME NEW t \in Thread, ThreadSteps(t) PROVE Counted'
  <2>0. th[t] \in ThreadRec BY <1>0
  <2>1. \A u \in Thread \ {t} : th'[u] = th[u] BY <1>4, ThreadFrame
  <2>2. /\ IsFiniteSet(Counting) /\ IsFiniteSet(Counting')
        /\ Counting \ {t} = Counting' \ {t}
    BY <2>1, TableAssumption, FS_Subset DEF Counting
  <2>3. /\ Cardinality(Counting) \in Nat /\ Cardinality(Counting') \in Nat
        /\ Cardinality(Counting') = Cardinality(Counting) + One(t \in Counting') - One(t \in Counting)
    BY <2>2, DifferByOne
  <2>4. (t \in Counting <=> th[t].pc = "count") /\ (t \in Counting' <=> th'[t].pc = "count")
    BY DEF Counting
  <2>5. CASE ListReservation(t)
    <3> DEFINE r == [conn |-> th[t].conn, slot |-> th[t].slot]
    <3>1. Reserving(t) /\ th[t].pc = "list" /\ th'[t].pc = "count"
          /\ reserved' = reserved \cup {r} /\ count' = count
      BY <1>0, <2>0, <2>5 DEF ListReservation, Reserving, At, ThreadRec
    <3>2. r \notin reserved
      <4>1. r.conn \notin Listed BY <3>1 DEF ListedOnce
      <4> QED BY <4>1 DEF Listed
    <3>3. Cardinality(reserved') = Cardinality(reserved) + 1 BY <1>0, <3>1, <3>2, FS_AddElement
    <3>4. Cardinality(Counting') = Cardinality(Counting) + 1 BY <2>3, <2>4, <3>1 DEF One
    <3> QED BY <1>0, <2>3, <3>1, <3>3, <3>4 DEF Counted
  <2>6. CASE CountReservation(t)
    <3>1. th[t].pc = "count" /\ th'[t].pc = "record" /\ reserved' = reserved /\ count' = count + 1
      BY <1>0, <2>0, <2>6 DEF CountReservation, At, ThreadRec
    <3>2. Cardinality(Counting') = Cardinality(Counting) - 1 BY <2>3, <2>4, <3>1 DEF One
    <3> QED BY <1>0, <2>3, <3>1, <3>2 DEF Counted
  <2>7. CASE th[t].pc # "count" /\ th'[t].pc # "count"
    <3>1. UNCHANGED Counting BY <2>2, <2>4, <2>7
    <3>2. CASE ThreadUnlists(t) BY <3>1, <3>2, DropCounted DEF ThreadUnlists
    <3>3. CASE ~ThreadUnlists(t)
      <4>1. ~ListReservation(t) /\ ~CountReservation(t)
        BY <1>0, <2>0, <2>7 DEF ListReservation, CountReservation, At, ThreadRec
      <4>2. UNCHANGED listVars
        BY <1>4, <3>3, <4>1 DEF ThreadSteps, ThreadStep, Accept, TakeIndex, OpenEntry,
           CheckLease, Record, ThreadShuts, ThreadFrees
      <4> QED BY <1>1, <3>1, <4>2
    <3> QED BY <3>2, <3>3
  <2>8. ListReservation(t) \/ CountReservation(t) \/ (th[t].pc # "count" /\ th'[t].pc # "count")
    BY <1>0, <1>4, <2>0 DEF ThreadSteps, ThreadStep, Accept, TakeIndex, OpenEntry, CheckLease,
       Record, ThreadShuts, ThreadUnlists, ThreadFrees, At, ThIdle, ThreadRec
  <2> QED BY <2>5, <2>6, <2>7, <2>8
<1> QED BY <1>2, <1>3, <1>4, StepSplit

-----------------------------------------------------------------------------
(* Which connections are open.                                             *)

(* An entry about to be opened is closed.                                  *)
LEMMA TakenClosed ==
  ASSUME TableTyped, FreeOnce, NEW t \in Thread, th[t].pc = "open"
  PROVE  open[th[t].conn.index] = FALSE
<1> DEFINE i == th[t].conn.index
<1>1. i \in Index /\ open \in [Index -> BOOLEAN] BY DEF TableTyped, ConnId
<1>2. Len(free) \in Nat /\ DOMAIN free = 1 .. Len(free) BY DEF TableTyped
<1>3. IsFiniteSet(1 .. Len(free)) BY <1>2, FS_Interval
<1>4. IsFiniteSet(InFree(i)) BY <1>2, <1>3, FS_Subset DEF InFree
<1>5. IsFiniteSet(HeldBy(i)) BY TableAssumption, FS_Subset DEF HeldBy
<1>6. Cardinality(InFree(i)) \in Nat BY <1>4, FS_CardinalityType
<1>7. HeldBy(i) # {} BY DEF HeldBy
<1>8. Cardinality(HeldBy(i)) \in Nat \ {0} BY <1>5, <1>7, FS_CardinalityType, FS_EmptySet
<1>9. Holders(i) <= 1 BY <1>1 DEF FreeOnce
<1>10. open[i] => Holders(i) > 1 BY <1>6, <1>8 DEF Holders
<1>11. Holders(i) \in Nat BY <1>6, <1>8 DEF Holders
<1> QED BY <1>1, <1>9, <1>10, <1>11

(* Which words a step opens and closes.                                    *)
LEMMA OpenChanges ==
  ASSUME TableTyped, [TableNext]_tableVars
  PROVE  \/ UNCHANGED <<gen, open>>
         \/ \E t \in Thread : OpenEntry(t)
         \/ /\ gen' = gen
            /\ \E c \in ConnId : open' = [open EXCEPT ![c.index] = FALSE] /\ IsOpen(c)
<1>1. \A t \in Thread : th[t].conn \in ConnId BY DEF TableTyped
<1>2. wk.conn \in ConnId BY DEF TableTyped
<1>3. ASSUME NEW t \in Thread, ThreadSteps(t), ~OpenEntry(t), ~ThreadShuts(t)
      PROVE  UNCHANGED <<gen, open>>
  BY <1>3 DEF ThreadSteps, ThreadStep, Accept, TakeIndex, CheckLease, ListReservation,
     CountReservation, Record, ThreadUnlists, ThreadFrees, entryVars
<1>4. ASSUME NEW t \in Thread, ThreadShuts(t)
      PROVE  /\ gen' = gen
             /\ \/ open' = open
                \/ open' = [open EXCEPT ![th[t].conn.index] = FALSE] /\ IsOpen(th[t].conn)
  BY <1>4 DEF ThreadShuts, Shut
<1>5. CASE WorkerSteps /\ ~WorkerShuts
  BY <1>5 DEF WorkerSteps, Answer, Request, LeaseEnds, Claim, Abandon, NoAction, Serve, DropClaim,
     EndServed, Sweep, HostFails, CoreEnds, CoreStarts, WorkerStep, NextConn, WorkerUnlists,
     WorkerFrees, ClosesDone, Scan, ScanEnds, entryVars
<1>6. CASE WorkerShuts
  BY <1>2, <1>6 DEF WorkerShuts, Shut
<1>7. CASE UNCHANGED tableVars BY <1>7 DEF tableVars
<1> QED BY <1>1, <1>3, <1>4, <1>5, <1>6, <1>7, StepSplit

(* A closed connection stays closed: its generation is never opened again. *)
LEMMA ClosedForGood ==
  ASSUME TableTyped, IdsBehind, [TableNext]_tableVars, NEW c \in HeldIds, c \in ConnId, ~IsOpen(c)
  PROVE  ~(open'[c.index] /\ gen'[c.index] = c.gen)
<1>1. c.index \in Index /\ c.gen \in Nat /\ c.gen <= gen[c.index]
      /\ gen \in [Index -> Nat] /\ open \in [Index -> BOOLEAN]
  BY DEF IdsBehind, Known, ConnId, TableTyped
<1>2. ASSUME NEW t \in Thread, OpenEntry(t) PROVE ~(open'[c.index] /\ gen'[c.index] = c.gen)
  <2> DEFINE j == th[t].conn.index
  <2>1. /\ j \in Index /\ gen' = [gen EXCEPT ![j] = gen[j] + 1]
        /\ open' = [open EXCEPT ![j] = TRUE]
    BY <1>2 DEF OpenEntry, TableTyped, ConnId
  <2>2. CASE c.index = j
    <3>1. gen'[c.index] = gen[c.index] + 1 BY <1>1, <2>1, <2>2
    <3> QED BY <1>1, <3>1 DEF IsOpen
  <2>3. CASE c.index # j BY <1>1, <2>1, <2>3 DEF IsOpen
  <2> QED BY <2>2, <2>3
<1>3. CASE UNCHANGED <<gen, open>> BY <1>3 DEF IsOpen
<1>4. ASSUME NEW d \in ConnId, open' = [open EXCEPT ![d.index] = FALSE], gen' = gen
      PROVE  ~(open'[c.index] /\ gen'[c.index] = c.gen)
  BY <1>1, <1>4 DEF IsOpen
<1> QED BY <1>2, <1>3, <1>4, OpenChanges

(* A reservation is dropped after its connection is closed.                *)
LEMMA DroppedStep ==
  ASSUME TableTyped, TableTyped', WorkerPlaced, IdsBehind, DroppedClosed, [TableNext]_tableVars
  PROVE  DroppedClosed'
<1>0. /\ th \in [Thread -> ThreadRec] /\ wk \in WorkerRec /\ open \in [Index -> BOOLEAN]
      /\ wk.conn \in ConnId /\ wk.conn.index \in Index
      /\ \A u \in Thread : th[u] \in ThreadRec /\ th[u].conn \in ConnId /\ th[u].conn.index \in Index
  BY DEF TableTyped, ThreadRec, WorkerRec, ConnId
<1>1. ASSUME NEW u \in Thread, th'[u].pc \in {"unlist", "free"} PROVE ~IsOpen(th[u].conn)'
  <2>1. th[u].conn \in HeldIds BY DEF HeldIds
  <2>2. CASE th[u].pc \in {"unlist", "free"} /\ th'[u].conn = th[u].conn
    BY <1>0, <2>1, <2>2, ClosedForGood DEF DroppedClosed, IsOpen
  <2>3. CASE ThreadShuts(u)
    <3>1. IsOpen(th[u].conn) /\ Shut(th[u].conn) /\ th'[u].conn = th[u].conn
      BY <1>0, <1>1, <2>3 DEF ThreadShuts, At, ThIdle, ThreadRec
    <3> QED BY <1>0, <3>1 DEF Shut, IsOpen
  <2>4. CASE th'[u] = th[u] BY <1>1, <2>2, <2>4
  <2>5. ASSUME ThreadSteps(u), ~ThreadShuts(u)
        PROVE  th[u].pc \in {"unlist", "free"} /\ th'[u].conn = th[u].conn
    BY <1>0, <1>1, <2>5 DEF ThreadSteps, ThreadStep, Accept, TakeIndex, OpenEntry, CheckLease,
       ListReservation, CountReservation, Record, ThreadUnlists, ThreadFrees, At, ThIdle, ThreadRec
  <2>6. CASE \E t \in Thread \ {u} : ThreadSteps(t) BY <2>4, <2>6, ThreadFrame
  <2>7. CASE WorkerSteps BY <2>4, <2>7, WorkerFrame
  <2>8. CASE UNCHANGED tableVars BY <2>4, <2>8 DEF tableVars
  <2> QED BY <2>2, <2>3, <2>5, <2>6, <2>7, <2>8, StepSplit
<1>2. ASSUME wk'.pc \in {"unlist", "unlistonly", "free"} PROVE ~IsOpen(wk.conn)'
  <2>1. wk.conn \in HeldIds BY DEF HeldIds
  <2>2. CASE wk.pc \in {"unlist", "unlistonly", "free"} /\ wk'.conn = wk.conn
    BY <1>0, <2>1, <2>2, ClosedForGood DEF DroppedClosed, IsOpen
  <2>3. CASE wk' = wk BY <1>2, <2>2, <2>3
  <2>4. CASE \E t \in Thread : ThreadSteps(t) BY <2>3, <2>4, ThreadFrame
  <2>5. CASE UNCHANGED tableVars BY <2>3, <2>5 DEF tableVars
  <2>6. CASE WorkerShuts
    <3>1. wk'.conn = wk.conn BY <1>0, <2>6 DEF WorkerShuts, WorkerTo, WorkerRec
    <3>2. CASE IsOpen(wk.conn)
      <4>1. Shut(wk.conn) BY <2>6, <3>2 DEF WorkerShuts
      <4> QED BY <1>0, <3>1, <4>1 DEF Shut, IsOpen
    <3>3. CASE ~IsOpen(wk.conn)
      <4>1. UNCHANGED <<open, gen>> BY <2>6, <3>3 DEF WorkerShuts
      <4> QED BY <3>1, <3>3, <4>1 DEF IsOpen
    <3> QED BY <3>2, <3>3
  <2>7. CASE WorkerUnlists \/ WorkerFrees
    BY <1>0, <1>2, <2>2, <2>7 DEF WorkerUnlists, WorkerFrees, WorkerTo, WorkerRec
  <2>8. CASE WorkerSteps /\ ~(WorkerShuts \/ WorkerUnlists \/ WorkerFrees)
    <3>1. wk' = wk \/ wk'.pc \in {"idle", "next", "shut"}
      <4>1. ASSUME NEW job, NEW todo, Begin(job, todo) PROVE wk'.pc = "next" BY <4>1 DEF Begin
      <4>2. WkIdle.pc = "idle" BY DEF WkIdle
      <4>3. CASE ClosesDone
        <5>1. CASE wk.job = "fail" BY <4>1, <4>3, <5>1 DEF ClosesDone
        <5>2. CASE wk.job = "all" BY <1>0, <4>3, <5>2 DEF ClosesDone, WorkerRec
        <5>3. CASE wk.job \notin {"fail", "all"} BY <4>2, <4>3, <5>3 DEF ClosesDone
        <5> QED BY <5>1, <5>2, <5>3
      <4>4. CASE NextConn BY <1>0, <4>4 DEF NextConn, WorkerRec
      <4>5. CASE Scan BY <1>0, <4>5 DEF Scan, WorkerRec
      <4>6. CASE ScanEnds BY <4>2, <4>6 DEF ScanEnds
      <4>7. CASE WorkerSteps /\ ~WorkerStep
        BY <4>1, <4>7 DEF WorkerSteps, Answer, Request, LeaseEnds, Claim, Abandon, NoAction, Serve,
           DropClaim, EndServed, Sweep, HostFails, CoreEnds, CoreStarts
      <4> QED BY <2>8, <4>3, <4>4, <4>5, <4>6, <4>7 DEF WorkerStep
    <3> QED BY <1>2, <2>3, <3>1
  <2> QED BY <2>4, <2>5, <2>6, <2>7, <2>8, StepSplit
<1> QED BY <1>1, <1>2 DEF DroppedClosed, IsOpen

(* No lease is alive while no core is up.                                  *)
LEMMA LeasesStep ==
  ASSUME TableTyped, WorkerPlaced, LeasesOver, [TableNext]_tableVars
  PROVE  LeasesOver'
<1>0. lease \in [Slot -> {"unused", "leased", "answered", "gone"}]
      /\ core \in {"up", "ending", "down", "starting"}
  BY DEF TableTyped
<1>1. CASE UNCHANGED <<lease, core>> BY <1>1 DEF LeasesOver
<1>2. ASSUME NEW t \in Thread, ThreadSteps(t) PROVE UNCHANGED <<lease, core>>
  BY <1>2, ThreadFrame DEF coreVars
<1>3. ASSUME NEW s \in Slot, Answer(s) PROVE LeasesOver'
  BY <1>0, <1>3 DEF Answer, LeasesOver, coreVars
<1>4. ASSUME NEW s \in Slot,
             Request(s) \/ LeaseEnds(s) \/ Claim(s) \/ Abandon(s) \/ NoAction(s)
      PROVE  core' = "up"
  BY <1>4 DEF Request, LeaseEnds, Claim, Abandon, NoAction, Idle, coreVars
<1>5. CASE \/ \E c \in Claimed : Serve(c) \/ DropClaim(c) \/ EndServed(c)
           \/ Sweep \/ HostFails \/ NextConn \/ WorkerShuts \/ WorkerUnlists \/ WorkerFrees
           \/ ClosesDone \/ Scan
  BY <1>1, <1>5 DEF Serve, DropClaim, EndServed, Sweep, HostFails, NextConn, WorkerShuts,
     WorkerUnlists, WorkerFrees, ClosesDone, Scan, leaseVars, coreVars
<1>6. CASE CoreEnds BY <1>6 DEF CoreEnds, LeasesOver, leaseVars
<1>7. CASE CoreStarts BY <1>7 DEF CoreStarts, LeasesOver, leaseVars
<1>8. CASE ScanEnds
  <2>1. core # "up" BY <1>8 DEF ScanEnds, WorkerPlaced
  <2> QED BY <1>8, <2>1 DEF ScanEnds, LeasesOver, leaseVars
<1>9. CASE UNCHANGED tableVars BY <1>1, <1>9 DEF tableVars
<1> QED BY <1>1, <1>2, <1>3, <1>4, <1>5, <1>6, <1>7, <1>8, <1>9, StepSplit
        DEF WorkerSteps, WorkerStep, LeasesOver

(* A thread that has yet to close a connection goes on having to.          *)
LEMMA UncheckedKept ==
  ASSUME TableTyped, NEW t \in Thread, ThreadSteps(t), NEW i \in Index,
         Unchecked(WordOf(i)), open'[i], gen'[i] = gen[i]
  PROVE  Unchecked(WordOf(i))'
<1>0. th \in [Thread -> ThreadRec] /\ th[t] \in ThreadRec /\ lease' = lease
      /\ open \in [Index -> BOOLEAN] /\ WordOf(i)' = WordOf(i)
  BY ThreadFrame DEF TableTyped, ThreadRec, WordOf
<1>1. \A u \in Thread \ {t} : th'[u] = th[u] BY ThreadFrame
<1>2. PICK u \in Thread : /\ th[u].conn = WordOf(i)
                          /\ \/ th[u].pc = "check" /\ lease[th[u].slot] # "leased"
                             \/ th[u].pc = "shut"
  BY DEF Unchecked
<1>3. CASE u # t BY <1>0, <1>1, <1>2, <1>3 DEF Unchecked
<1>4. CASE u = t
  <2>1. CASE CheckLease(t)
    <3>1. th[t].pc = "check" BY <2>1 DEF CheckLease
    <3>2. th'[t].conn = WordOf(i) /\ th'[t].pc = "shut"
      BY <1>0, <1>2, <1>4, <2>1, <3>1 DEF CheckLease, At, ThreadRec
    <3> QED BY <1>0, <3>2 DEF Unchecked
  <2>2. CASE ThreadShuts(t)
    <3>1. th[t].conn.index = i /\ th[t].conn.gen = gen[i] BY <1>2, <1>4 DEF WordOf
    <3>2. CASE IsOpen(th[t].conn)
      <4>1. open' = [open EXCEPT ![i] = FALSE] BY <2>2, <3>1, <3>2 DEF ThreadShuts, Shut
      <4> QED BY <1>0, <4>1
    <3>3. CASE ~IsOpen(th[t].conn)
      <4>1. open' = open BY <2>2, <3>3 DEF ThreadShuts
      <4> QED BY <3>1, <3>3, <4>1 DEF IsOpen
    <3> QED BY <3>2, <3>3
  <2>3. CASE ~CheckLease(t) /\ ~ThreadShuts(t)
    BY <1>2, <1>4, <2>3 DEF ThreadSteps, ThreadStep, Accept, TakeIndex, OpenEntry,
       ListReservation, CountReservation, Record, ThreadUnlists, ThreadFrees
  <2> QED BY <2>1, <2>2, <2>3
<1> QED BY <1>3, <1>4

(* What a thread opens, and which words stay as they are.                  *)
LEMMA ThreadOpens ==
  ASSUME TableTyped, FreeOnce, NEW t \in Thread, ThreadSteps(t), NEW i \in Index, open'[i]
  PROVE  \/ open[i] /\ gen'[i] = gen[i]
         \/ /\ th'[t].conn = WordOf(i)' /\ th'[t].pc = "check" /\ th'[t].slot \in Slot
<1>0. th \in [Thread -> ThreadRec] /\ th[t] \in ThreadRec /\ gen \in [Index -> Nat]
      /\ open \in [Index -> BOOLEAN] /\ th[t].conn \in ConnId /\ th[t].conn.index \in Index
  BY DEF TableTyped, ThreadRec, ConnId
<1>1. CASE OpenEntry(t)
  <2> DEFINE j == th[t].conn.index
  <2>1. CASE i = j
    <3>1. /\ th'[t].pc = "check" /\ th'[t].slot = th[t].slot
          /\ th'[t].conn = [th[t].conn EXCEPT !.gen = gen[j] + 1]
          /\ gen'[j] = gen[j] + 1
      BY <1>0, <1>1 DEF OpenEntry, ThreadRec
    <3>2. th'[t].conn = [index |-> j, gen |-> gen'[j]] BY <1>0, <3>1 DEF ConnId
    <3> QED BY <1>0, <2>1, <3>1, <3>2 DEF WordOf, ThreadRec
  <2>2. CASE i # j BY <1>0, <1>1, <2>2 DEF OpenEntry
  <2> QED BY <2>1, <2>2
<1>2. CASE ThreadShuts(t) BY <1>0, <1>2 DEF ThreadShuts, Shut
<1>3. CASE ~OpenEntry(t) /\ ~ThreadShuts(t)
  BY <1>3 DEF ThreadSteps, ThreadStep, Accept, TakeIndex, CheckLease, ListReservation,
     CountReservation, Record, ThreadUnlists, ThreadFrees, entryVars
<1> QED BY <1>1, <1>2, <1>3

(* While no core is up, what a thread opens it will close.                 *)
LEMMA DownOpens ==
  ASSUME TableTyped, FreeOnce, LeasesOver, core # "up",
         NEW t \in Thread, ThreadSteps(t), NEW i \in Index, open'[i],
         open[i] => Unchecked(WordOf(i))
  PROVE  Unchecked(WordOf(i))'
<1>1. CASE open[i] /\ gen'[i] = gen[i] BY <1>1, UncheckedKept
<1>2. CASE th'[t].conn = WordOf(i)' /\ th'[t].pc = "check" /\ th'[t].slot \in Slot
  <2>1. lease'[th'[t].slot] # "leased" BY <1>2, ThreadFrame DEF LeasesOver
  <2> QED BY <1>2, <2>1 DEF Unchecked
<1> QED BY <1>1, <1>2, ThreadOpens

(* An entry that has not grown is closed.                                  *)
LEMMA UngrownClosed ==
  ASSUME TableTyped, FreeOnce, NEW i \in Index, i >= grown
  PROVE  open[i] = FALSE
<1>1. i \in Nat /\ grown \in Nat /\ open \in [Index -> BOOLEAN]
  BY TableAssumption DEF TableTyped, Index
<1>2. Len(free) \in Nat /\ DOMAIN free = 1 .. Len(free) BY DEF TableTyped
<1>3. IsFiniteSet(1 .. Len(free)) BY <1>2, FS_Interval
<1>4. IsFiniteSet(InFree(i)) BY <1>2, <1>3, FS_Subset DEF InFree
<1>5. IsFiniteSet(HeldBy(i)) BY TableAssumption, FS_Subset DEF HeldBy
<1>6. Cardinality(InFree(i)) \in Nat /\ Cardinality(HeldBy(i)) \in Nat
  BY <1>4, <1>5, FS_CardinalityType
<1>7. ~(i < grown) BY <1>1
<1>8. Holders(i) = 0 BY <1>7 DEF FreeOnce
<1>9. open[i] => Holders(i) > 0 BY <1>6 DEF Holders
<1> QED BY <1>1, <1>8, <1>9

(* The scan of close_all misses no connection but one its thread closes.   *)
LEMMA ScanStep ==
  ASSUME TableTyped, TableTyped', WorkerPlaced, WorkerPlaced', FreeOnce, LeasesOver, ScanCloses,
         [TableNext]_tableVars
  PROVE  ScanCloses'
<1> SUFFICES ASSUME wk'.job = "scan", NEW i \in Index, open'[i], Passed(i)'
             PROVE  \/ WordOf(i)' \in wk'.todo
                    \/ wk'.pc = "shut" /\ wk'.conn = WordOf(i)'
                    \/ Unchecked(WordOf(i))'
  BY DEF ScanCloses
<1>0. /\ wk \in WorkerRec /\ open \in [Index -> BOOLEAN] /\ i \in Nat /\ wk.at \in Nat
      /\ wk.end \in Nat /\ grown \in Nat
  <2>1. wk \in WorkerRec /\ open \in [Index -> BOOLEAN] /\ grown \in 0 .. Entries
    BY DEF TableTyped, WorkerRec
  <2>2. wk.at \in Nat /\ wk.end \in 0 .. Entries BY <2>1 DEF WorkerRec
  <2>3. Entries \in Nat BY TableAssumption
  <2>4. i \in Nat /\ wk.end \in Nat /\ grown \in Nat BY <2>1, <2>2, <2>3 DEF Index
  <2> QED BY <2>1, <2>2, <2>4
<1>1. ASSUME NEW t \in Thread, ThreadSteps(t)
      PROVE  \/ WordOf(i)' \in wk'.todo
             \/ wk'.pc = "shut" /\ wk'.conn = WordOf(i)'
             \/ Unchecked(WordOf(i))'
  <2>1. wk' = wk BY <1>1, ThreadFrame
  <2>2. core # "up" BY <2>1 DEF WorkerPlaced
  <2>3. Passed(i) BY <2>1 DEF Passed
  <2>4. CASE open[i] => Unchecked(WordOf(i)) BY <1>1, <2>2, <2>4, DownOpens
  <2>5. CASE open[i] /\ ~Unchecked(WordOf(i))
    <3>1. WordOf(i) \in wk.todo \/ (wk.pc = "shut" /\ wk.conn = WordOf(i))
      BY <2>1, <2>3, <2>5 DEF ScanCloses
    <3>2. CASE gen'[i] = gen[i] BY <2>1, <3>1, <3>2 DEF WordOf
    <3>3. CASE th'[t].conn = WordOf(i)' /\ th'[t].pc = "check" /\ th'[t].slot \in Slot
      <4>1. lease'[th'[t].slot] # "leased" BY <1>1, <2>2, <3>3, ThreadFrame DEF LeasesOver
      <4> QED BY <3>3, <4>1 DEF Unchecked
    <3> QED BY <1>1, <3>2, <3>3, ThreadOpens
  <2> QED BY <2>4, <2>5
<1>2. ASSUME wk.job = "scan", open[i], Passed(i), UNCHANGED <<gen, th, lease>>,
             WordOf(i) \in wk.todo =>
               WordOf(i) \in wk'.todo \/ (wk'.pc = "shut" /\ wk'.conn = WordOf(i)),
             wk.pc = "shut" => wk.conn # WordOf(i)
      PROVE  \/ WordOf(i)' \in wk'.todo
             \/ wk'.pc = "shut" /\ wk'.conn = WordOf(i)'
             \/ Unchecked(WordOf(i))'
  <2>1. WordOf(i)' = WordOf(i) /\ (Unchecked(WordOf(i)) => Unchecked(WordOf(i))')
    BY <1>2 DEF WordOf, Unchecked
  <2> QED BY <1>2, <2>1 DEF ScanCloses
<1>3. CASE WorkerStep
  <2>0. UNCHANGED <<gen, th, lease>>
    BY <1>3 DEF WorkerStep, NextConn, WorkerShuts, WorkerUnlists, WorkerFrees, ClosesDone, Scan,
       ScanEnds, entryVars, leaseVars
  <2>1. CASE NextConn
    <3>1. PICK c \in wk.todo : wk' = [wk EXCEPT !.pc = "shut", !.conn = c, !.todo = @ \ {c}]
      BY <2>1 DEF NextConn
    <3>2. /\ wk.pc = "next" /\ open' = open /\ wk'.pc = "shut" /\ wk'.conn = c
          /\ wk'.todo = wk.todo \ {c} /\ wk.job = "scan" /\ wk'.at = wk.at /\ wk'.end = wk.end
      BY <1>0, <2>1, <3>1 DEF NextConn, entryVars, WorkerRec
    <3> QED BY <1>2, <2>0, <3>2 DEF Passed
  <2>2. CASE WorkerShuts
    <3>1. /\ wk.pc = "shut" /\ wk'.todo = wk.todo /\ wk.job = "scan" /\ wk'.at = wk.at
          /\ wk'.end = wk.end
      BY <1>0, <2>2 DEF WorkerShuts, WorkerTo, WorkerRec
    <3>2. open[i] /\ wk.conn # WordOf(i)
      <4>1. CASE IsOpen(wk.conn)
        <5>1. wk.conn.index \in Index BY DEF TableTyped, ConnId
        <5>2. open' = [open EXCEPT ![wk.conn.index] = FALSE] BY <2>2, <4>1 DEF WorkerShuts, Shut
        <5> QED BY <1>0, <5>1, <5>2 DEF WordOf
      <4>2. CASE ~IsOpen(wk.conn)
        <5>1. open' = open BY <2>2, <4>2 DEF WorkerShuts
        <5> QED BY <4>2, <5>1 DEF IsOpen, WordOf
      <4> QED BY <4>1, <4>2
    <3> QED BY <1>2, <2>0, <3>1, <3>2 DEF Passed
  <2>3. CASE WorkerUnlists \/ WorkerFrees
    <3>1. /\ wk.pc # "shut" /\ wk'.todo = wk.todo /\ wk.job = "scan" /\ wk'.at = wk.at
          /\ wk'.end = wk.end /\ open' = open
      BY <1>0, <2>3 DEF WorkerUnlists, WorkerFrees, WorkerTo, WorkerRec, entryVars
    <3> QED BY <1>2, <2>0, <3>1 DEF Passed
  <2>4. CASE ClosesDone
    <3>1. wk.job = "all" BY <2>4 DEF ClosesDone, Begin, WkIdle
    <3>2. wk'.at = 0 /\ wk'.end = grown /\ open' = open
      BY <1>0, <2>4, <3>1 DEF ClosesDone, WorkerRec, entryVars
    <3>3. i >= grown BY <1>0, <3>2 DEF Passed
    <3> QED BY <3>2, <3>3, UngrownClosed
  <2>5. CASE Scan
    <3>1. /\ wk.pc = "next" /\ wk.todo = {} /\ wk.job = "scan" /\ wk'.at = wk.at + 1
          /\ wk'.end = wk.end /\ open' = open
          /\ wk'.todo = IF open[wk.at] THEN {[index |-> wk.at, gen |-> gen[wk.at]]} ELSE {}
      BY <1>0, <2>5 DEF Scan, WorkerRec, entryVars
    <3>2. CASE Passed(i) BY <1>2, <2>0, <3>1, <3>2
    <3>3. CASE ~Passed(i)
      <4>1. i = wk.at BY <1>0, <3>1, <3>3 DEF Passed
      <4> QED BY <2>0, <3>1, <4>1 DEF WordOf
    <3> QED BY <3>2, <3>3
  <2>6. CASE ScanEnds BY <2>6 DEF ScanEnds, WkIdle
  <2> QED BY <1>3, <2>1, <2>2, <2>3, <2>4, <2>5, <2>6 DEF WorkerStep
<1>4. CASE WorkerSteps /\ ~WorkerStep
  <2>1. wk' = wk
    <3>1. ASSUME NEW job \in {"one", "sweep", "fail", "all"}, NEW todo, Begin(job, todo) PROVE FALSE
      BY <3>1 DEF Begin
    <3> QED BY <1>4, <3>1 DEF WorkerSteps, Answer, Request, LeaseEnds, Claim, Abandon, NoAction,
         Serve, DropClaim, EndServed, Sweep, HostFails, CoreEnds, CoreStarts
  <2>2. wk.pc # "idle" BY <2>1 DEF WorkerPlaced, WkIdle
  <2>3. PICK s \in Slot : Answer(s)
    BY <1>4, <2>2 DEF WorkerSteps, Request, LeaseEnds, Claim, Abandon, NoAction,
         Serve, DropClaim, EndServed, Sweep, HostFails, CoreEnds, CoreStarts, Idle, WorkerPlaced
  <2>4. core \in {"ending", "starting"} BY <2>1 DEF WorkerPlaced
  <2> QED BY <2>3, <2>4 DEF Answer, LeasesOver
<1>5. CASE UNCHANGED tableVars
  BY <1>5 DEF tableVars, ScanCloses, Passed, Unchecked, WordOf
<1> QED BY <1>1, <1>3, <1>4, <1>5, StepSplit

(* A stopped index leaves open only what a thread is about to close.       *)
LEMMA StoppedStep ==
  ASSUME TableTyped, WorkerPlaced, FreeOnce, LeasesOver, ScanCloses, StoppedClosed, [TableNext]_tableVars
  PROVE  StoppedClosed'
<1> SUFFICES ASSUME core' = "down", NEW i \in Index, open'[i] PROVE Unchecked(WordOf(i))'
  BY DEF StoppedClosed, WordOf
<1>0. wk \in WorkerRec /\ wk.at \in Nat /\ i \in Nat
  BY TableAssumption DEF TableTyped, WorkerRec, Index
<1>1. core = "down" => (open[i] => Unchecked(WordOf(i))) BY DEF StoppedClosed, WordOf
<1>2. ASSUME NEW t \in Thread, ThreadSteps(t) PROVE Unchecked(WordOf(i))'
  <2>1. core = "down" BY <1>2, ThreadFrame DEF coreVars
  <2> QED BY <1>1, <1>2, <2>1, DownOpens
<1>3. CASE ScanEnds
  <2>1. /\ wk.job = "scan" /\ wk.todo = {} /\ wk.pc = "next" /\ wk.at = wk.end
        /\ UNCHANGED <<gen, open, th, lease>>
    BY <1>3 DEF ScanEnds, entryVars, leaseVars
  <2>2. Passed(i) BY <1>0, <2>1 DEF Passed
  <2>3. Unchecked(WordOf(i)) BY <2>1, <2>2 DEF ScanCloses
  <2> QED BY <2>1, <2>3 DEF Unchecked, WordOf
<1>4. CASE WorkerSteps /\ ~ScanEnds
  <2>1. core = "down"
    BY <1>4 DEF WorkerSteps, Answer, Request, LeaseEnds, Claim, Abandon, NoAction, Serve,
       DropClaim, EndServed, Sweep, HostFails, CoreEnds, CoreStarts, WorkerStep, NextConn,
       WorkerShuts, WorkerUnlists, WorkerFrees, ClosesDone, Scan, coreVars
  <2>2. wk.pc = "idle" BY <2>1 DEF WorkerPlaced
  <2>3. PICK s \in Slot : Answer(s)
    BY <1>4, <2>1, <2>2 DEF WorkerSteps, Request, LeaseEnds, Claim, Abandon, NoAction, Serve,
       DropClaim, EndServed, Sweep, HostFails, CoreEnds, CoreStarts, WorkerStep, NextConn,
       WorkerShuts, WorkerUnlists, WorkerFrees, ClosesDone, Scan, Idle
  <2> QED BY <2>1, <2>3 DEF Answer, LeasesOver
<1>5. CASE UNCHANGED tableVars BY <1>1, <1>5 DEF tableVars, Unchecked, WordOf
<1> QED BY <1>2, <1>3, <1>4, <1>5, StepSplit

(* A step of a thread loses no open connection.                            *)
LEMMA CoveredThread ==
  ASSUME TableTyped, FreeOnce, DroppedClosed, Covered,
         NEW t \in Thread, ThreadSteps(t), NEW i \in Index, open'[i]
  PROVE  \/ WordOf(i)' \in claims' \cup served' \cup Listed'
         \/ ThreadHas(WordOf(i))' \/ WorkerHas(WordOf(i))'
<1>0. /\ th \in [Thread -> ThreadRec] /\ th[t] \in ThreadRec /\ open \in [Index -> BOOLEAN]
      /\ UNCHANGED <<claims, served, wk>>
      /\ \A u \in Thread \ {t} : th'[u] = th[u]
  BY ThreadFrame DEF TableTyped, ThreadRec, ownVars
<1>1. CASE th'[t].conn = WordOf(i)' /\ th'[t].pc = "check" BY <1>1 DEF ThreadHas
<1>2. CASE open[i] /\ gen'[i] = gen[i]
  <2>0. WordOf(i)' = WordOf(i) BY <1>2 DEF WordOf
  <2>1. CASE WordOf(i) \in claims \cup served BY <1>0, <2>0, <2>1
  <2>2. CASE WorkerHas(WordOf(i)) BY <1>0, <2>0, <2>2 DEF WorkerHas
  <2>3. CASE WordOf(i) \in Listed
    <3>1. CASE ThreadUnlists(t)
      <4>1. ~IsOpen(th[t].conn) BY <3>1 DEF ThreadUnlists, DroppedClosed
      <4>2. th[t].conn # WordOf(i) BY <1>2, <4>1 DEF IsOpen, WordOf
      <4>3. drop_reservation(th[t].conn) BY <3>1 DEF ThreadUnlists
      <4>4. WordOf(i) \in Listed' BY <2>3, <4>2, <4>3, DropShrinks
      <4> QED BY <2>0, <4>4
    <3>2. CASE ~ThreadUnlists(t)
      <4>1. reserved \subseteq reserved'
        BY <3>2 DEF ThreadSteps, ThreadStep, Accept, TakeIndex, OpenEntry, CheckLease,
           ListReservation, CountReservation, Record, ThreadShuts, ThreadFrees, listVars
      <4> QED BY <2>0, <2>3, <4>1 DEF Listed
    <3> QED BY <3>1, <3>2
  <2>4. CASE ThreadHas(WordOf(i))
    <3>1. PICK u \in Thread : th[u].conn = WordOf(i) /\ th[u].pc \in {"check", "list", "shut"}
      BY <2>4 DEF ThreadHas
    <3>2. CASE u # t BY <1>0, <2>0, <3>1, <3>2 DEF ThreadHas
    <3>3. CASE u = t
      <4>1. CASE CheckLease(t)
        <5>1. th'[t].conn = th[t].conn /\ th'[t].pc \in {"list", "shut"}
          BY <1>0, <4>1 DEF CheckLease, At, ThreadRec
        <5> QED BY <2>0, <3>1, <3>3, <5>1 DEF ThreadHas
      <4>2. CASE ListReservation(t)
        <5> DEFINE r == [conn |-> th[t].conn, slot |-> th[t].slot]
        <5>1. r \in reserved' BY <4>2 DEF ListReservation
        <5>2. r.conn = th[t].conn OBVIOUS
        <5> HIDE DEF r
        <5>3. th[t].conn \in Listed' BY <5>1, <5>2 DEF Listed
        <5> QED BY <2>0, <3>1, <3>3, <5>3
      <4>3. CASE ThreadShuts(t)
        <5>1. th[t].conn.index = i /\ th[t].conn.gen = gen[i] BY <3>1, <3>3 DEF WordOf
        <5>2. IsOpen(th[t].conn) BY <1>2, <5>1 DEF IsOpen
        <5>3. open' = [open EXCEPT ![i] = FALSE] BY <4>3, <5>1, <5>2 DEF ThreadShuts, Shut
        <5> QED BY <1>0, <5>3
      <4> QED BY <3>1, <3>3, <4>1, <4>2, <4>3 DEF ThreadSteps, ThreadStep, Accept, TakeIndex,
           OpenEntry, CountReservation, Record, ThreadUnlists, ThreadFrees
    <3> QED BY <3>2, <3>3
  <2> QED BY <1>2, <2>1, <2>2, <2>3, <2>4 DEF Covered
<1> QED BY <1>1, <1>2, ThreadOpens

(* A step of the worker loses no open connection.                          *)
LEMMA CoveredWorker ==
  ASSUME TableTyped, WorkerPlaced, DroppedClosed, ScanCloses, Covered, WorkerSteps,
         NEW i \in Index, open'[i]
  PROVE  \/ WordOf(i)' \in claims' \cup served' \cup Listed'
         \/ ThreadHas(WordOf(i))' \/ WorkerHas(WordOf(i))'
<1> DEFINE c == WordOf(i)
           Kept == c \in claims' \cup served' \cup Listed' \/ ThreadHas(c) \/ WorkerHas(c)'
<1>0. /\ wk \in WorkerRec /\ open \in [Index -> BOOLEAN] /\ UNCHANGED <<th, gen>>
      /\ wk.conn \in ConnId /\ wk.conn.index \in Index /\ i \in Nat /\ wk.at \in Nat
  <2>1. wk \in WorkerRec /\ open \in [Index -> BOOLEAN] BY DEF TableTyped, WorkerRec
  <2>2. UNCHANGED <<th, gen>> BY WorkerFrame
  <2>3. wk.conn \in ConnId /\ wk.at \in Nat BY <2>1 DEF WorkerRec
  <2>4. wk.conn.index \in Index BY <2>3 DEF ConnId
  <2>5. i \in Nat BY TableAssumption DEF Index
  <2> QED BY <2>1, <2>2, <2>3, <2>4, <2>5
<1>1. c' = c /\ c.index = i /\ (ThreadHas(c) => ThreadHas(c)') BY <1>0 DEF WordOf, ThreadHas
<1>2. open[i]
  BY <1>0 DEF WorkerSteps, Answer, Request, LeaseEnds, Claim, Abandon, NoAction, Serve, DropClaim,
     EndServed, Sweep, HostFails, CoreEnds, CoreStarts, WorkerStep, NextConn, WorkerShuts,
     WorkerUnlists, WorkerFrees, ClosesDone, Scan, ScanEnds, Shut, entryVars
<1>3. IsOpen(c) BY <1>1, <1>2 DEF IsOpen, WordOf
<1>4. c \in claims \cup served \cup Listed \/ ThreadHas(c) \/ WorkerHas(c)
  BY <1>2 DEF Covered
<1>5. wk.pc = "idle" => ~WorkerHas(c) BY DEF WorkerPlaced, WkIdle, WorkerHas
<1>6. ASSUME NEW job, NEW todo, Begin(job, todo), c \in todo \/ job = "all" PROVE WorkerHas(c)'
  <2>1. wk'.todo = todo /\ wk'.job = job BY <1>6 DEF Begin
  <2> QED BY <1>1, <1>6, <2>1 DEF WorkerHas
<1>7. SUFFICES Kept BY <1>1
<1> HIDE DEF c
<1>8. CASE \E s \in Slot : Answer(s) \/ Request(s) \/ LeaseEnds(s) \/ NoAction(s)
  <2>1. UNCHANGED <<claims, served, reserved, wk>>
    BY <1>8 DEF Answer, Request, LeaseEnds, NoAction, ownVars, listVars
  <2> QED BY <1>1, <1>4, <2>1 DEF Listed, WorkerHas
<1>9. ASSUME NEW s \in Slot, Claim(s) \/ Abandon(s) PROVE Kept
  <2>1. ~WorkerHas(c) BY <1>5, <1>9 DEF Claim, Abandon, Idle
  <2>2. served' = served /\ claims \subseteq claims' BY <1>9 DEF Claim, Abandon, ownVars
  <2>3. CASE UNCHANGED listVars BY <1>4, <2>1, <2>2, <2>3 DEF Listed, listVars
  <2>4. CASE drop_reservation(action[s]) /\ claims' = claims \cup {action[s]}
    BY <1>4, <2>1, <2>2, <2>4, DropShrinks
  <2> QED BY <1>9, <2>3, <2>4 DEF Claim, Abandon
<1>10. ASSUME NEW d \in Claimed, Serve(d) \/ DropClaim(d) \/ EndServed(d) PROVE Kept
  <2>1. ~WorkerHas(c) /\ Listed' = Listed
    BY <1>5, <1>10 DEF Serve, DropClaim, EndServed, Idle, Listed, listVars
  <2>2. CASE c # d
    BY <1>4, <1>10, <2>1, <2>2 DEF Serve, DropClaim, EndServed
  <2>3. CASE c = d
    BY <1>3, <1>4, <1>6, <1>10, <2>1, <2>3 DEF Serve, DropClaim, EndServed
  <2> QED BY <2>2, <2>3
<1>11. CASE Sweep \/ HostFails \/ CoreEnds \/ CoreStarts
  <2>1. ~WorkerHas(c) /\ Listed' = Listed
    BY <1>5, <1>11 DEF Sweep, HostFails, CoreEnds, CoreStarts, Idle, Listed, listVars, WorkerPlaced
  <2>2. CASE Sweep BY <1>4, <2>1, <2>2 DEF Sweep, ownVars
  <2>3. CASE HostFails BY <1>4, <1>6, <2>1, <2>3 DEF HostFails
  <2>4. CASE CoreEnds \/ CoreStarts BY <1>6, <2>4 DEF CoreEnds, CoreStarts
  <2> QED BY <1>11, <2>2, <2>3, <2>4
<1>12. CASE WorkerStep
  <2>0. UNCHANGED <<claims, served>>
    BY <1>12 DEF WorkerStep, NextConn, WorkerShuts, WorkerUnlists, WorkerFrees, ClosesDone, Scan,
       ScanEnds, ownVars
  <2>1. CASE NextConn
    <3>1. PICK d \in wk.todo : wk' = [wk EXCEPT !.pc = "shut", !.conn = d, !.todo = @ \ {d}]
      BY <2>1 DEF NextConn
    <3>2. /\ wk'.pc = "shut" /\ wk'.conn = d /\ wk'.todo = wk.todo \ {d} /\ wk'.job = wk.job
          /\ wk'.at = wk.at /\ wk.pc = "next" /\ reserved' = reserved
      BY <1>0, <2>1, <3>1 DEF NextConn, WorkerRec, listVars
    <3> QED BY <1>1, <1>4, <2>0, <3>2 DEF WorkerHas, Listed
  <2>2. CASE WorkerShuts
    <3>1. /\ wk'.todo = wk.todo /\ wk'.job = wk.job /\ wk'.at = wk.at /\ wk.pc = "shut"
          /\ reserved' = reserved
      BY <1>0, <2>2 DEF WorkerShuts, WorkerTo, WorkerRec, listVars
    <3>2. wk.conn # c
      <4>1. ASSUME wk.conn = c PROVE FALSE
        <5>1. open' = [open EXCEPT ![i] = FALSE] BY <1>1, <1>3, <2>2, <4>1 DEF WorkerShuts, Shut
        <5> QED BY <1>0, <5>1
      <4> QED BY <4>1
    <3> QED BY <1>1, <1>4, <2>0, <3>1, <3>2 DEF WorkerHas, Listed
  <2>3. CASE WorkerUnlists
    <3>1. /\ wk'.todo = wk.todo /\ wk'.job = wk.job /\ wk'.at = wk.at
          /\ wk.pc \in {"unlist", "unlistonly"} /\ drop_reservation(wk.conn)
      BY <1>0, <2>3 DEF WorkerUnlists, WorkerTo, WorkerRec
    <3>2. wk.conn # c BY <1>3, <3>1 DEF DroppedClosed
    <3>3. c \in Listed => c \in Listed' BY <3>1, <3>2, DropShrinks
    <3> QED BY <1>1, <1>4, <2>0, <3>1, <3>3 DEF WorkerHas
  <2>4. CASE WorkerFrees
    <3>1. /\ wk'.todo = wk.todo /\ wk'.job = wk.job /\ wk'.at = wk.at
          /\ wk.pc = "free" /\ reserved' = reserved
      BY <1>0, <2>4 DEF WorkerFrees, WorkerTo, WorkerRec, listVars
    <3> QED BY <1>1, <1>4, <2>0, <3>1 DEF WorkerHas, Listed
  <2>5. CASE ClosesDone
    <3>1. wk.pc = "next" /\ wk.todo = {} /\ wk.job # "scan" /\ Listed' = Listed
      BY <2>5 DEF ClosesDone, Listed, listVars
    <3>2. CASE wk.job = "all"
      <4>1. wk'.job = "scan" /\ wk'.at = 0 BY <1>0, <2>5, <3>2 DEF ClosesDone, WorkerRec
      <4> QED BY <1>0, <1>1, <4>1 DEF WorkerHas
    <3>3. CASE wk.job # "all" BY <1>4, <2>0, <3>1, <3>3 DEF WorkerHas
    <3> QED BY <3>2, <3>3
  <2>6. CASE Scan
    <3>1. /\ wk.pc = "next" /\ wk.todo = {} /\ wk.job = "scan" /\ wk'.job = "scan"
          /\ wk'.at = wk.at + 1 /\ Listed' = Listed
          /\ wk'.todo = IF open[wk.at] THEN {[index |-> wk.at, gen |-> gen[wk.at]]} ELSE {}
      BY <1>0, <2>6 DEF Scan, WorkerRec, Listed, listVars
    <3>2. CASE i = wk.at
      <4>1. c \in wk'.todo BY <1>2, <3>1, <3>2 DEF c, WordOf
      <4> QED BY <1>1, <4>1 DEF WorkerHas
    <3>3. CASE i # wk.at
      <4>1. wk.at <= i => wk'.at <= i BY <1>0, <3>1, <3>3
      <4> QED BY <1>1, <1>4, <2>0, <3>1, <4>1 DEF WorkerHas
    <3> QED BY <3>2, <3>3
  <2>7. CASE ScanEnds
    <3>1. wk.job = "scan" /\ wk.todo = {} /\ wk.pc = "next" /\ wk.at = wk.end
      BY <2>7 DEF ScanEnds
    <3>2. Passed(i) BY <1>0, <3>1 DEF Passed
    <3>3. Unchecked(c) BY <1>2, <3>1, <3>2 DEF ScanCloses, c
    <3> QED BY <3>3 DEF Unchecked, ThreadHas
  <2> QED BY <1>12, <2>1, <2>2, <2>3, <2>4, <2>5, <2>6, <2>7 DEF WorkerStep
<1> QED BY <1>8, <1>9, <1>10, <1>11, <1>12 DEF WorkerSteps

-----------------------------------------------------------------------------
(* The invariant.                                                          *)

(* An empty table satisfies it.                                            *)
LEMMA InitTable == TableInit => TableInv
<1> SUFFICES ASSUME TableInit PROVE TableInv OBVIOUS
<1>0. None.gen = 0 /\ None.index = 0 /\ ThIdle.conn = None /\ ThIdle.pc = "idle"
      /\ WkIdle.pc = "idle" /\ WkIdle.todo = {} /\ WkIdle.conn = None /\ WkIdle.job = "none"
      /\ WkIdle.at = 0 /\ WkIdle.end = 0
  BY DEF None, ThIdle, WkIdle
<1>1. /\ gen = [i \in Index |-> 0] /\ open = [i \in Index |-> FALSE] /\ free = <<>> /\ grown = 0
      /\ reserved = {} /\ count = 0 /\ claims = {} /\ served = {} /\ wk = WkIdle /\ core = "up"
      /\ \A t \in Thread : th[t] = ThIdle
      /\ \A s \in Slot : action[s] = None
  BY DEF TableInit
<1>2. IsFiniteSet(reserved) /\ Cardinality(reserved) = 0 BY <1>1, FS_EmptySet
<1>3. TableTyped
  <2>1. th \in [Thread -> ThreadRec] /\ wk \in WorkerRec /\ action \in [Slot -> ConnId]
    BY RestTyped DEF TableInit
  <2>2. grown \in 0 .. Entries /\ cores \in 0 .. MaxCores /\ count \in Nat
    BY TableAssumption DEF TableInit
  <2>3. free \in Seq(Index) BY <1>1
  <2>4. /\ gen \in [Index -> Nat] /\ open \in [Index -> BOOLEAN] /\ failed \in BOOLEAN
        /\ lease \in [Slot -> {"unused", "leased", "answered", "gone"}]
    BY DEF TableInit
  <2> QED BY <1>1, <1>2, <2>1, <2>2, <2>3, <2>4 DEF TableTyped, ThreadRec, WorkerRec
<1>4. WorkerPlaced BY <1>0, <1>1 DEF WorkerPlaced
<1>5. FreeOnce
  <2> SUFFICES ASSUME NEW i \in Index PROVE Holders(i) = (IF i < grown THEN 1 ELSE 0)
    BY DEF FreeOnce
  <2>1. InFree(i) = {} BY <1>1 DEF InFree
  <2>2. HeldBy(i) = {} BY <1>0, <1>1 DEF HeldBy
  <2>3. ~open[i] /\ ~(i < grown) BY <1>1, TableAssumption DEF Index
  <2>4. Cardinality({}) = 0 BY FS_EmptySet
  <2> QED BY <1>0, <1>1, <2>1, <2>2, <2>3, <2>4 DEF Holders
<1>6. IdsBehind
  <2>1. HeldIds \subseteq {None} BY <1>0, <1>1 DEF HeldIds, Listed
  <2>2. gen[0] = 0 BY <1>1, RestTyped
  <2> QED BY <1>0, <2>1, <2>2 DEF IdsBehind, Known
<1>7. ListedOnce BY <1>0, <1>1 DEF ListedOnce, Reserving
<1>8. Counted
  <2>1. Counting = {} BY <1>0, <1>1 DEF Counting
  <2> QED BY <1>1, <1>2, <2>1, FS_EmptySet DEF Counted
<1>9. DroppedClosed BY <1>0, <1>1 DEF DroppedClosed
<1>10. LeasesOver /\ ScanCloses /\ StoppedClosed BY <1>0, <1>1 DEF LeasesOver, ScanCloses, StoppedClosed
<1>11. Covered BY <1>1 DEF Covered
<1> QED BY <1>3, <1>4, <1>5, <1>6, <1>7, <1>8, <1>9, <1>10, <1>11 DEF TableInv

(* Every step keeps it.                                                    *)
LEMMA TableStep == TableInv /\ [TableNext]_tableVars => TableInv'
<1> SUFFICES ASSUME TableInv, [TableNext]_tableVars PROVE TableInv' OBVIOUS
<1>0. /\ TableTyped /\ WorkerPlaced /\ FreeOnce /\ IdsBehind /\ ListedOnce /\ Counted
      /\ DroppedClosed /\ LeasesOver /\ ScanCloses /\ StoppedClosed /\ Covered
  BY DEF TableInv
<1>1. TableTyped' /\ WorkerPlaced' BY <1>0, TypedStep
<1>2. FreeOnce' BY <1>0, <1>1, FreeStep
<1>3. IdsBehind' /\ ListedOnce' /\ Counted'
  BY <1>0, <1>1, BehindStep, ListedStep, CountedStep
<1>4. DroppedClosed' /\ LeasesOver' /\ ScanCloses' /\ StoppedClosed'
  BY <1>0, <1>1, DroppedStep, LeasesStep, ScanStep, StoppedStep
<1>5. Covered'
  <2> SUFFICES ASSUME NEW i \in Index, open'[i]
               PROVE  \/ WordOf(i)' \in claims' \cup served' \cup Listed'
                      \/ ThreadHas(WordOf(i))' \/ WorkerHas(WordOf(i))'
    BY DEF Covered
  <2>1. ASSUME UNCHANGED tableVars
        PROVE  \/ WordOf(i)' \in claims' \cup served' \cup Listed'
               \/ ThreadHas(WordOf(i))' \/ WorkerHas(WordOf(i))'
    BY <1>0, <2>1 DEF tableVars, Covered, WordOf, Listed, ThreadHas, WorkerHas
  <2> QED BY <1>0, <2>1, CoveredThread, CoveredWorker, StepSplit
<1> QED BY <1>1, <1>2, <1>3, <1>4, <1>5 DEF TableInv

(* The invariant of the table holds of every behaviour.                    *)
LEMMA TableInvariant == TableSpec => []TableInv
BY InitTable, TableStep, PTL DEF TableSpec

(* No call and no core ever frees an entry twice, takes one that is in     *)
(* use, or loses one (Table::close, take_index, reserve).                  *)
THEOREM EntriesFreeOnce == TableSpec => []FreeOnce
<1>1. TableInv => FreeOnce BY DEF TableInv
<1> QED BY <1>1, TableInvariant, PTL

(* A stopped server leaves no connection open behind it (close_all).       *)
THEOREM StopCloses == TableSpec => []StoppedClosed
<1>1. TableInv => StoppedClosed BY DEF TableInv
<1> QED BY <1>1, TableInvariant, PTL

(* No open connection is forgotten, and the count never leads the list     *)
(* (reserve, sweep, close_reserved, drop_reservation).                     *)
THEOREM NoneForgotten == TableSpec => []Accounted
<1>1. TableInv => Accounted BY DEF TableInv, Accounted, Covered, Counted, WordOf
<1> QED BY <1>1, TableInvariant, PTL

-----------------------------------------------------------------------------
(* The refinement: each step of the table is a step of the names, or none. *)

(* What an id is.                                                          *)
LEMMA IdTyped ==
  ASSUME NEW id \in Id
  PROVE  id \in ConnId /\ id.index \in Index /\ id.gen \in Nat \ {0}
         /\ id = [index |-> id.index, gen |-> id.gen]
<1>1. Cardinality(Slot) \in Nat BY TableAssumption, FS_CardinalityType
<1> QED BY <1>1 DEF Id, ConnId

(* A word that opens a new generation uses one name.                       *)
LEMMA OpenNames ==
  ASSUME TableTyped, FreeOnce, NEW t \in Thread, OpenEntry(t), NEW id \in Id
  PROVE  LET d == [index |-> th[t].conn.index, gen |-> gen[th[t].conn.index] + 1]
         IN  /\ LifeOf(id)' = IF id = d THEN "open" ELSE LifeOf(id)
             /\ id = d => LifeOf(id) = "unused"
<1> DEFINE j == th[t].conn.index
           d == [index |-> j, gen |-> gen[j] + 1]
<1>1. j \in Index /\ gen \in [Index -> Nat] /\ open \in [Index -> BOOLEAN] BY DEF TableTyped, ConnId
<1>2. gen' = [gen EXCEPT ![j] = gen[j] + 1] /\ open' = [open EXCEPT ![j] = TRUE]
  BY <1>1 DEF OpenEntry
<1>3. open[j] = FALSE BY TakenClosed DEF OpenEntry
<1>4. id.index \in Index /\ id.gen \in Nat /\ id = [index |-> id.index, gen |-> id.gen] BY IdTyped
<1>5. id = d <=> id.index = j /\ id.gen = gen[j] + 1 BY <1>4
<1>6. gen[j] \in Nat BY <1>1
<1> HIDE DEF d, j
<1>7. CASE id.index # j
  <2>1. gen'[id.index] = gen[id.index] /\ open'[id.index] = open[id.index] BY <1>1, <1>2, <1>4, <1>7
  <2> QED BY <1>5, <1>7, <2>1 DEF LifeOf, IsOpen, d, j
<1>8. CASE id.index = j
  <2>1. gen'[id.index] = gen[j] + 1 /\ open'[id.index] = TRUE BY <1>1, <1>2, <1>4, <1>8
  <2>2. CASE id.gen = gen[j] + 1
    <3>1. LifeOf(id)' = "open" BY <1>4, <1>6, <2>1, <2>2 DEF LifeOf, IsOpen
    <3>2. LifeOf(id) = "unused" BY <1>4, <1>6, <1>8, <2>2 DEF LifeOf
    <3> QED BY <1>5, <1>8, <2>2, <3>1, <3>2 DEF d, j
  <2>3. CASE id.gen > gen[j] + 1
    <3>1. LifeOf(id)' = "unused" BY <1>4, <1>6, <2>1, <2>3 DEF LifeOf
    <3>2. LifeOf(id) = "unused" BY <1>4, <1>6, <1>8, <2>3 DEF LifeOf
    <3>3. id.gen # gen[j] + 1 BY <1>4, <1>6, <2>3
    <3> QED BY <1>5, <3>1, <3>2, <3>3 DEF d, j
  <2>4. CASE id.gen < gen[j] + 1
    <3>1. LifeOf(id)' = "closed" BY <1>4, <1>6, <2>1, <2>4 DEF LifeOf, IsOpen
    <3>2. LifeOf(id) = "closed" BY <1>3, <1>4, <1>6, <1>8, <2>4 DEF LifeOf, IsOpen
    <3>3. id.gen # gen[j] + 1 BY <1>4, <1>6, <2>4
    <3> QED BY <1>5, <3>1, <3>2, <3>3 DEF d, j
  <2> QED BY <1>4, <1>6, <2>2, <2>3, <2>4
<1> QED BY <1>7, <1>8

(* A word that is closed ends the name that was open.                      *)
LEMMA CloseNames ==
  ASSUME TableTyped, NEW c \in ConnId, IsOpen(c), gen' = gen,
         open' = [open EXCEPT ![c.index] = FALSE], NEW id \in Id
  PROVE  /\ LifeOf(id)' = IF id = c THEN "closed" ELSE LifeOf(id)
         /\ id = c => LifeOf(id) = "open"
<1>1. /\ c.index \in Index /\ c.gen \in Nat /\ c = [index |-> c.index, gen |-> c.gen]
      /\ gen \in [Index -> Nat] /\ open \in [Index -> BOOLEAN]
  BY DEF TableTyped, ConnId
<1>2. id.index \in Index /\ id.gen \in Nat /\ id = [index |-> id.index, gen |-> id.gen] BY IdTyped
<1>3. CASE id = c
  <2>1. open'[id.index] = FALSE /\ gen'[id.index] = id.gen BY <1>1, <1>3 DEF IsOpen
  <2> QED BY <1>2, <1>3, <2>1 DEF LifeOf, IsOpen
<1>4. CASE id # c
  <2>1. id.index # c.index \/ id.gen # c.gen BY <1>1, <1>2, <1>4
  <2>2. CASE id.index # c.index
    <3>1. open'[id.index] = open[id.index] BY <1>1, <1>2, <2>2
    <3> QED BY <1>4, <3>1 DEF LifeOf, IsOpen
  <2>3. CASE id.index = c.index /\ id.gen # c.gen
    <3>1. gen[id.index] = c.gen /\ gen'[id.index] = c.gen BY <2>3 DEF IsOpen
    <3> QED BY <1>4, <2>3, <3>1 DEF LifeOf, IsOpen
  <2> QED BY <2>1, <2>2, <2>3
<1> QED BY <1>3, <1>4

Lives == [id \in Id |-> LifeOf(id)]

(* A step of the table opens a name, ends one, or changes none.            *)
LEMMA NamesStep == TableInv /\ [TableNext]_tableVars => Life!Next \/ UNCHANGED Lives
<1> SUFFICES ASSUME TableInv, [TableNext]_tableVars PROVE Life!Next \/ UNCHANGED Lives OBVIOUS
<1>0. TableTyped /\ FreeOnce BY DEF TableInv
<1>1. CASE UNCHANGED <<gen, open>> BY <1>1 DEF Lives, LifeOf, IsOpen
<1>2. ASSUME NEW t \in Thread, OpenEntry(t) PROVE Life!Next \/ UNCHANGED Lives
  <2> DEFINE d == [index |-> th[t].conn.index, gen |-> gen[th[t].conn.index] + 1]
  <2>1. \A id \in Id : /\ LifeOf(id)' = IF id = d THEN "open" ELSE LifeOf(id)
                       /\ id = d => LifeOf(id) = "unused"
    BY <1>0, <1>2, OpenNames
  <2> HIDE DEF d
  <2>2. CASE d \in Id
    <3>1. Lives[d] = "unused" /\ Lives' = [Lives EXCEPT ![d] = "open"] BY <2>1, <2>2 DEF Lives
    <3>2. Life!Opens(d) BY <3>1 DEF Life!Opens, Lives
    <3> QED BY <2>2, <3>2 DEF Life!Next
  <2>3. CASE d \notin Id
    <3>1. Lives' = Lives BY <2>1, <2>3 DEF Lives
    <3> QED BY <3>1
  <2> QED BY <2>2, <2>3
<1>3. ASSUME NEW c \in ConnId, IsOpen(c), gen' = gen, open' = [open EXCEPT ![c.index] = FALSE]
      PROVE  Life!Next \/ UNCHANGED Lives
  <2>1. \A id \in Id : /\ LifeOf(id)' = IF id = c THEN "closed" ELSE LifeOf(id)
                       /\ id = c => LifeOf(id) = "open"
    BY <1>0, <1>3, CloseNames
  <2>2. CASE c \in Id
    <3>1. Lives[c] = "open" /\ Lives' = [Lives EXCEPT ![c] = "closed"] BY <2>1, <2>2 DEF Lives
    <3>2. Life!Ends(c) BY <3>1 DEF Life!Ends, Lives
    <3> QED BY <2>2, <3>2 DEF Life!Next
  <2>3. CASE c \notin Id
    <3>1. Lives' = Lives BY <2>1, <2>3 DEF Lives
    <3> QED BY <3>1
  <2> QED BY <2>2, <2>3
<1> QED BY <1>0, <1>1, <1>2, <1>3, OpenChanges

(* No name is used at the start.                                           *)
LEMMA NamesInit == TableInit => Life!Init
<1> SUFFICES ASSUME TableInit PROVE \A id \in Id : LifeOf(id) = "unused"
  BY DEF Life!Init
<1>1. \A i \in Index : gen[i] = 0 BY DEF TableInit
<1> QED BY <1>1, IdTyped DEF LifeOf

(* The ids of the table open once and end once, whatever the threads, the  *)
(* sweep and the cores do with its entries (Table::live).                  *)
THEOREM NamesOnce == TableSpec => IdsNameOnce
<1>1. TableInv /\ [TableNext]_tableVars => [Life!Next]_Lives BY NamesStep
<1>2. TableInv /\ [TableNext]_tableVars => [Life!Next]_([id \in Id |-> LifeOf(id)]) BY <1>1 DEF Lives
<1> QED BY <1>2, NamesInit, TableInvariant, PTL DEF TableSpec, IdsNameOnce, Life!Spec
=============================================================================
