---------------------------- MODULE MCHostTargets ----------------------------
(***************************************************************************)
(* HostTargets on a small instance: one server, one pull target and two    *)
(* threads on two indexes, and besides that either a second server or a    *)
(* second pull target, on one index and with one thread.                  *)
(***************************************************************************)
EXTENDS HostTargetsProps

FirstServer == CHOOSE s \in Server : TRUE
FirstPull == CHOOSE p \in Pull : TRUE
FirstThread == CHOOSE t \in Thread : TRUE

OneServer == \A s \in Server \ {FirstServer} : lifecycle'[s] = "New"
OnePull == \A p \in Pull \ {FirstPull} : serves'[p] = <<>>
OneIndex ==
  /\ \A s \in Server : indexes'[s] \in {<<>>, <<1>>}
  /\ \A p \in Pull : serves'[p] \in {<<>>, <<1>>}
OneThread ==
  \A t \in Thread \ {FirstThread} :
    /\ poll'[t] = NoPoll
    /\ \A w \in Index : bound'[w] # t
    /\ \A p \in Pull : owner'[p] # t

(* The constraint on steps.  It only ever keeps back what no fairness asks *)
(* for: a server, a target or a poll that begins, a thread that binds.     *)
Cast ==
  \/ OneServer /\ OnePull
  \/ (OneServer \/ OnePull) /\ OneIndex /\ OneThread
=============================================================================
