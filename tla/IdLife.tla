------------------------------- MODULE IdLife -------------------------------
(***************************************************************************)
(* What a table of connections promises about its ids: an id names one     *)
(* connection, which opens once and ends once, and reads closed from then  *)
(* on whatever the table does with its entries.                            *)
(***************************************************************************)
CONSTANT Id

VARIABLE life   (* what each id names: "unused", "open" or "closed"         *)

Init == life = [id \in Id |-> "unused"]

Opens(id) == life[id] = "unused" /\ life' = [life EXCEPT ![id] = "open"]
Ends(id)  == life[id] = "open" /\ life' = [life EXCEPT ![id] = "closed"]

Next == \E id \in Id : Opens(id) \/ Ends(id)

Spec == Init /\ [][Next]_life
=============================================================================
