------------------------------ MODULE MCCores -------------------------------
(* Two cores, twice: a client that comes at any time, while anything may   *)
(* go wrong; and two that wait from the start, the second for a core whose *)
(* request memory runs short, so that its loop pauses with it in hand.     *)
EXTENDS CoresProps

CONSTANTS one, two

MCScenes ==
  {[early |-> <<>>, late |-> {one}, pressed |-> {},
    fault |-> {"start", "driver", "build", "setup", "panic"}],
   [early |-> <<one, two>>, late |-> {}, pressed |-> {2}, fault |-> {}]}
=============================================================================
