------------------------------ MODULE SlotWord ------------------------------
(***************************************************************************)
(* The ownership word of one request slot (crates/zero-rt/src/slot.rs).    *)
(*                                                                         *)
(* The code packs a state, a pin count, a cancel flag and a generation     *)
(* into one AtomicU64 and moves it only with a generation-checked          *)
(* compare-and-swap loop (SlotWord::update), so a transition is one atomic *)
(* step: a guard on the word (Can...) and the word it stores.  A refused   *)
(* transition stores nothing.                                              *)
(***************************************************************************)
EXTENDS Naturals

CONSTANTS
  GenMask,     (* GENERATION_MASK: the largest generation, 2^30 - 1         *)
  MaxReaders   (* MAX_READERS: the most pins one word counts, 2^16 - 1      *)

ASSUME WordAssumption ==
  /\ GenMask \in Nat \ {0}
  /\ MaxReaders \in Nat \ {0}

SlotState == {"Free", "Parsing", "WorkerOwned", "Leased", "Completing", "Closed"}

Word == [state: SlotState, readers: 0..MaxReaders, cancel: BOOLEAN, gen: 0..GenMask]

NewWord == [state |-> "Free", readers |-> 0, cancel |-> FALSE, gen |-> 0]

(* The states a host reads a slot in.                                      *)
LEASED_OR_COMPLETING == {"Leased", "Completing"}

(* wrapping_add(1) & GENERATION_MASK, the mask being all ones.             *)
next_generation(g) == IF g = GenMask THEN 0 ELSE g + 1

(* SlotWord::check: one load of the word.                                  *)
check(w, g, accepted) == w.gen = g /\ w.state \in accepted

check_lease(w, g) == check(w, g, LEASED_OR_COMPLETING)

with_state(w, s) == [w EXCEPT !.state = s]

CanClaim(w, g) == check(w, g, {"Free"}) /\ w.readers = 0
claim(w) == with_state(w, "Parsing")

CanHold(w, g) == check(w, g, {"Parsing"})
hold(w) == with_state(w, "WorkerOwned")

CanLease(w, g) == check(w, g, {"WorkerOwned"}) /\ ~w.cancel
lease(w) == with_state(w, "Leased")

CanUnlease(w, g) == check(w, g, {"Leased"})
unlease(w) == with_state(w, "WorkerOwned")

CanBeginImport(w, g) == check(w, g, {"Leased"})
begin_import(w) == with_state(w, "Completing")

CanCloseLeased(w, g) == check(w, g, {"Leased"})
close_leased(w) == [w EXCEPT !.state = "Closed", !.cancel = TRUE]

CanClose(w, g) == check(w, g, {"Parsing", "WorkerOwned"})
close(w) == [w EXCEPT !.state = "Closed", !.cancel = TRUE]

(* retire refuses a leased or free slot and one with a pin counted in; the *)
(* word it stores is free, unpinned and uncanceled at the next generation. *)
RetireStates == {"Parsing", "WorkerOwned", "Completing", "Closed"}
CanRetire(w, g) == check(w, g, RetireStates) /\ w.readers = 0
retireSameGen(w) == [NewWord EXCEPT !.gen = w.gen]
retire(w) == [NewWord EXCEPT !.gen = next_generation(w.gen)]

CanPin(w, g) == check_lease(w, g) /\ w.readers < MaxReaders
pin(w) == [w EXCEPT !.readers = @ + 1]

CanUnpin(w, g) == w.gen = g /\ w.state # "Free" /\ w.readers > 0
unpin(w) == [w EXCEPT !.readers = @ - 1]
=============================================================================
