----------------------------- MODULE MCMemoryStore -----------------------------
(***************************************************************************)
(* Two keys compete for one place, two owners share them, tokens run out   *)
(* at two, and the clock moves between three instants in any order.  Keys   *)
(* meet only in the capacity check, so one retained key at a time shows    *)
(* every interaction.                                                      *)
(***************************************************************************)
EXTENDS MemoryStore, TLC

MCDuration == {0, 1}
MCSymmetry == Permutations(Key) \cup Permutations(Owner)
===============================================================================
