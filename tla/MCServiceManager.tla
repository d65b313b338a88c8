--------------------------- MODULE MCServiceManager ---------------------------
(* Two callers with one renewal slot between them; either may be the first.   *)
EXTENDS ServiceManager, TLC

Symmetry == Permutations(Handles)
===============================================================================
