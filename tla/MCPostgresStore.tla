---------------------------- MODULE MCPostgresStore ----------------------------
(***************************************************************************)
(* Two statements at a time on the rows of one key: keys share neither     *)
(* rows nor locks, and a third statement can only wait where the second    *)
(* does or act where a finished one has acted.  The lease lasts one tick,  *)
(* so it expires, and the clock is set back, during any statement.  There  *)
(* are two tokens: a takeover, and then none left.                         *)
(***************************************************************************)
EXTENDS PostgresStore, TLC

MCDuration == {1}
MCSymmetry == Permutations(Call) \cup Permutations(Owner)
===============================================================================
