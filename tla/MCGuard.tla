-------------------------------- MODULE MCGuard --------------------------------
(* Two runs, one with renewal; MCGuardRelease: a single renewed run.           *)
EXTENDS Guard
===============================================================================
