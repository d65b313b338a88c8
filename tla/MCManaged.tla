------------------------------- MODULE MCManaged -------------------------------
(* Small instances: handles that compete for one renewal slot (MCManaged), and *)
(* one renewer next to the application's own calls (MCManagedLoss).            *)
EXTENDS Managed
===============================================================================
