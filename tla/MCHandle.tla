-------------------------------- MODULE MCHandle --------------------------------
(***************************************************************************)
(* Handles of one key that all carry the same owner identity, as with a    *)
(* deterministic OwnerSource: only the fencing token tells them apart.     *)
(***************************************************************************)
EXTENDS HandleInvariant, FiniteSets, TLC

CONSTANT MaxLagTogether   \* bound: until then the backend's clock lags for two handles

MCKeyOf == [h \in Handles |-> CHOOSE k \in Key : TRUE]
MCOwnerOf == [h \in Handles |-> CHOOSE o \in Owner : TRUE]

MCSymmetry == Permutations(Handles)

\* One handle is followed with every clock going its own way; once a second
\* one is in use, only where the injected clock has kept the real time, and
\* after the first instants the backend's has, too.
MCBound ==
  \/ Cardinality({h \in Handles : state[h] # "new" \/ op[h] # "none"}) <= 1
  \/ /\ localClock = now /\ deadline = wallDeadline /\ started = wallStarted
     /\ serverClock = ServerEpoch + now \/ now <= MaxLagTogether
===============================================================================
