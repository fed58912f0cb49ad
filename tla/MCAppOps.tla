------------------------------ MODULE MCAppOps ------------------------------
(* Instances of AppOps for TLC.                                            *)
EXTENDS AppOps

CONSTANTS v1, v2, v3   \* versions

\* Careful use, and little but the one deploy at a time that the lock gives.
Careful  == AllHabits
Careless == {"alone", "new", "to stopped"}
Uses     == {Careful, Careless}

\* Bounds: careful use is not explored under host ingress, the other not under
\* external ingress, and with three commands on two versions and one crash.
BoundInit == /\ Init
             /\ ingress # IF habits = Careful THEN "host" ELSE "external"
BoundNext == /\ OpsNext
             /\ habits = Careless => budget'.ops > 0 /\ budget'.crashes > 0 /\ d'.ver # v3
BoundSpec == BoundInit /\ [][BoundNext]_vars
=============================================================================
