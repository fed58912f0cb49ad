----------------------------- MODULE MCCaddyFile -----------------------------
(* Instances of CaddyFile for TLC.                                         *)
EXTENDS CaddyFile, TLC

CONSTANTS api, apiNext

\* No name extends another, or that of one app the other's.
Unrelated == {}
Extended  == {<<api, apiNext>>}

\* Commands are interchangeable, and apps whose names are unrelated are.
Symmetry == Permutations(Clients) \cup Permutations(Apps)

\* Bound: one command less where Caddy rejects blocks or does not see the file.
BoundNext == OpsNext /\ (bad # {} \/ mount = "file" => budget'.ops > 0)
BoundSpec == Init /\ [][BoundNext]_vars
==============================================================================
