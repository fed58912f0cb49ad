----------------------------- MODULE MCDataParts -----------------------------
\* Values of the constants of DataParts for TLC.
EXTENDS DataParts

CONSTANTS vol, acc   \* the stores that are backed up

\* The app's volumes, and a database dumped as SQL.
VolumesAndSql == [s \in {vol, acc} |-> IF s = vol THEN "volumes" ELSE "sql"]

OpsOfPart == [accessories |-> 3, backups |-> 3, vault |-> 3, secrets |-> 3, audit |-> 3, config |-> 0]
MishapsOfPart == [accessories |-> 2, backups |-> 1, vault |-> 2, secrets |-> 2, audit |-> 2, config |-> 0]

Sym == Permutations(Clerks)
=============================================================================
