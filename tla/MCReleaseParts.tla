--------------------------- MODULE MCReleaseParts ---------------------------
\* Values of the constants of ReleaseParts for TLC.
EXTENDS ReleaseParts

CONSTANTS b1, b2, b3, l1, l2   \* branches, and what their names are sanitized to

\* Two of three branches share a label.
SanitizeTwo == [b \in {b1, b2, b3} |-> IF b = b3 THEN l2 ELSE l1]

\* The label of the third extends that of the others.
ExtendsOne == {<<l1, l2>>}

\* A canary of one server and one failure allowed; half of the servers and none.
OneThenHalf == {[canary |-> [unit |-> "count", n |-> 1], max |-> 1],
                [canary |-> [unit |-> "percent", n |-> 50], max |-> 0]}

OpsOfPart == [site |-> 4, previews |-> 3, upkeep |-> 3, fleet |-> 2, volumes |-> 4]
MishapsOfPart == [site |-> 2, previews |-> 1, upkeep |-> 1, fleet |-> 2, volumes |-> 2]

Sym == Permutations(Users) \cup Permutations(Webs)
=============================================================================
