------------------------------- MODULE Mishaps -------------------------------
(***************************************************************************)
(* What may happen to the commands of the small components: how many       *)
(* operations a behaviour has, how many mishaps (a command that fails, a   *)
(* process that dies) and which kinds of them it has had.  A property says *)
(* which kinds it presupposes never to have happened.                      *)
(***************************************************************************)
EXTENDS Naturals

CONSTANTS MaxOps, MaxMishaps   \* bounds of a behaviour

ASSUME MishapsAssumption == MaxOps \in Nat /\ MaxMishaps \in Nat

VARIABLE luck

\* Failures: of a command that the rest depends on, of a write of state, of a
\* clean-up, of a read; a process that dies or is interrupted; a stored file
\* that spoils; a clean-up that is left out.  Uses: commands at the same time,
\* names that collide, what was there before, what another command removed.
MishapKinds == {"fault", "save", "clean", "read", "crash",
                "rot", "race", "collision", "prefix", "reuse", "stamp", "stolen", "cancel", "leftover"}

LuckTypeOK == luck \in [ops : 0..MaxOps, left : 0..MaxMishaps, had : SUBSET MishapKinds]

LuckInit == luck = [ops |-> MaxOps, left |-> MaxMishaps, had |-> {}]

\* Uses that cost nothing, and a mishap.
Used(kinds)     == luck' = [luck EXCEPT !.had = @ \cup kinds]
MishapAs(kinds) == luck.left > 0 /\ luck' = [luck EXCEPT !.left = @ - 1, !.had = @ \cup kinds]
Mishap(k)       == MishapAs({k})

\* An operation begins, and it is of kinds that some properties exclude.
BeginAs(kinds) == /\ luck.ops > 0
                  /\ luck' = [luck EXCEPT !.ops = @ - 1, !.had = @ \cup kinds]
Begin == BeginAs({})

NoneOf(kinds) == luck.had \cap kinds = {}
AtMost(n) == MaxMishaps - luck.left <= n
=============================================================================
