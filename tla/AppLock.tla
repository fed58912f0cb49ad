------------------------------- MODULE AppLock -------------------------------
(***************************************************************************)
(* What the deploy lock of one app promises its users: at any time at most *)
(* one process works under the lock, and none does while an operator has   *)
(* frozen the app.  DeployLock is the directory-and-info-file protocol     *)
(* that is meant to provide it.                                            *)
(***************************************************************************)
CONSTANTS Procs,      \* processes that may work under the lock
          NoProc      \* the holder of a lock nobody works under, not a process

VARIABLES holder, frozen

lockVars == <<holder, frozen>>

Init == holder = NoProc /\ frozen \in BOOLEAN

Acquire(p) ==
    /\ holder = NoProc
    /\ ~frozen
    /\ holder' = p
    /\ UNCHANGED frozen

\* The holder lets go, by releasing or by dying.
LetGo(p) ==
    /\ holder = p
    /\ holder' = NoProc
    /\ UNCHANGED frozen

Freeze ==
    /\ holder = NoProc
    /\ ~frozen
    /\ frozen' = TRUE
    /\ UNCHANGED holder

Unfreeze ==
    /\ frozen
    /\ frozen' = FALSE
    /\ UNCHANGED holder

Next ==
    \/ \E p \in Procs : Acquire(p) \/ LetGo(p)
    \/ Freeze
    \/ Unfreeze

Spec == Init /\ [][Next]_lockVars
==============================================================================
