----------------------------- MODULE DeployLock -----------------------------
(***************************************************************************)
(* The per-app deploy lock of internal/state: the directory                *)
(* /deployments/<app>/.lock, taken with mkdir, and the file .lock/info     *)
(* that says who took it and when.  Every command a process sends over SSH *)
(* is one action, so other processes run between any two of them, and any  *)
(* command may fail or be the last one its process sends.                  *)
(*                                                                         *)
(* Time enters only through Expire: the info file passes its TTL.          *)
(***************************************************************************)
CONSTANTS Deploys,    \* `teploy deploy` and the webhook server: "auto" locks
          Heals,      \* `teploy heal` passes: "heal" locks
          Freezers,   \* `teploy lock` commands: "manual" locks
          Unlockers   \* `teploy unlock` commands

Workers == Deploys \cup Heals
Takers  == Workers \cup Freezers
Procs   == Takers \cup Unlockers

\* Values of dir that are not a live process: no directory; a directory whose
\* maker is dead or failed to remove it; a completed manual freeze.
NoProcess == {"free", "abandoned", "frozen"}

ASSUME KindsAssumption ==
    /\ Deploys \cap Heals = {}
    /\ Workers \cap Freezers = {}
    /\ Takers \cap Unlockers = {}
    /\ Procs \cap (NoProcess \cup {"nobody"}) = {}

VARIABLES
    dir,      \* who made the lock directory (the maker is not on disk)
    info,     \* content of .lock/info, type "none" when it is missing
    pc        \* what each process does next; "idle" between two commands

vars == <<dir, info, pc>>

Info   == [type : {"none", "auto", "heal", "manual"}, old : BOOLEAN]
NoInfo == [type |-> "none", old |-> FALSE]

TypeOK ==
    /\ dir \in Procs \cup NoProcess
    /\ info \in Info
    /\ pc \in [Procs -> {"idle", "read", "break", "remake", "write", "undo",
                         "hold", "unlock"}]

\* Mutant: a type no reader knows.
LockTypeUnknown(p) ==
    IF p \in Deploys THEN "auto" ELSE IF p \in Heals THEN "heal" ELSE "freeze"

LockType(p) ==
    IF p \in Deploys THEN "auto" ELSE IF p \in Heals THEN "heal" ELSE "manual"

\* A lock found on disk: absent, or left behind by processes of the past.
Init ==
    /\ \/ dir = "free" /\ info = NoInfo
       \/ dir = "abandoned" /\ info \in {i \in Info : i.type \in {"auto", "heal"}}
       \/ dir = "abandoned" /\ info = NoInfo
       \/ dir = "frozen" /\ info \in {i \in Info : i.type = "manual"}
    /\ pc = [p \in Procs |-> "idle"]

Goto(p, label) == pc' = [pc EXCEPT ![p] = label]

\* A process that stops caring about the directory leaves it abandoned.
DirWithout(p) == IF dir = p THEN "abandoned" ELSE dir

-----------------------------------------------------------------------------
(* Taking the lock: tryMkdirLock, then ReadLock when mkdir fails.          *)

\* Mutant: mkdir -p, which succeeds on a directory that is there.
MkdirParents(p) ==
    /\ dir' = p
    /\ Goto(p, "write")
    /\ UNCHANGED info

Mkdir(p) ==
    /\ dir = "free"
    /\ dir' = p
    /\ Goto(p, "write")
    /\ UNCHANGED info

MkdirWon(p) == pc[p] = "idle" /\ p \in Takers /\ Mkdir(p)

\* mkdir fails: the directory exists, or the command could not be run.
MkdirLost(p) ==
    /\ pc[p] = "idle"
    /\ p \in Workers
    /\ Goto(p, "read")
    /\ UNCHANGED <<dir, info>>

\* Mutants: the type, or the other kind of lock is forgotten; a heal pass has
\* the test of a deploy.
BreakableAnyType(p, i) == i.old
BreakableOwn(p, i)     == i.old /\ i.type = LockType(p)
BreakableHealAny(p, i) == i.old /\ i.type \in {"auto", "heal"}

Breakable(p, i) ==
    /\ i.old
    /\ i.type \in (IF p \in Deploys THEN {"auto", "heal"} ELSE {"heal"})

\* cat .lock/info, and break the lock if it is a stale one this kind of
\* process may break; yield otherwise, also when the file cannot be read.
ReadStale(p) ==
    /\ pc[p] = "read"
    /\ Breakable(p, info)
    /\ Goto(p, "break")
    /\ UNCHANGED <<dir, info>>

ReadYield(p) ==
    /\ pc[p] = "read"
    /\ Goto(p, "idle")
    /\ UNCHANGED <<dir, info>>

\* rm -rf .lock: whatever is there now, not what was read.
RemoveDir == dir' = "free" /\ info' = NoInfo

Break(p) ==
    /\ pc[p] = "break"
    /\ RemoveDir
    /\ Goto(p, "remake")

BreakFails(p) ==
    /\ pc[p] = "break"
    /\ Goto(p, "remake")
    /\ UNCHANGED <<dir, info>>

RemakeWon(p) == pc[p] = "remake" /\ Mkdir(p)

RemakeLost(p) ==
    /\ pc[p] = "remake"
    /\ Goto(p, "idle")
    /\ UNCHANGED <<dir, info>>

-----------------------------------------------------------------------------
(* Writing .lock/info into the directory just made.  The upload needs the  *)
(* directory to be there; it does not ask whose it is.                     *)

WriteInfo(p) ==
    /\ pc[p] = "write"
    /\ dir # "free"
    /\ info' = [type |-> LockType(p), old |-> FALSE]
    /\ IF p \in Freezers
       THEN /\ dir' = IF dir = p THEN "frozen" ELSE dir
            /\ Goto(p, "idle")
       ELSE /\ Goto(p, "hold")
            /\ UNCHANGED dir

WriteInfoFails(p) ==
    /\ pc[p] = "write"
    /\ Goto(p, "undo")
    /\ UNCHANGED <<dir, info>>

\* The failed upload's ReleaseLock, and the holder's (ReleaseLockDetached).
Release(p) ==
    /\ pc[p] \in {"undo", "hold"}
    /\ RemoveDir
    /\ Goto(p, "idle")

\* Its rm -rf never reaches the server, or the process dies at any point.
Abandon(p) ==
    /\ pc[p] # "idle"
    /\ dir' = DirWithout(p)
    /\ Goto(p, "idle")
    /\ UNCHANGED info

-----------------------------------------------------------------------------
(* teploy unlock: "not locked" unless the info file is there, else rm -rf. *)

UnlockReads(u) ==
    /\ u \in Unlockers
    /\ pc[u] = "idle"
    /\ info.type # "none"
    /\ Goto(u, "unlock")
    /\ UNCHANGED <<dir, info>>

UnlockRemoves(u) ==
    /\ u \in Unlockers
    /\ pc[u] = "unlock"
    /\ RemoveDir
    /\ Goto(u, "idle")

\* The timestamp in the info passes the TTL: 2 minutes for a heal lock, 30
\* minutes for the others (a manual lock grows old too, but has no TTL).
Expire ==
    /\ info.type # "none"
    /\ ~info.old
    /\ info' = [info EXCEPT !.old = TRUE]
    /\ UNCHANGED <<dir, pc>>

Step(p) ==
    \/ MkdirWon(p) \/ MkdirLost(p)
    \/ ReadStale(p) \/ ReadYield(p)
    \/ Break(p) \/ BreakFails(p)
    \/ RemakeWon(p) \/ RemakeLost(p)
    \/ WriteInfo(p) \/ WriteInfoFails(p)
    \/ Release(p) \/ Abandon(p)
    \/ UnlockReads(p) \/ UnlockRemoves(p)

Next == Expire \/ \E p \in Procs : Step(p)

Spec == Init /\ [][Next]_vars

\* Time passes; a deploy ends, is retried, and its commands do not fail for
\* ever.  Nothing is assumed of heal passes and operators.
Fairness ==
    /\ WF_vars(Expire)
    /\ \A p \in Deploys :
        /\ WF_vars(Step(p))
        /\ SF_vars(ReadStale(p))
        /\ SF_vars(Break(p))

FairSpec == Spec /\ Fairness

-----------------------------------------------------------------------------
(* The conditions under which the protocol is a lock.  Each excludes one   *)
(* of the ways in which rm -rf can hit a directory its caller did not mean.*)

Removing(p) == pc[p] \in {"break", "unlock"}

\* 1. No two processes are between reading the info and removing the lock.
LoneRemover == \A p, q \in Procs : Removing(p) /\ Removing(q) => p = q

\* 2. A live heal pass is done before the 2 minutes of its lock have passed.
HealsInTime == (info'.old /\ ~info.old) => dir \notin Heals

\* 3. A live deploy may outlive the 30 minutes of its lock (image builds,
\* migrations); no other deploy then looks at the lock with a view to break it.
OverrunsAlone ==
    (dir \in Deploys /\ info.old) =>
        \A p \in Deploys : pc[p] \notin {"read", "break"}

\* 4. Nobody runs `teploy unlock` on a lock that is in use.
UnlocksOnlyUnused ==
    \A u \in Unlockers :
        (pc'[u] = "unlock" /\ pc[u] # "unlock") => dir \notin Procs

CalmStep == LoneRemover' /\ HealsInTime /\ OverrunsAlone' /\ UnlocksOnlyUnused

CalmNext == Next /\ CalmStep

CalmSpec == Init /\ [][CalmNext]_vars

-----------------------------------------------------------------------------
(* Properties.                                                             *)

\* A process that made the directory and has not let go of it still has it:
\* nobody removed it or put another in its place (AcquireLock's mkdir, the
\* two break paths, every ReleaseLock).
HolderOwnsDir ==
    \A p \in Procs : pc[p] \in {"write", "undo", "hold"} => dir = p

\* The inductive invariant of CalmSpec: who is live, who owns the directory,
\* what its info file can say, and what a remover is about to remove.
CalmInv ==
    /\ TypeOK
    /\ LoneRemover
    /\ HolderOwnsDir
    /\ \A u \in Unlockers : pc[u] \in {"idle", "unlock"}
    /\ dir \in Procs => pc[dir] \in {"write", "undo", "hold"}
    /\ dir = "free" => info = NoInfo
    /\ dir = "frozen" => info.type = "manual"
    /\ dir \in Procs => info.type \in {"none", LockType(dir)}
    /\ dir \in Freezers => info = NoInfo
    /\ info.old => dir \notin Heals
    /\ OverrunsAlone
    /\ \A p \in Procs : pc[p] = "break" => dir = "abandoned"
    /\ \A p \in Procs : pc[p] = "unlock" => dir \in {"abandoned", "frozen"}

\* Two deploys, two heal passes, or a deploy and a heal pass never run under
\* the lock of one app at the same time, and none runs on a frozen app.
MutualExclusion ==
    /\ \A p, q \in Workers : pc[p] = "hold" /\ pc[q] = "hold" => p = q
    /\ dir = "frozen" => \A p \in Workers : pc[p] # "hold"

\* "manual locks ... are never auto-broken at any age": a completed freeze
\* ends only by the rm -rf of a `teploy unlock`.
FreezeIsPermanent ==
    [][dir = "frozen" /\ dir' # "frozen" => \E u \in Unlockers : UnlockRemoves(u)]_vars

\* "A running deploy's lock must never be broken by heal, at any age (a >30-min
\* deploy is legit)", state.go:508-510: the rm -rf of AcquireHealLock's break
\* path never removes the directory of a live deploy, whose info file may have
\* passed every TTL by then.
HealNeverBreaksDeploy ==
    [][\A h \in Heals : Break(h) => dir \notin Deploys]_vars

\* A deploy or heal that dies holding the lock does not leave the app locked
\* for ever: the dead lock is broken once its info file is old enough (unless
\* a freeze whose own directory was removed writes its info over it first).
DeadLockIsBroken ==
    (dir = "abandoned" /\ info.type \in {"auto", "heal"})
        ~> (dir # "abandoned" \/ info.type = "manual")

\* Under the conditions above DeployLock is an AppLock, whose holder is the
\* deploy or heal pass that has returned from acquiring the lock.
Holding(p) == p \in Workers /\ pc[p] = "hold"

Holder == IF \E p \in Workers : Holding(p)
          THEN CHOOSE p \in Workers : Holding(p)
          ELSE "nobody"

Lock == INSTANCE AppLock WITH
            Procs <- Workers, NoProc <- "nobody",
            holder <- Holder, frozen <- (dir = "frozen")

ImplementsAppLock == Lock!Spec
==============================================================================
