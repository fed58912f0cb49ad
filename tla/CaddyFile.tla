----------------------------- MODULE CaddyFile -----------------------------
(***************************************************************************)
(* The Caddyfile of a server, which every app on it shares: each command   *)
(* that changes an app's route takes the lock /deployments/caddy/.lock,    *)
(* reads the file, replaces the app's block, writes it back and reloads    *)
(* Caddy.  One command sent over SSH is one action.                        *)
(*                                                                         *)
(* The file is the set of its blocks: their order and text are left out.   *)
(***************************************************************************)
EXTENDS Integers, FiniteSets

CONSTANTS Apps,
          Longer,       \* pairs <<a, b>>: the name of b extends the name of a
          Nums,         \* the deploys of an app are numbered
          BadNums,      \* those whose block Caddy may reject
          Clients,      \* commands that may run at the same time
          Mounts,       \* how the container may see the file: "directory" or "file"
          Habits,       \* restrictions on how the commands are used
          MaxOps, MaxFaults, MaxCrashes   \* bounds of a behaviour

AllHabits == {"one per app",           \* no two commands on one app at a time
              "deployed apps",         \* maintenance and remove are for these only
              "maintenance alone",     \* nothing but `off` and remove during it
              "in time",               \* no live command holds the lock for 120s
              "lone breaker",          \* no two commands break it at once
              "calm boots",            \* Caddy does not start on a block it rejects during a command
              "mortal if sound"}       \* a process dies only where Caddy sees and accepts every block

ASSUME CaddyAssumption ==
    /\ Longer \subseteq Apps \X Apps
    /\ Nums \subseteq Nat \ {0} /\ BadNums \subseteq Nums
    /\ Mounts \subseteq {"directory", "file"}
    /\ Habits \subseteq AllHabits
    /\ Clients \cap {"free", "abandoned"} = {}
    /\ MaxOps \in Nat /\ MaxFaults \in Nat /\ MaxCrashes \in Nat

\* A route to the containers of one deploy of an app.
Route == [app : Apps, num : Nums]
NoBlock == [app |-> "none", num |-> 0]
MaintBlock == [app |-> "maintenance", num |-> 0]
Block == Route \cup {NoBlock, MaintBlock}

\* blk: the blocks between Teploy's markers; other: an unmarked block for the
\* app's domains, written by hand or by `remove --redirect`; junk: lines left
\* over from a block that was cut in two.
Content == [blk : [Apps -> Block], other : [Apps -> {"none", "hand", "redirect"}],
            junk : BOOLEAN]
Nothing == [blk |-> [a \in Apps |-> NoBlock], other |-> [a \in Apps |-> "none"],
            junk |-> FALSE]

VARIABLES
    file,     \* the Caddyfile
    tmp,      \* /tmp/teploy_caddyfile.tmp, or {} when there is none
    live,     \* what Caddy runs; Nothing also when it cannot boot
    mount,    \* how the container sees the file: in its directory, or the file itself
    lock,     \* "free", the client that made the directory, or "abandoned"
    lockOld,  \* the directory is older than 120 seconds
    stash,    \* .maintenance-block of each app
    cl,       \* the running commands
    cur,      \* the route of each app's last deploy that succeeded
    used,     \* routes of all deploys so far
    gone,     \* those whose containers were stopped or removed
    removing, \* apps whose containers `teploy remove` has removed
    bad,      \* the deploys whose block Caddy rejects
    budget

setup  == <<mount, bad>>
disk   == <<file, tmp, live, setup, stash>>
lockVars == <<lock, lockOld>>
world  == <<cur, used, gone, removing>>
vars   == <<disk, lockVars, cl, world, budget>>

Idle == [pc |-> "idle", op |-> "none", app |-> "none", blk |-> NoBlock,
         prev |-> Nothing, new |-> Nothing]

Ops == {"set", "remove", "redirect", "on", "off"}

Labels == {"idle", "test", "cat", "lock", "stale", "break", "read", "stash", "upload",
           "move", "reload", "undo", "undomove", "undoreload", "verify",
           "release ok", "release", "rm stash"}

TypeOK ==
    /\ file \in Content
    /\ tmp \subseteq Content /\ Cardinality(tmp) <= 1
    /\ live \in Content
    /\ mount \in Mounts
    /\ lock \in {"free", "abandoned"} \cup Clients /\ lockOld \in BOOLEAN
    /\ stash \in [Apps -> Block]
    /\ cl \in [Clients -> [pc : Labels, op : Ops \cup {"none"}, app : Apps \cup {"none"},
                           blk : Block, prev : Content, new : Content]]
    /\ cur \in [Apps -> Route \cup {NoBlock}]
    /\ used \subseteq Route /\ gone \subseteq used
    /\ removing \subseteq Apps
    /\ bad \subseteq BadNums
    /\ budget \in [{"ops", "faults", "crashes"} -> Nat]

\* A server set up for Teploy, on which some domains are served by blocks
\* written by hand, and apps are deployed if it was set up by an old version.
Init ==
    /\ mount \in Mounts
    /\ bad \in IF mount = "directory" THEN {{}, BadNums} ELSE {{}}
    /\ \E hand, deployed \in SUBSET Apps, n \in Nums \ bad :
        /\ hand \cap deployed = {}
        /\ mount = "directory" => deployed = {}
        /\ cur = [a \in Apps |-> IF a \in deployed THEN [app |-> a, num |-> n] ELSE NoBlock]
        /\ file = [blk |-> cur, other |-> [a \in Apps |-> IF a \in hand THEN "hand" ELSE "none"],
                   junk |-> FALSE]
    /\ live = file
    /\ tmp = {}
    /\ lock = "free" /\ lockOld = FALSE
    /\ stash = [a \in Apps |-> NoBlock]
    /\ cl = [p \in Clients |-> Idle]
    /\ used = {cur[a] : a \in Apps} \cap Route
    /\ gone = {} /\ removing = {}
    /\ budget = [ops |-> MaxOps, faults |-> MaxFaults, crashes |-> MaxCrashes]

Spend(k) == budget[k] > 0 /\ budget' = [budget EXCEPT ![k] = @ - 1]
Fault    == Spend("faults")

Goto(p, label) == cl' = [cl EXCEPT ![p].pc = label]
At(p, label)   == cl[p].pc = label
Of(a)          == {r \in Route : r.app = a}

-----------------------------------------------------------------------------
(* The callers.  A deploy has run its containers when it sets the route; it*)
(* stops those of earlier deploys after success, its own after a failure.  *)
(* `teploy remove` removes the containers first.                           *)

Begin(p, op, a, blk) ==
    /\ At(p, "idle")
    /\ Spend("ops")
    /\ op = "set" => blk \in Of(a) \ used
    /\ op \in {"remove", "redirect", "off"} => blk = NoBlock
    /\ op = "on" => blk = MaintBlock
    /\ cl' = [cl EXCEPT ![p] = [Idle EXCEPT !.pc = IF op = "off" THEN "test" ELSE "lock",
                                            !.op = op, !.app = a, !.blk = blk]]
    /\ used' = used \cup ({blk} \cap Route)
    /\ IF op \in {"remove", "redirect"}
       THEN removing' = removing \cup {a} /\ gone' = gone \cup (Of(a) \cap used)
       ELSE UNCHANGED <<removing, gone>>
    /\ UNCHANGED <<disk, lockVars, cur>>

\* The command has succeeded.
Succeed(p) ==
    LET a == cl[p].app IN
    CASE cl[p].op = "set" ->
            /\ cur' = [cur EXCEPT ![a] = cl[p].blk]
            /\ gone' = gone \cup ((Of(a) \cap used) \ {cl[p].blk})
            /\ removing' = removing \ {a}
            /\ UNCHANGED <<used, stash>>
      [] cl[p].op \in {"remove", "redirect"} ->
            /\ cur' = [cur EXCEPT ![a] = NoBlock]
            /\ stash' = [stash EXCEPT ![a] = NoBlock]
            /\ UNCHANGED <<gone, used, removing>>
      [] OTHER -> UNCHANGED <<world, stash>>

Fail(p) ==
    /\ gone' = IF cl[p].op = "set" THEN gone \cup {cl[p].blk} ELSE gone
    /\ UNCHANGED <<cur, used, removing>>

\* RemoveMaintenance: test -f, which does nothing more when it fails ...
Test(p) ==
    /\ At(p, "test")
    /\ \/ stash[cl[p].app] # NoBlock /\ Goto(p, "cat") /\ UNCHANGED budget
       \/ stash[cl[p].app] = NoBlock /\ cl' = [cl EXCEPT ![p] = Idle] /\ UNCHANGED budget
       \/ Fault /\ cl' = [cl EXCEPT ![p] = Idle]
    /\ UNCHANGED <<disk, lockVars, world>>

\* ... and cat.
Cat(p) ==
    /\ At(p, "cat")
    /\ \/ cl' = [cl EXCEPT ![p].pc = "lock", ![p].blk = stash[cl[p].app]]
          /\ UNCHANGED budget
       \/ Fault /\ cl' = [cl EXCEPT ![p] = Idle]
    /\ UNCHANGED <<disk, lockVars, world>>

-----------------------------------------------------------------------------
(* acquireLock.                                                            *)

\* Mutant: mkdir -p, which succeeds on a directory that is there.
MkdirParents(p) ==
    /\ At(p, "lock")
    /\ lock' = p /\ lockOld' = FALSE
    /\ Goto(p, "read")
    /\ UNCHANGED <<disk, world, budget>>

MkdirWon(p) ==
    /\ At(p, "lock")
    /\ lock = "free"
    /\ lock' = p /\ lockOld' = FALSE
    /\ Goto(p, "read")
    /\ UNCHANGED <<disk, world, budget>>

MkdirLost(p) ==
    /\ At(p, "lock")
    /\ lock # "free"
    /\ Goto(p, "stale")
    /\ UNCHANGED <<disk, lockVars, world, budget>>

\* [ -d .lock ] && older than 120 seconds && rm -rf .lock, a shell command
\* during which other commands run.
SeesStale(p) ==
    /\ At(p, "stale")
    /\ lock # "free" /\ lockOld
    /\ Goto(p, "break")
    /\ UNCHANGED <<disk, lockVars, world, budget>>

Break(p) ==
    /\ At(p, "break")
    /\ lock' = "free" /\ lockOld' = FALSE
    /\ Goto(p, "lock")
    /\ UNCHANGED <<disk, world, budget>>

\* Sleep and try again.
Wait(p) ==
    /\ At(p, "stale")
    /\ ~lockOld
    /\ Goto(p, "lock")
    /\ UNCHANGED <<disk, lockVars, world, budget>>

\* After 60 tries.
TimesOut(p) ==
    /\ At(p, "stale")
    /\ ~lockOld
    /\ cl' = [cl EXCEPT ![p] = Idle]
    /\ Fail(p)
    /\ UNCHANGED <<disk, lockVars, used, budget>>

Expire ==
    /\ lock # "free" /\ ~lockOld
    /\ lockOld' = TRUE
    /\ UNCHANGED <<disk, lock, cl, world, budget>>

-----------------------------------------------------------------------------
(* mutate.                                                                 *)

\* renderUpdated.  Markers are searched as substrings: those of a longer app
\* name match too, and a part of their last line stays behind.
Render(c, a, adopt, b) ==
    LET cut == {x \in Apps : <<a, x>> \in Longer /\ c.blk[x] # NoBlock}
    IN [blk   |-> [x \in Apps |-> IF x = a THEN b
                                  ELSE IF x \in cut THEN NoBlock ELSE c.blk[x]],
        other |-> IF adopt THEN [c.other EXCEPT ![a] = "none"] ELSE c.other,
        junk  |-> c.junk \/ cut # {}]

Transform(c, p) ==
    LET a == cl[p].app
        b == cl[p].blk
    IN CASE cl[p].op \in {"set", "on"}     -> Render(c, a, TRUE, b)
         [] cl[p].op \in {"remove", "off"} -> Render(c, a, FALSE, b)
         [] cl[p].op = "redirect" -> [Render(c, a, TRUE, b) EXCEPT !.other[a] = "redirect"]

Read(p) ==
    /\ At(p, "read")
    /\ LET new == Transform(file, p)
           next == IF cl[p].op = "on" /\ file.blk[cl[p].app] # NoBlock
                   THEN "stash" ELSE "upload"
       IN \/ cl' = [cl EXCEPT ![p].pc = next, ![p].prev = file, ![p].new = new]
          \/ new = file /\ next = "upload" /\ Goto(p, "release ok")
    /\ UNCHANGED <<disk, lockVars, world, budget>>

\* Mutants: SetMaintenance keeps the new block, or the whole file.
StashFile(p) ==
    /\ At(p, "stash")
    /\ stash' = [stash EXCEPT ![cl[p].app] = cl[p].prev]
    /\ Goto(p, "upload")
    /\ UNCHANGED <<file, tmp, live, setup, lockVars, world, budget>>

StashNew(p) ==
    /\ At(p, "stash")
    /\ stash' = [stash EXCEPT ![cl[p].app] = cl[p].new.blk[cl[p].app]]
    /\ Goto(p, "upload")
    /\ UNCHANGED <<file, tmp, live, setup, lockVars, world, budget>>

\* SetMaintenance keeps the block it is about to replace, whichever it is.
Stash(p) ==
    /\ At(p, "stash")
    /\ stash' = [stash EXCEPT ![cl[p].app] = cl[p].prev.blk[cl[p].app]]
    /\ Goto(p, "upload")
    /\ UNCHANGED <<file, tmp, live, setup, lockVars, world, budget>>

\* writeCaddyfile: the upload of the temporary file, whose name is the same for
\* all, and mv.
Upload(p) ==
    /\ cl[p].pc \in {"upload", "undo"}
    /\ tmp' = {IF At(p, "upload") THEN cl[p].new ELSE cl[p].prev}
    /\ Goto(p, IF At(p, "upload") THEN "move" ELSE "undomove")
    /\ UNCHANGED <<file, live, setup, stash, lockVars, world, budget>>

Move(p) ==
    /\ cl[p].pc \in {"move", "undomove"}
    /\ \E c \in tmp : file' = c
    /\ tmp' = {}
    /\ Goto(p, IF At(p, "move") THEN "reload" ELSE "undoreload")
    /\ UNCHANGED <<live, setup, stash, lockVars, world, budget>>

\* A command fails: the reading, the stashing, the writing, or the writing of
\* the previous content after a failed reload.
StepFails(p) ==
    /\ cl[p].pc \in {"read", "stash", "upload", "move", "undo", "undomove"}
    /\ IF cl[p].pc \in {"move", "undomove"} /\ tmp = {} THEN UNCHANGED budget ELSE Fault
    /\ Goto(p, "release")
    /\ UNCHANGED <<disk, lockVars, world>>

\* Caddy loads no rejected block and no two blocks of one domain; leftover
\* lines are an error or an empty site, depending on what follows them.
Loads(c) ==
    \A a \in Apps : c.blk[a].num \notin bad /\ (c.blk[a] = NoBlock \/ c.other[a] = "none")

Rejects(c) == ~Loads(c) \/ c.junk

Reload(p) ==
    /\ At(p, "reload")
    /\ \/ mount = "directory" /\ Loads(file) /\ live' = file
       \/ mount = "file" /\ UNCHANGED live
    /\ Goto(p, "verify")
    /\ UNCHANGED <<file, tmp, setup, stash, lockVars, world, budget>>

\* Mutant: a failed reload counts as one that worked.
ReloadFailsUnseen(p) ==
    /\ At(p, "reload")
    /\ IF mount = "directory" /\ Rejects(file) THEN UNCHANGED budget ELSE Fault
    /\ Goto(p, "verify")
    /\ UNCHANGED <<disk, lockVars, world>>

\* Mutant: the previous content is not put back.
ReloadFailsForGood(p) ==
    /\ At(p, "reload")
    /\ IF mount = "directory" /\ Rejects(file) THEN UNCHANGED budget ELSE Fault
    /\ Goto(p, "release")
    /\ UNCHANGED <<disk, lockVars, world>>

ReloadFails(p) ==
    /\ At(p, "reload")
    /\ IF mount = "directory" /\ Rejects(file) THEN UNCHANGED budget ELSE Fault
    /\ Goto(p, "undo")
    /\ UNCHANGED <<disk, lockVars, world>>

UndoReload(p) ==
    /\ At(p, "undoreload")
    /\ \/ mount = "directory" /\ Loads(file) /\ live' = file /\ UNCHANGED budget
       \/ UNCHANGED live
          /\ IF mount = "file" \/ Rejects(file) THEN UNCHANGED budget ELSE Fault
    /\ Goto(p, "release")
    /\ UNCHANGED <<file, tmp, setup, stash, lockVars, world>>

\* A check that cannot be run has passed.
Verify(p) ==
    /\ At(p, "verify")
    /\ \/ Goto(p, IF mount = "file" THEN "release" ELSE "release ok") /\ UNCHANGED budget
       \/ Goto(p, "release ok") /\ Fault
    /\ UNCHANGED <<disk, lockVars, world>>

\* rmdir, of whatever directory is there; its errors are ignored.
Release(p) ==
    /\ cl[p].pc \in {"release", "release ok"}
    /\ \/ lock' = "free" /\ lockOld' = FALSE /\ UNCHANGED budget
       \/ Fault /\ lock' = (IF lock = p THEN "abandoned" ELSE lock) /\ UNCHANGED lockOld
    /\ cl' = [cl EXCEPT ![p] = IF At(p, "release ok") /\ cl[p].op = "off"
                              THEN [@ EXCEPT !.pc = "rm stash"] ELSE Idle]
    /\ IF At(p, "release ok") THEN Succeed(p) ELSE Fail(p) /\ UNCHANGED stash
    /\ UNCHANGED <<file, tmp, live, setup>>

RemoveStash(p) ==
    /\ At(p, "rm stash")
    /\ \/ stash' = [stash EXCEPT ![cl[p].app] = NoBlock] /\ UNCHANGED budget
       \/ Fault /\ UNCHANGED stash
    /\ cl' = [cl EXCEPT ![p] = Idle]
    /\ UNCHANGED <<file, tmp, live, setup, lockVars, world>>

Dies(p) ==
    /\ ~At(p, "idle")
    /\ Spend("crashes")
    /\ lock' = (IF lock = p THEN "abandoned" ELSE lock)
    /\ cl' = [cl EXCEPT ![p] = Idle]
    /\ UNCHANGED <<disk, lockOld, world>>

\* The Caddy container restarts: it loads the file as it is.
Boot ==
    /\ mount = "directory"
    /\ \/ Loads(file) /\ live' = file
       \/ Rejects(file) /\ live' = Nothing
    /\ UNCHANGED <<file, tmp, setup, stash, lockVars, cl, world, budget>>

-----------------------------------------------------------------------------

Step(p) ==
    \/ Test(p) \/ Cat(p)
    \/ MkdirWon(p) \/ MkdirLost(p) \/ SeesStale(p) \/ Break(p) \/ Wait(p) \/ TimesOut(p)
    \/ Read(p) \/ Stash(p) \/ Upload(p) \/ Move(p) \/ StepFails(p)
    \/ Reload(p) \/ ReloadFails(p) \/ UndoReload(p) \/ Verify(p)
    \/ Release(p) \/ RemoveStash(p) \/ Dies(p)

AllIdle == \A p \in Clients : At(p, "idle")

\* Nobody runs a command: the only way to stop.
Rest == AllIdle /\ UNCHANGED vars

Next ==
    \/ \E p \in Clients, op \in Ops, a \in Apps, b \in Block : Begin(p, op, a, b)
    \/ \E p \in Clients : Step(p)
    \/ Expire \/ Boot \/ Rest

WorkingOn(a) == {p \in Clients : cl[p].app = a}

InMaintenance(a) == file.blk[a] = MaintBlock \/ stash[a] # NoBlock

AsUsual ==
    /\ "one per app" \in Habits => \A a \in Apps : Cardinality(WorkingOn(a)') <= 1
    /\ "deployed apps" \in Habits =>
        \A p \in Clients : At(p, "idle") /\ cl'[p].op \in {"on", "off", "remove", "redirect"} =>
            cur[cl'[p].app] # NoBlock \/ cl'[p].app \in removing
    /\ "maintenance alone" \in Habits =>
        \A p \in Clients : At(p, "idle") /\ cl'[p].op \in {"set", "on"} =>
            ~InMaintenance(cl'[p].app)
    /\ "in time" \in Habits => (lockOld' /\ ~lockOld => lock = "abandoned")
    /\ "lone breaker" \in Habits =>
        \A p, q \in Clients : cl'[p].pc = "break" /\ cl'[q].pc = "break" => p = q
    /\ "calm boots" \in Habits => (Boot /\ Rejects(file) => AllIdle \/ bad = {})
    /\ "mortal if sound" \in Habits =>
        (budget'.crashes < budget.crashes => mount = "directory" /\ bad = {})

OpsNext == Next /\ AsUsual

Spec == Init /\ [][OpsNext]_vars

-----------------------------------------------------------------------------
(* Properties.                                                             *)

NoCrash == budget.crashes = MaxCrashes
Clean   == NoCrash /\ budget.faults = MaxFaults
Quiet(a) == WorkingOn(a) = {}

\* "Concurrent deploys of different apps to the same server can't clobber the
\* shared file": a write changes nothing but the blocks of an app that the
\* writer works on, and never brings back what another command replaced.
OnlyOwnBlock ==
    [][\A p \in Clients, a \in Apps : Move(p) /\ a # cl[p].app =>
            file'.blk[a] = file.blk[a] /\ file'.other[a] = file.other[a]]_vars

\* The write reaches Caddy, or verifyDelivered tells that it does not.
Noticed == mount = "directory" \/ budget.faults = MaxFaults

\* No rejected block stayed on disk because its roll-back failed.
RolledBack == bad = {} \/ Clean

\* At most one command failed and one process died so far: with two failures a
\* roll-back that fails leaves a route on disk for Caddy's next start, and with two
\* deaths two blocks of one domain get there, which block everybody's reloads.
FewMishaps == budget.faults >= MaxFaults - 1 /\ budget.crashes >= MaxCrashes - 1

\* No route Caddy serves leads to containers that are gone, unless the app is
\* being removed.  That holds too when Caddy is stuck with an old file: "the
\* deploy was aborted before stopping the old container, so the site keeps
\* serving".
NoDeadRoute ==
    Noticed /\ FewMishaps => \A a \in Apps : live.blk[a] \in gone => a \in removing

\* Every app nobody works on is served by its last successful deploy, or by
\* the maintenance page, as long as no command died; or failed, where one may
\* have put a block on disk that Caddy rejects.
ServesLatest ==
    NoCrash /\ Noticed /\ RolledBack /\ FewMishaps => \A a \in Apps :
        Quiet(a) /\ a \notin removing => live.blk[a] \in {cur[a], MaintBlock}

\* "A failed reload rolls the file back so Caddy never persists a config it
\* can't load": if no command failed other than by Caddy's rejecting a block,
\* the file is what Caddy runs whenever no command is running.
FileIsLive == AllIdle /\ Clean /\ mount = "directory" => Loads(file) /\ file = live

\* `maintenance off` that succeeds has put a route there, not the page ...
OffShowsRoute ==
    [][\A p \in Clients : Release(p) /\ At(p, "release ok") /\ cl[p].op = "off" =>
            file.blk[cl[p].app] \in Route]_vars

\* ... for as long as the file shows the page, the route it replaced is safe in
\* the stash.
StashKeepsRoute ==
    mount = "directory" /\ RolledBack /\ FewMishaps => \A a \in Apps :
        Quiet(a) /\ a \notin removing /\ file.blk[a] = MaintBlock =>
            stash[a] \in Route \ gone
=============================================================================
