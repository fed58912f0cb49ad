----------------------------- MODULE Autodeploy -----------------------------
(***************************************************************************)
(* `teploy autodeploy serve`: the resident webhook server of one app, its  *)
(* memory of handled deliveries, and the deploys it triggers, beside       *)
(* operators who deploy from the same checkout.                            *)
(*                                                                         *)
(* Pushes are numbered; push n makes version n.  The lock is AppLock's:    *)
(* AcquireLock succeeds or fails in one step (see DeployLock).             *)
(***************************************************************************)
EXTENDS Integers, FiniteSets

CONSTANTS Jobs,         \* deliveries handled at the same time
          MaxPushes,
          Matching,     \* pushes that touch the app's autodeploy.paths
          Budget,       \* how often each of Chances may happen,
          MaxKinds      \* and how many of them in one behaviour

Chances == {"crashes",   \* the server is killed or restarted
            "faults",    \* a command fails, a write fails or is cut short
            "ages",      \* a delivery becomes 24 hours old
            "unlocks",   \* `teploy unlock` of a lock in use
            "overlaps",  \* two handlers at once; a build beside an operator's
            "reloads",   \* Caddy reloads for another reason than a deploy here
            "ops"}       \* operators' own deploys

ASSUME AutodeployAssumption ==
    /\ MaxPushes \in Nat /\ Matching \subseteq 1..MaxPushes
    /\ Budget \in [Chances -> Nat] /\ MaxKinds \in Nat
    /\ Jobs \cap {"free", "operator", "abandoned"} = {}

Pushes   == 1..MaxPushes
Versions == 0..MaxPushes   \* 0 before the first push

VARIABLES
    head,      \* the branch's newest push
    up,        \* the server runs
    routed,    \* Caddy leads /teploy-webhook/<app> to it
    seen,      \* the deliveries in memory: recorded in the last 24 hours or not
    disk,      \* .autodeploy-dedup.json
    job,       \* a handler, then the deploy it has triggered
    op,        \* an operator's `teploy deploy` in server-build mode
    lock,      \* who holds the app's deploy lock
    git,       \* HEAD of the build checkout
    tree,      \* the version of the files in it that git tracks or a sync sends
    strays,    \* other files lie there, which git does not track
    image,     \* for each version the files its image was built from, or 0
    mixed,     \* the versions whose images have strays in them
    deployed,  \* the version that runs
    count,     \* deploys triggered for each push
    budget

dedup  == <<seen, disk>>
server == <<git, tree, strays, image, mixed, deployed>>
vars   == <<head, up, routed, dedup, job, op, lock, server, count, budget>>

Memory   == [Pushes -> {"unknown", "recent", "old"}]
Nothing  == [p \in Pushes |-> "unknown"]
Known(m) == {p \in Pushes : m[p] # "unknown"}

JobLabels == {"idle", "snapshot", "truncate", "write", "trigger", "lock", "fetch", "version",
              "build", "inner", "commit", "inner release", "release"}
Handler   == [pc : JobLabels, push : Versions, snap : Memory, ver : Versions]

NoJob == [pc |-> "idle", push |-> 0, snap |-> Nothing, ver |-> 0]
NoOp  == [pc |-> "idle", ver |-> 0]

TypeOK ==
    /\ head \in Versions
    /\ up \in BOOLEAN /\ routed \in BOOLEAN
    /\ seen \in Memory /\ disk \in Memory
    /\ job \in [Jobs -> Handler]
    /\ op \in [pc : {"idle", "build", "lock", "commit", "release"}, ver : Versions]
    /\ lock \in Jobs \cup {"free", "operator", "abandoned"}
    /\ git \in Versions /\ tree \in Versions /\ deployed \in Versions
    /\ strays \in BOOLEAN
    /\ image \in [Pushes -> Versions] /\ mixed \in SUBSET Versions
    /\ count \in [Pushes -> Nat]
    /\ budget \in [Chances -> Nat]

\* After `teploy autodeploy setup`.
Init ==
    /\ head = 0
    /\ up = TRUE /\ routed = TRUE
    /\ seen = Nothing /\ disk = Nothing
    /\ job = [j \in Jobs |-> NoJob]
    /\ op = NoOp
    /\ lock = "free"
    /\ git = 0 /\ tree = 0 /\ deployed = 0
    /\ strays = FALSE
    /\ image = [v \in Pushes |-> 0] /\ mixed = {}
    /\ count = [p \in Pushes |-> 0]
    /\ budget = Budget

Never(k)   == budget[k] = Budget[k]

SpendEach(ks) == /\ \A k \in ks : budget[k] > 0
                 /\ budget' = [k \in Chances |-> IF k \in ks THEN budget[k] - 1 ELSE budget[k]]

Spend(k)   == SpendEach({k})
At(j, l)   == job[j].pc = l
Goto(j, l) == job' = [job EXCEPT ![j].pc = l]
End(j)     == job' = [job EXCEPT ![j] = NoJob]

Idle     == \A j \in Jobs : At(j, "idle")
Handling == {j \in Jobs : job[j].pc \in {"snapshot", "truncate", "write", "trigger"}}
Building == {j \in Jobs : job[j].pc \in {"fetch", "version", "build"}}

\* Something the code expects to be alone is not.
Overlap(here) == IF here THEN Spend("overlaps") ELSE UNCHANGED budget

-----------------------------------------------------------------------------
(* newWebhookHandler, for a request whose signature is valid.              *)

Push ==
    /\ head < MaxPushes
    /\ head' = head + 1
    /\ UNCHANGED <<up, routed, dedup, job, op, lock, server, count, budget>>

\* A delivery was recorded 24 hours ago.
Aged(m, p) == IF m[p] = "recent" THEN [m EXCEPT ![p] = "old"] ELSE m

Age(p) ==
    /\ seen[p] = "recent"
    /\ Spend("ages")
    /\ seen' = Aged(seen, p) /\ disk' = Aged(disk, p)
    /\ job' = [j \in Jobs |-> [job[j] EXCEPT !.snap = Aged(@, p)]]
    /\ UNCHANGED <<head, up, routed, op, lock, server, count>>

\* SeenAndRecord, under the set's mutex: the provider's first attempt, a retry
\* or a redelivery of push p.
Pruned(m) == [p \in Pushes |-> IF m[p] = "old" THEN "unknown" ELSE m[p]]

Receive(j, p) ==
    /\ At(j, "idle") /\ up /\ routed
    /\ p <= head
    /\ Overlap(Handling # {})
    /\ seen[p] # "recent"
    /\ seen' = [Pruned(seen) EXCEPT ![p] = "recent"]
    /\ job' = [job EXCEPT ![j] = [NoJob EXCEPT !.pc = "snapshot", !.push = p]]
    /\ UNCHANGED <<head, up, routed, disk, op, lock, server, count>>

ReceiveReplay(p) ==
    /\ up /\ routed
    /\ seen[p] = "recent"
    /\ seen' = Pruned(seen)
    /\ UNCHANGED <<head, up, routed, disk, job, op, lock, server, count, budget>>

\* onDedupChanged: Snapshot under the mutex, os.WriteFile without it, which
\* truncates the file and then writes from its beginning.  That it fails is
\* ignored.
Snapshot(j) ==
    /\ At(j, "snapshot")
    /\ job' = [job EXCEPT ![j].pc = "truncate", ![j].snap = seen]
    /\ UNCHANGED <<head, up, routed, dedup, op, lock, server, count, budget>>

\* Mutant: it is not.
TruncateOrStop(j) ==
    /\ At(j, "truncate")
    /\ \/ disk' = Nothing /\ Goto(j, "write") /\ UNCHANGED budget
       \/ Spend("faults") /\ End(j) /\ UNCHANGED disk
    /\ UNCHANGED <<head, up, routed, seen, op, lock, server, count>>

Truncate(j) ==
    /\ At(j, "truncate")
    /\ \/ disk' = Nothing /\ Goto(j, "write") /\ UNCHANGED budget
       \/ Spend("faults") /\ Goto(j, "trigger") /\ UNCHANGED disk
    /\ UNCHANGED <<head, up, routed, seen, op, lock, server, count>>

\* Over the longer snapshot of another handler it leaves that one's end: no
\* JSON, which LoadDeliveryDedup takes for an empty set.
Written(m) == IF Cardinality(Known(disk)) > Cardinality(Known(m)) THEN Nothing ELSE m

Write(j) ==
    /\ At(j, "write")
    /\ disk' = Written(job[j].snap)
    /\ job' = [job EXCEPT ![j].pc = "trigger", ![j].snap = Nothing]
    /\ UNCHANGED <<head, up, routed, seen, op, lock, server, count, budget>>

\* 200, and go triggerAutoDeploy.
Trigger(j) ==
    /\ At(j, "trigger")
    /\ count' = [count EXCEPT ![job[j].push] = @ + 1]
    /\ Goto(j, "lock")
    /\ UNCHANGED <<head, up, routed, dedup, op, lock, server, budget>>

-----------------------------------------------------------------------------
(* triggerAutoDeploy.                                                      *)

\* Mutant: the lock is taken over.
LockTaken(j) ==
    /\ At(j, "lock")
    /\ lock' = j
    /\ Goto(j, "fetch")
    /\ UNCHANGED <<head, up, routed, dedup, op, server, count, budget>>

LockWon(j) ==
    /\ At(j, "lock")
    /\ lock = "free"
    /\ lock' = j
    /\ Goto(j, "fetch")
    /\ UNCHANGED <<head, up, routed, dedup, op, server, count, budget>>

\* "deploy is already in progress": nothing tries again.
LockLost(j) ==
    /\ At(j, "lock")
    /\ lock # "free"
    /\ End(j)
    /\ UNCHANGED <<head, up, routed, dedup, op, lock, server, count, budget>>

\* git fetch, git reset --hard; then the path filter.  Without a git clean, what
\* git does not track stays, unless the new commit has a file of that name.
\* Whether the payload has a reliable list of files is the provider's choice.
Fetch(j) ==
    /\ At(j, "fetch")
    /\ Overlap(op.pc = "build")
    /\ git' = head /\ tree' = head
    /\ strays' \in {strays, FALSE}
    /\ \/ Goto(j, "version")
       \/ job[j].push \notin Matching /\ Goto(j, "release")
    /\ UNCHANGED <<head, up, routed, dedup, op, lock, image, mixed, deployed, count>>

\* Mutant: the commit of the payload.
ReadVersionEarly(j) ==
    /\ At(j, "version")
    /\ job' = [job EXCEPT ![j].pc = "build", ![j].ver = job[j].push]
    /\ UNCHANGED <<head, up, routed, dedup, op, lock, server, count, budget>>

\* gitShortHashIn.
ReadVersion(j) ==
    /\ At(j, "version")
    /\ job' = [job EXCEPT ![j].pc = "build", ![j].ver = git]
    /\ UNCHANGED <<head, up, routed, dedup, op, lock, server, count, budget>>

\* Mutant: one version too far.
BuildNext(v) ==
    /\ image' = [image EXCEPT ![v] = tree + 1]
    /\ UNCHANGED <<git, tree, strays, mixed, deployed>>

\* docker build of version v sends the whole directory.
BuildImage(v) ==
    /\ image' = [image EXCEPT ![v] = tree]
    /\ mixed' = IF strays THEN mixed \cup {v} ELSE mixed \ {v}
    /\ UNCHANGED <<git, tree, strays, deployed>>

\* Build the checkout.
Build(j) ==
    /\ At(j, "build")
    /\ BuildImage(job[j].ver)
    /\ Goto(j, "inner")
    /\ UNCHANGED <<head, up, routed, dedup, op, lock, count, budget>>

\* The fetch, the build, or what deployBuiltImage does before the deploy.
JobFails(j) ==
    /\ job[j].pc \in {"fetch", "version", "build", "inner"}
    /\ Spend("faults")
    /\ Goto(j, "release")
    /\ UNCHANGED <<head, up, routed, dedup, op, lock, server, count>>

\* Deployer.Deploy takes the lock again.
InnerWon(j) ==
    /\ At(j, "inner")
    /\ lock = "free"
    /\ lock' = j
    /\ Goto(j, "commit")
    /\ UNCHANGED <<head, up, routed, dedup, op, server, count, budget>>

InnerLost(j) ==
    /\ At(j, "inner")
    /\ lock # "free"
    /\ Goto(j, "release")
    /\ UNCHANGED <<head, up, routed, dedup, op, lock, server, count, budget>>

\* The deploy (under caddy ingress) reloads Caddy from the Caddyfile, where the
\* webhook's route, which `setup` put into the running configuration only, is not.
Commit(j) ==
    /\ At(j, "commit")
    /\ deployed' = job[j].ver
    /\ routed' = FALSE
    /\ Goto(j, "inner release")
    /\ UNCHANGED <<head, up, dedup, op, lock, git, tree, strays, image, mixed, count, budget>>

InnerFails(j) ==
    /\ At(j, "commit")
    /\ Spend("faults")
    /\ routed' \in {routed, FALSE}
    /\ Goto(j, "inner release")
    /\ UNCHANGED <<head, up, dedup, op, lock, server, count>>

InnerRelease(j) ==
    /\ At(j, "inner release")
    /\ lock' = "free"
    /\ Goto(j, "release")
    /\ UNCHANGED <<head, up, routed, dedup, op, server, count, budget>>

\* Mutant: errors between the two locks return without releasing.
ReleaseForgotten(j) ==
    /\ At(j, "release")
    /\ End(j)
    /\ UNCHANGED <<head, up, routed, dedup, op, lock, server, count, budget>>

\* ReleaseLockDetached: rm -rf, whoever's lock it is.
Release(j) ==
    /\ At(j, "release")
    /\ lock' = "free"
    /\ End(j)
    /\ UNCHANGED <<head, up, routed, dedup, op, server, count, budget>>

-----------------------------------------------------------------------------
(* The server's life, and operators.                                       *)

Abandoned == IF lock \in Jobs THEN "abandoned" ELSE lock

Writing == \E j \in Jobs : At(j, "write")

\* What has been truncated stays so.
Killed ==
    /\ SpendEach(IF Writing THEN {"crashes", "faults"} ELSE {"crashes"})
    /\ job' = [j \in Jobs |-> NoJob]
    /\ lock' = Abandoned

Crash ==
    /\ up
    /\ Killed
    /\ up' = FALSE
    /\ seen' = Nothing
    /\ UNCHANGED <<head, routed, disk, op, server, count>>

\* Mutant: the set starts empty.
RestartEmpty ==
    /\ ~up
    /\ up' = TRUE
    /\ seen' = Nothing
    /\ UNCHANGED <<head, routed, disk, job, op, lock, server, count, budget>>

\* systemd restarts it; LoadDeliveryDedup.
Restart ==
    /\ ~up
    /\ up' = TRUE
    /\ seen' = disk
    /\ UNCHANGED <<head, routed, disk, job, op, lock, server, count, budget>>

\* `teploy autodeploy setup` again: systemctl restart, and the route.
Setup ==
    /\ Killed
    /\ up' = TRUE
    /\ seen' = disk
    /\ routed' = TRUE
    /\ UNCHANGED <<head, disk, op, server, count>>

\* The next AcquireLock breaks a stale lock.
Expire ==
    /\ lock = "abandoned"
    /\ lock' = "free"
    /\ UNCHANGED <<head, up, routed, dedup, job, op, server, count, budget>>

Unlock ==
    /\ lock # "free"
    /\ Spend("unlocks")
    /\ lock' = "free"
    /\ UNCHANGED <<head, up, routed, dedup, job, op, server, count>>

\* deployAppConfig: rsync --delete to the build directory (without .git and what
\* .teployignore names, which is neither sent nor deleted), build, and only then
\* Deployer.Deploy with its lock.  The operator's directory may have files that
\* the commit checked out on the server does not.
OpSync(v) ==
    /\ op.pc = "idle"
    /\ v <= head
    /\ SpendEach(IF Building = {} THEN {"ops"} ELSE {"ops", "overlaps"})
    /\ op' = [pc |-> "build", ver |-> v]
    /\ tree' = v
    /\ strays' \in BOOLEAN
    /\ UNCHANGED <<head, up, routed, dedup, job, lock, git, image, mixed, deployed, count>>

OpBuild ==
    /\ op.pc = "build"
    /\ \/ /\ BuildImage(op.ver)
          /\ op' = [op EXCEPT !.pc = "lock"]
          /\ UNCHANGED budget
       \/ Spend("faults") /\ op' = NoOp /\ UNCHANGED server
    /\ UNCHANGED <<head, up, routed, dedup, job, lock, count>>

OpLock ==
    /\ op.pc = "lock"
    /\ \/ /\ lock = "free" /\ lock' = "operator"
          /\ op' = [op EXCEPT !.pc = "commit"]
          /\ UNCHANGED budget
       \/ lock # "free" /\ op' = NoOp /\ UNCHANGED <<lock, budget>>
       \/ Spend("faults") /\ op' = NoOp /\ UNCHANGED lock
    /\ UNCHANGED <<head, up, routed, dedup, job, server, count>>

OpCommit ==
    /\ op.pc = "commit"
    /\ deployed' = op.ver
    /\ routed' = FALSE
    /\ op' = [op EXCEPT !.pc = "release"]
    /\ UNCHANGED <<head, up, dedup, job, lock, git, tree, strays, image, mixed, count, budget>>

OpFails ==
    /\ op.pc = "commit"
    /\ Spend("faults")
    /\ routed' \in {routed, FALSE}
    /\ op' = [op EXCEPT !.pc = "release"]
    /\ UNCHANGED <<head, up, dedup, job, lock, server, count>>

OpRelease ==
    /\ op.pc = "release"
    /\ lock' = "free"
    /\ op' = NoOp
    /\ UNCHANGED <<head, up, routed, dedup, job, server, count, budget>>

\* Any other reload or restart of Caddy.
RouteLost ==
    /\ routed
    /\ Spend("reloads")
    /\ routed' = FALSE
    /\ UNCHANGED <<head, up, dedup, job, op, lock, server, count>>

-----------------------------------------------------------------------------

Handle(j) == Snapshot(j) \/ Truncate(j) \/ Write(j) \/ Trigger(j)

Run(j) ==
    \/ LockWon(j) \/ LockLost(j) \/ Fetch(j) \/ ReadVersion(j) \/ Build(j)
    \/ InnerWon(j) \/ InnerLost(j) \/ Commit(j) \/ InnerRelease(j) \/ Release(j)

Operator ==
    \/ \E v \in Pushes : OpSync(v)
    \/ OpBuild \/ OpLock \/ OpCommit \/ OpFails \/ OpRelease \/ Unlock \/ Setup

\* Nothing is going on: the only way to stop.
Rest == Idle /\ op.pc = "idle" /\ UNCHANGED vars

Next ==
    \/ Push
    \/ \E p \in Pushes : Age(p) \/ ReceiveReplay(p) \/ \E j \in Jobs : Receive(j, p)
    \/ \E j \in Jobs : Handle(j) \/ Run(j) \/ JobFails(j) \/ InnerFails(j)
    \/ Crash \/ Restart \/ Expire \/ RouteLost
    \/ Operator \/ Rest

FewKinds == Cardinality({k \in Chances : ~Never(k)}) <= MaxKinds

Spec == Init /\ [][Next /\ FewKinds']_vars

\* Deliveries arrive, and the server goes on with what it has begun.
FairSpec ==
    /\ Spec
    /\ \A p \in Pushes : WF_vars(\E j \in Jobs : Receive(j, p))
    /\ \A j \in Jobs : WF_vars(Handle(j) \/ Run(j))

-----------------------------------------------------------------------------
(* Properties.                                                             *)

\* "a captured valid webhook payload can't be replayed to re-trigger deploys",
\* and neither can a provider's retry, across any crashes: a delivery triggers
\* one deploy, and one more for each time it has become 24 hours old.  That
\* rests on what is on disk being as new as the last trigger, so on no write's
\* failing and no two handlers' writing at a time.
TriggeredOnce ==
    Never("faults") /\ Never("overlaps") =>
        \A p \in Pushes : count[p] <= 1 + Budget["ages"] - budget["ages"]

\* A delivery that is answered as a replay has not been lost: as long as the
\* server has not been killed, it has triggered its deploy or is about to.
NoneLost ==
    Never("crashes") => \A p \in Known(seen) :
        count[p] > 0 \/ \E j \in Handling : job[j].push = p

\* An image has the files of the version it is named after, although webhook
\* deploys and operators build in one directory and a push may come between the
\* one that triggered the deploy and its fetch; and it has no others, unless an
\* operator has synced into the checkout, which no fetch cleans.
ImageIsVersion ==
    Never("unlocks") /\ Never("overlaps") =>
        /\ \A v \in Pushes : image[v] \in {0, v}
        /\ Never("ops") => mixed = {}

\* A webhook deploy has the lock from its first command on the checkout to its
\* end, whichever way it ends, and no one ever removes another's: only an
\* operator's `unlock` changes that.
Locked(j) == ~At(j, "idle") /\ ~At(j, "lock") /\ j \notin Handling

LockIsOwn ==
    Never("unlocks") =>
        /\ \A j \in Jobs : Locked(j) <=> lock = j
        /\ op.pc \in {"commit", "release"} <=> lock = "operator"

\* "Every push then triggers a redeploy on the server": the app comes to run
\* every push that touched it, or a later one.
EveryPushRedeploys == \A p \in Matching : head >= p ~> deployed >= p
=============================================================================
