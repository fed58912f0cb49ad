# Verification of Teploy

Teploy deploys containerised and static web apps to servers over SSH.  It has no
agent and no database: every command (`teploy deploy`, `rollback`, `lock`, `heal`,
`maintenance`, ...) is a process that sends shell commands to a server, and all
that the next command knows is what the last one left there.  What can go wrong
is therefore what can go wrong *between two of those shell commands*: another
command runs, one of them fails, or the process dies.

The modules here model that level: **one command sent over SSH is one action**,
it may fail, and its process may die after any of them.

## 1. Inventory

| component | source (`src/internal/...`) | state it keeps | operations |
|---|---|---|---|
| deploy lock | `state/state.go`, `cli/lock.go` | `/deployments/<app>/.lock/` and `.lock/info` | AcquireLock, AcquireHealLock, AcquireManualLock, ReleaseLock(Detached), `lock`, `unlock` |
| deploy and rollback | `deploy/deploy.go`, `rollback.go`, `health.go` | containers, route, `state.json` | Deploy, abortStateCommit, Rollback, restoreRollbackRoute |
| lifecycle | `deploy/lifecycle.go`, `cli/lifecycle.go` | containers | stop, start, restart of an app |
| docker client | `docker/docker.go` | Docker's containers and images | Run, Stop, Start, Restart, Remove, Rename, ListContainers, PruneVersions |
| volumes | `docker/volumes.go` | the app's data on the host | VolumeMismatch, MigrateVolumes |
| applied state, pins, log | `state/state.go`, `state/pins.go` | `state.json`, legacy `state`, `pins`, `teploy.log` | Read, Write, ReadPins, AppendLog |
| Caddy | `caddy/caddy.go`, `cli/remove.go`, `cli/maintenance.go` | the Caddyfile, its lock, the maintenance stash, what Caddy runs | SetRoute, SetLoadBalancer, SetStaticRoute, RemoveRoute, AppendRedirect, SetMaintenance, RemoveMaintenance |
| static deploys | `deploy/static.go` | `releases/<hash>`, `current` symlink, `state.json`, route | Deploy, Rollback, pruneReleases |
| heal | `cli/heal.go` | heal manifest, attempt counters | runHealPass, enable, disable |
| autodeploy server | `cli/autodeploy_serve.go`, `autodeploy/*.go` | dedup set in memory and on disk, build checkout, cron script of scheduled redeploys | webhook handler, triggerAutoDeploy, Setup, Schedule |
| multi-server deploys | `multideploy/*.go`, `cli/deploy.go`, `cli/scale.go`, `cli/rollback.go` | the servers' states, the load balancers' routes | canary wave, main wave, rollback of a failed wave, scale |
| previews | `preview/preview.go`, `cli/preview.go` | preview containers, routes, `previews/*.json` | Deploy, Destroy, List, Prune |
| accessories | `accessories/accessories.go`, `cli/accessory.go` | accessory containers, generated credentials | EnsureRunning, InjectEnvVars, Upgrade, stop, start |
| env and secrets | `env/*.go`, `secret/*.go`, `cli/secret.go`, `cli/envfile.go` | `.env`, age key and `secrets/*.age`, `.deploy-env` | Get, Set, Unset, Rotate, DecryptAll, buildContainerEnvFiles |
| OpenBao | `openbao/*.go`, `cli/secret_openbao.go` | nodes, seal key, root token, policies, engines | Setup, SetupHA, EnsureAppRole, database roles, Put |
| OpenBao audit trail | `openbao/audit.go`, `cli/secret_audit.go` | audit log, `.audit-shipped` | `secret audit ship` |
| backup | `backup/*.go`, `cli/backup.go` | archives in S3, files in `/tmp`, cron entries | backup, restore, verify, prune, schedule |
| config | `config/app.go` | none (teploy.yml and overlays are read) | LoadAppWithDestination, Validate, mergeConfigs |
| network | `network/*.go`, `cli/network*.go` | VPN peers, time-limited grants, in other services | join, grant, revoke |
| ssh | `ssh/*.go` | connections | Run, Upload |
| build, registry | `build/*.go`, `cli/registry.go` | images, build directory | Build, Sync, PruneImages, login |
| plan, drift, validate, machine | `cli/plan.go`, `cli/drift.go`, `cli/machine.go`, ... | none | comparisons, reports |
| the rest | setup, templates, dns, harden, diagnose, notify, audit, TUI output | none, or written once | |

How they interact: `teploy deploy` loads its configuration, ensures the accessories,
writes the env files, migrates volumes (all of this before any lock), takes the deploy lock, reads the state, runs
containers through Docker, sets the route through the Caddyfile (which all apps
of a server share and which has a lock of its own), writes the state, stops the
previous containers and prunes.  `rollback` does the same in reverse and takes no
lock; `stop`, `start` and `restart` take none either.  A heal pass takes the deploy
lock for each restart.  The webhook server
runs deploys on the server itself.  A multi-server deploy runs single-server
deploys in parallel slots, then tells the load balancers.  Previews, backups and
`teploy secret` work beside all of these without a lock.

What makes each part correct:

- *deploy lock*: two workers never work on one app; a freeze stays until it is
  unlocked; heal never breaks a deploy; a dead worker does not lock the app for ever.
- *deploy, rollback*: the app is served throughout; the state file names what
  serves; old versions do not linger; the rollback target is not pruned; every
  failure ends in the old or the new version running.
- *Caddyfile*: a command changes its own app's block only; no update is lost; a
  failed change is rolled back to something Caddy loads; no route leads to a
  container that is gone; `maintenance off` restores the route.
- *static*: `current`, the route and the state agree after every failure; pruning
  spares the rollback target.
- *heal and lifecycle*: bounded restarts, never of something that was stopped; one
  version runs when all is quiet.
- *autodeploy*: every push is deployed once, or the next one is.
- *multi-server*: a command leaves its servers on one version (within its budget of
  failures), and a load balancer never mixes two.
- *previews*: what runs, what is routed and what is listed are the same; nobody's
  preview is taken down by a command for another branch.
- *volumes*: data written under the old mounts is there under the new ones.
- *accessories, .env*: the URL in `.env` opens the database; what a user set stays.
- *secrets*: a container starts with the value each variable should have.
- *OpenBao*: the kept seal key opens the barrier; a repeated setup keeps the grant for
  a dynamic role (that of a static role it drops); "ready" is true.
- *audit trail*: no access is counted as shipped that was not; none is sent twice
  without cause.
- *backups*: the newest are never pruned; a restore or a verification that reports
  success has done what it says; a failed restore leaves the data alone.
- *config*: an overlay changes what it names and nothing else, and opens nothing
  the base closes.

## 2. The modules

```
AppLock      what a lock promises            (abstract)
DeployLock   the mkdir-and-info protocol     implements AppLock
  MCDeployLock      TLC instances            DeployLockProofs   TLAPS

AppServer    containers, route, state.json of one app
Deploy       Deployer.Deploy                 EXTENDS AppServer
Rollback     Rollback                        EXTENDS AppServer
AppOps       both, as operators issue them   EXTENDS Deploy, Rollback
  MCAppOps          TLC instances            AppOpsProofs      TLAPS

CaddyFile    the shared Caddyfile
  MCCaddyFile       TLC instances            CaddyFileProofs   TLAPS

Autodeploy   the webhook server
  MCAutodeploy      TLC instances            AutodeployProofs  TLAPS

Mishaps      how much may go wrong, and what has
  StaticSite  Previews  Upkeep  Fleet  Volumes          composed in ReleaseParts
  Accessories  Backups  Vault  Secrets  AuditTrail  Config   composed in DataParts
    MCReleaseParts, MCDataParts   TLC instances
    ReleasePartsProofs            TLAPS
    DataPartsProofs, DataStoresProofs, BackupsProofs   TLAPS, each extending the one before
```

### DeployLock, AppLock

`dir` is the directory; its value is the process that made it, which is *not* on
disk: that nobody can tell whose directory it is, is what the protocol suffers
from.  `info` is the file in it, `pc` the program counter of each process.
Deploys, heal passes, freezes and unlocks are processes.  `MkdirWon`, `MkdirLost`
are `tryMkdirLock`; `ReadStale`, `ReadYield` the `cat` of `ReadLock` and what
follows from it; `Break`, `RemakeWon`, `RemakeLost` the two break paths;
`WriteInfo` the upload (which needs a directory and does not ask whose); `Release`
the `rm -rf`; `Abandon` a death or an `rm -rf` that never arrives.  Time is the
action `Expire`: the info passes its TTL (2 minutes for heal, 30 for deploys).

`AppLock` has a holder and a freeze flag, and no files.

### AppServer, Deploy, Rollback, AppOps

`ctr` maps each container name (process, version, replica index, `_replaced` or
not) to absent, exited, started or healthy; `route` is the set of names Caddy
proxies the app to; `st` is the part of `state.json` that decides something
(current version, number of ports, previous version); `ingress` is chosen at the
start.  `d` and `r` are the local variables of a running deploy or rollback.
Every loop of the code over containers is a set `todo` from which elements are
taken in any order.  Errors the code ignores are ignored, errors it returns end
the operation at that point, with its clean-up.  What `PruneVersions` considers
the newest versions (it sorts by creation time) is left open: any choice.

A failed command has no effect, except where the code's one call is several
Docker commands (`docker run` after the removal of a stopped container; stop and
remove): those fail at each point.  A command that took effect while its answer
was lost is covered by the crash of the process.

`AppOps` lets operators start one deploy and one rollback at a time, of any
version, with any number of replicas and any subset of worker processes.

### CaddyFile

`file` is the set of blocks (which containers each app's block leads to, whether
there is an unmarked block for its domains, whether the remains of a block cut
in two are there), `tmp` the temporary file that every command uploads before
`mv`, `live` what the running Caddy serves, `stash` the stashed maintenance
block, `lock`/`lockOld` the lock directory and its age, `mount` how the container
sees the file, `bad` the deploys whose block Caddy rejects.  Each client goes
through `acquireLock`, `mutate` and
`verifyDelivered`; its callers (deploy, `remove`, `remove --redirect`,
`maintenance on`/`off`) do before and after it what they do to the containers:
`used`, `gone`, `removing`, `cur`.

### Autodeploy

`seen` is the dedup set in memory and `disk` its file; each holds for every push
whether its delivery is unknown, recorded, or recorded more than 24 hours ago
(pruned when the next request comes).  A `job` is one request's handler
(`Receive`, `Snapshot`, `Truncate`, `Write`, `Trigger`: the file is written outside
the mutex, so these interleave) and then the goroutine it starts: `LockWon`,
`Fetch` (with the path filter), `ReadVersion`, `Build`, and then
`Deployer.Deploy`, reduced to its lock (`InnerWon`, `InnerLost`), its success or
failure (`Commit`, `InnerFails`) and its release: what happens inside is `Deploy`.
`git` and `tree` are HEAD and the files of the checkout, `image` records which
files each version's image was built from.  `strays` says that the checkout has other
files too: an operator's rsync brings what git does not track there, or spares what
`.teployignore` names, and the webhook deploy's `git reset --hard` removes none of them
(there is no `git clean`); `mixed` is the set of versions whose images have such files.  `OpSync`, `OpBuild`, `OpLock`, ... are
an operator's `teploy deploy` in server-build mode, which works in the same
directory and takes the lock only after it has built.  `Crash`, `Restart` and
`Setup` are the life of the service.  The lock is the abstract one.

Instead of habits it has chances: `Budget` says how often each kind of mishap (a
crash, a fault, `unlock` of a lock in use, two handlers or two builds at a time,
...) may happen, and properties say which of them they presuppose never to have
happened.  `TriggeredOnce` presupposes that no write of the dedup file failed and
that no two handlers overlapped, because an older snapshot may overwrite a newer
one; `ImageIsVersion` that no operator builds beside a job and that nobody
unlocked, and for the part about strays that no operator has deployed from source at all; `NoneLost` that the server was not killed, since a delivery on disk
whose server died before `Trigger` is refused as a replay and never deployed.

### Mishaps

The other parts share this small module.  `luck.ops` counts the operations still
to come, `luck.left` the mishaps, and `luck.had` remembers the kinds there have been.
*Failures*: `fault` (a command that the rest depends on), `save` (a write of state),
`clean` (a clean-up whose error is ignored), `read` (a read whose failure passes for
"nothing there"), `crash`, `cancel` (Ctrl-C), `rot` (a stored file that spoils).
*Uses*, which cost nothing: `race` (commands overlap where nothing serialises them),
`collision`, `reuse` (what was deployed before is deployed again, or servers one by
one), `stamp` (a release with an old mtime), `stolen` (another command takes a
preview's container or route), `prefix` (an edit cuts the block of a label that extends
its own), `leftover` (an aborted deploy leaves containers that were never live).  A property names exactly the kinds it presupposes not to have
happened; all the others it survives.  That is where the real content of these
properties is: TLC refuses each of them when one of the presupposed kinds is dropped
from its list, and holds when all the others happen.

The parts of `ReleaseParts`, and those of `DataParts`, share no state; `part` says
which one moves in a behaviour, so that a run visits the sum of their states.

### StaticSite

`releases` are the complete releases, `newer` which of them `ls -1t` lists before
which, `link` the symlink `current`, `siteUp` whether the route exists, `siteSt` the state file, `site` the
running command (`read`, `test`, `upload`, `move`, `flip`, `route`, `write`, with
`unroute`/`restore` for abortStaticStateCommit and `prune`).  Deploy and Rollback run
through the same steps, as in the code.  `MoveRelease` has what rsync's `-a` does to
the order: the new release gets the mtime of its source.

### Previews

`pctr`, `proute`, `pst`: containers, routes and state files by label; `Sanitize` is
SanitizeBranch, which is not injective.  `user` are the commands of several clients.
`deploy` lists and destroys what has expired, destroys its own branch's preview, runs,
finds the port, routes, saves; `UndoPreview` is the clean-up of a failure.
`AppTakes` is the app's own `PruneVersions` and `teploy stop`, which see the same labels.
`Extends` are the pairs of labels of which one is the beginning of the other.  An edit of
the Caddyfile looks for a label's markers as substrings: it cuts the blocks of all that extend
the label (`Cut`), and leaves the rest of their marker lines behind (`junk`), with which
Caddy may take the file (`Edited`) or not (`Rejected`).  `AppCuts` is a deploy of the app itself,
with whose name those of all its previews begin.

### Upkeep

`box` are the containers (one web container for each version, one accessory), `sick`
those that do not answer their probe, `holder` the lock.  `pass` is a heal pass: list,
port, probe, record, lock, `docker restart`, unlock, and the state file at its end.
`rollout` is a deploy, of which only the lock, the switch and the end of the old
version are here.  `life` is `teploy stop`, `start`, `restart`.  `cron` is the script of
a scheduled redeploy, which stops, removes and runs one web container under its own
name; `redated` are the containers to which it gave the date as their version label, by
which `start` and `restart` look for them.  `tries` counts
restarts since a container was last found healthy; it is not in the code but what
`max_attempts` is about.

### Fleet

`ver`, `prior` are each server's current and previous version, `lb` the upstreams of
each load balancer, `head` the commit that is checked out (the version is what git
says when a server's turn comes).  `fleet` is the command: `Dispatch` is
ParallelDeploy's loop and its slots, `Deployed` and `RolledBack` what becomes of one
server, `CanaryEnds`, `MainEnds`, `RevertEnds` what follows a wave, `UpdateBalancer`
the load balancers one by one.  `CanaryCount` and `FirstOf` are CanaryCount and the
split of the list.  `DeployOne`, `RollbackOne` and `Replace` happen beside it.

### Volumes

`disk` is what each path holds of each volume, `batches` the app's containers by
version in the order of their creation, `live` the version that is routed.
`DetectVolumeMismatches` looks at the newest batch, `StopSeen` stops one of its
containers, `CopyVolume` is `cp -a`, `StartVersion` and `SwapVersion` are the deploy.
`MigrationFails` ends it before it has made a container, `LeaveVersion` before it routes one
(a replica that does not start, a death, or Ctrl-C, which cancels the clean-up too),
`DiesRouted` after that.

### Accessories

`creds`, `dbPass`, `db`: the stored password, the one the data directory was
initialised with, the container; `env` is `.env` and `scratch` the file in `/tmp` through
which lines are appended to it.  A deploy goes through `ResolveEnv`, `SaveCredentials`,
`InspectDb`, `RunDb` (EnsureRunning) and `ReadEnvFile`, `CreateEnvFile` or
`UploadLines` and `AppendLines` (InjectEnvVars); `upgrade` removes the container first;
`ReadToEdit` and `WriteEdited` are `teploy env set` and `unset`.

### Backups

`held` is what each store holds, `bucket` its archives, `loadTmp`, `stage`, `proofTmp`
and `rig` the temporary files and containers of restores and verifications, two of
which have the same name for every app; `job` the cron entries; `clerk` the commands.
A store is a set of volumes, a database restored through a pipe or one restored as a
tar: what fails in a pipe goes unnoticed, what fails in a staging directory does not.
Nor does a pipe empty the database first: `Loaded` says what may come of a dump in one that has
data.  `SetUpAnew` is a database that has none, on a new server for instance.  Time is the number of operations begun.

### Vault

`kept` is what the local secret store has of OpenBao (seal key, root token, AppRole),
`node` each node with the seal key in its environment, `core` what the primary's
volume holds: the key of its barrier, the engine, the policy, the roles.  `setup` is
EnsureSecret, the nodes one by one, WaitReady, Initialize, KeepRoot, EnableKV,
WaitForPeers, EnsureAppRole; `db` and `static` are `secret db setup` and `static-role`.

### Secrets

The four sources of a variable (`envBlock`, `dotEnv`, `store`, `bao`), the file
`deployEnv` in which a deploy merges three of them, and the `container` that is given
it and `.env`.  Deploys of several clients share that file and write it before the lock.

### AuditTrail

`log` is the audit log, `marker` the number of its lines counted as shipped, `sent` how
often observe has got each line's event.  A run reads the marker and the log, emits
event after event, and stores a new marker: all lines after a success
(`PersistAll`), and after a failure (`PersistFailed`) the old marker and the number of
*events* sent.

### Config

`base` and `overlay` are documents, functions from the fields they set to values that
the checks or the merge tell apart; `loaded` is what LoadAppWithDestination returns.
`Validate` is the checks, one operator for each of their functions; `MergeField` says
for each field which way of merging the code has for it, `Unmerged` being those that
mergeConfigs does not mention.

## 3. Habits

Many properties hold only if the tool is used in a certain way.  Instead of
leaving the other uses out of the model, the modules have them all.  `AppOps` and
`CaddyFile` name the uses that a run excludes in the constant `Habits` (in `AppOps` a
set of such sets: the variable `habits` is one of them, so that one run compares
careful and careless use).  Each is there because
without it TLC breaks a property (a run or the note below says which):

| habit | without it |
|---|---|
| `alone`: no rollback during a deploy | the rollback's target is pruned (`rollback_races`); two commits overwrite each other |
| `new`: no deploy of the current version | under external ingress the redeployed containers have the names of the live ones put aside, and a failure after that removes what served |
| `not previous`: no deploy of the previous version | the names collide with the rollback target's; the target is gone if the deploy fails |
| `same workers` | a worker dropped from the config is never stopped, since names come from the new config |
| `to previous`, `to stopped` (rollbacks) | a retried rollback removes (`docker rm -f`) running containers the route leads to |
| `covering` (`AppOps`): a deploy has at least the replicas there are of its version | the containers that an earlier or a dead deploy of the version left are recreated and counted by a rollback to it, so that `state.json` has a number of replicas no deploy asked for, and `restoreRollbackRoute` routes to them unprobed |
| `lucky` (`AppOps`): one command fails at most, and one process dies | two failures in a row undo both the new version and the way back |
| `one per app` (Caddyfile) | `on` and `off` of one app overtake each other between stash and write |
| `deployed apps` | `maintenance on` for an app without a block stashes nothing and `off` keeps the page |
| `maintenance alone` | the second `on` stashes the maintenance page over the route, so `off` restores the page; `off` after a deploy restores the old route |
| `in time` | the lock of a live command is broken after 120 s and two commands write |
| `lone breaker` | the second of two breakers removes the lock the first has just made (`caddy.go:489`) |
| `calm boots` (only where Caddy rejects a block) | a restart of Caddy between the `mv` of a file it rejects and the roll-back loads nothing |
| `mortal if sound`: no process dies where Caddy rejects a block or does not see the file | the rejected file stays for the next boot; nobody is told that the file was not delivered |

`DeployLock` has the same idea as conditions on steps (`CalmStep`): no two
processes are between reading the info and `rm -rf`; a live heal pass is done before
the two minutes of its lock; a live deploy may outlive the thirty minutes of its own,
but no other deploy then comes to break it; nobody unlocks a lock in use.  Without the
third condition the next deploy breaks the lock of the one that is still building: that is
what `AcquireLock` does by design (`state.go:425`), and why only heal is held to "at any age".

## 4. The runs

| run | question | bounds |
|---|---|---|
| `lock_calm` | under the four conditions, is it a lock? (`MutualExclusion`, `FreezeIsPermanent`, `HealNeverBreaksDeploy`, refinement of `AppLock`; `CalmInv` is the inductive invariant of the proof) | 3 deploys, 2 heal passes, 1 freeze, 1 unlock; unbounded behaviours |
| `lock_fair` | is a dead worker's lock broken in the end, with every step allowed to fail or die? (`DeadLockIsBroken`) | 2 deploys, 1 heal pass, 1 freeze, 1 unlock; unbounded |
| `ops_uses` | with careful use: no outage, true state, nothing lingers, rollback target kept; with careless use, host ingress and several failures: no dead route, pruning spares targets, a container stays up | 3 versions, 1 worker, 1 or 2 replicas, 4 operations, 2 failures, 2 crashes, all ingresses |
| `caddy_shared` | lost updates, dead routes, roll-back of files Caddy rejects, maintenance, with two commands at a time | 2 apps, 2 clients, 2 deploys each of which the second may be rejected, both mounts, 4 operations, 1 failure, 1 crash |
| `autodeploy` | does every delivery trigger one deploy, and every job build the right files and release its lock? | 2 pushes, 2 jobs, 1 operation, any 3 kinds of mishap once each |
| `releases` | do static sites, previews, heal and lifecycle, fleets and volume migrations keep their promises? (`SiteHolds`, `PreviewsHold`, `UpkeepHolds`, `FleetAgrees`, `DataFollows`) | below |
| `data` | do accessories and `.env`, backups, OpenBao, secrets, the audit trail and configuration keep theirs? (`CredentialsHold`, `BackupsHold`, `VaultHolds`, `SecretsArrive`, `TrailIsTrue`, `OverlayIsMerged`) | below |
| `lock_heal_breaks` | *violated*: heal breaks a deploy's lock | 1 deploy, 1 heal pass |
| `host_rollback` | *violated*: "the original workload was left running" | 2 versions, 1 failure |
| `rollback_races` | *violated*: pruning "always protects" the previous version | 3 operations, no failure |
| `caddy_prefix` | *violated*: a block's removal "only removes matching app" | 1 client, 3 operations |
| `webhook_never` | *violated*: "Every push then triggers a redeploy" | 1 push, no mishap |

Bounds of `releases`: site 4 operations, 3 contents, keep_releases 2, 2 mishaps;
previews 3 operations of 2 clients, 3 branches of which two share a label and the label of
the third extends theirs, 2 commits, 1 mishap; upkeep 3 operations, 2 versions and an accessory, max_attempts 2, 1 mishap;
fleet 2 operations, 3 servers, 1 load balancer, 2 commits, 2 slots, two rollout blocks
(one canary and one failure allowed; half of the servers and none), 2 mishaps; volumes
4 operations, 2 volumes, 2 replicas, 3 writes, 2 mishaps.

Bounds of `data`, 3 operations and 2 clients each: accessories 2 apps, 2 mishaps;
backups one set of volumes and one SQL database with 2 backups each, keep_last 1,
1 mishap; vault 2 nodes, 2 mishaps; secrets 2 variables in every combination of
sources, 2 mishaps; audit 3 lines, 2 mishaps; config every base of 2 fields besides
its domain and every overlay of 1.

Three bounds are in the specification of a run instead of in its constants.  `ops_uses`
does not explore careful use under host ingress, nor careless use under external
ingress, and gives careless use 3 operations on 2 versions and one crash (`BoundSpec`
of `MCAppOps`).  `caddy_shared` has one operation less where blocks are rejected or
the file is mounted by itself (`BoundSpec` of `MCCaddyFile`).  `AuditTrail` counts
copies of an event up to four.

Why the bounds are enough.  A deploy looks at two versions, the current and its
own; the third is what pruning and the rollback target are about.  Four
operations are the shortest history in which a rollback follows two deploys and a
deploy follows the rollback.  Two replicas are the fewest that differ from one and
of which one can fail.  One failing command and one crash at every point show what
a single fault leads to; careless use has two failures to show what survives
compound ones.  For the Caddyfile two clients suffice for every interleaving of
two read-modify-writes, two apps for one command to hurt another's block.
For the webhook server a second push is the first that can overtake, and two jobs
the fewest that contend for lock, file and checkout.

For the static site a third content is the first that pruning can remove; four
operations are needed for a failed first deploy, another, and a rollback after it.
Three servers are the fewest for which a canary, a main wave of two slots and a budget
of one failure differ, and a failed deploy and a failed rollback take two mishaps.  Two
clients are the fewest that race in what takes no lock, and three commands the shortest
history in which a command finds what a failed one left and a third relies on it (setup,
setup again, use; backup, prune, restore).  In a merge each field is treated by itself,
so one field of an overlay is every case of the merge, and two of the base every pair
that the checks relate to it.

Each passing property has a mutant: the definition changed the way a plausible
bug would (a dropped guard, a forgotten restore, `mkdir -p` for `mkdir`), which TLC
must catch under the same configuration.  The mutants stand beside the
definitions they change, marked as such.

### Fairness

`lock_fair` and `webhook_never`.  In the latter deliveries arrive and the server
goes on with what it has begun, which is more than the code needs to refute.  In
`lock_fair` `Expire` is weakly fair: time passes.  Each deploy is weakly
fair (it is running or is retried), and strongly fair in reading a stale lock and in
removing it: a command sent again and again does not fail every time, and an
operator who cannot deploy tries again.  Heal passes, freezes and unlocks have no
fairness: systemd or an operator may never run them.

The other parts have no liveness property: their commands are loops over finite lists
without waiting, and what starts them is an operator or a timer that owes nothing.

### Deadlock

Checked in every run.  In `AppOps`, `CaddyFile`, `Autodeploy`, `ReleaseParts` and
`DataParts` the operations are bounded, and
`Rest` (nobody runs a command) is the one place where a behaviour may stop; an
operation that is stuck half way would be a deadlock.

## 5. What is proved

By TLAPS, for every value of the constants: any sets of processes, versions, apps,
stores and contents, any number of operations, failures and crashes.  The assumptions
are those named with the constants, which TLC evaluates on every run, and where a
property needs a habit or the absence of prefix names, a hypothesis of the theorem
that says so.

Every proof has the same form.  The property is seldom inductive; the proof module
defines what has to be added (below), shows that it holds initially, that every step
keeps it, and that the property, or the property of a step, follows.  The typing
invariants are stronger than the modules' `TypeOK`: they say what the label of a
process implies for the rest of its state.  Where parts are composed, the invariant is
stated of the part that moves, and each part that does not is as it was initially
(so that `TypeOK` of all parts follows).

`DeployLockProofs` (`KindsAssumption`: the four kinds of processes are disjoint):

- `TypeCorrect`: the type invariant, for `Spec`, without any condition.
- `CalmInvariant`: `CalmInv` is an invariant of `CalmSpec`.  Mutual exclusion alone
  is not inductive: one must know that whoever is between `mkdir` and its release owns
  the directory (`HolderOwnsDir`), that the info file in a live process's directory is
  missing or of its own kind, so that an old one there is a deploy's, and that a process
  about to `rm -rf` is about to remove an abandoned directory, or, for `unlock`, a frozen one.  These are the conjuncts of
  `CalmInv`; each step is shown to keep each of them.
- `CalmMutualExclusion`, `CalmFreezeIsPermanent`: from it.
- `CalmHealNeverBreaksDeploy`: from it too.  A deploy's lock may be old while the deploy
  is alive, and a heal pass may read it then; what keeps the pass away is the test of the
  type in `AcquireHealLock` (with the test `AcquireLock` has instead, TLC finds the lock broken).
- `CalmImplementsAppLock`: every calm step is a step of `AppLock` or a stutter.

So the lock is correct up to the four conditions, and `lock_heal_breaks`
shows that the first of them is needed.

`AutodeployProofs`, for any numbers of pushes and handlers and any budget:

- `TypeCorrect`; every other proof also needs that the budget of a mishap is at most
  what it was, and less once the mishap has happened (`BudgetBounded`).
- `LockIsAlwaysOwn`: `LockInv` adds that a webhook deploy, which holds the lock already,
  never wins it a second time, unless somebody unlocked.
- `NoneIsLost`: a push the server knows has triggered or has a handler that is about to.
- `ImagesAreVersions`: between fetch and build the checkout is at the version that
  names the image, since the lock is one's own and no operator's files lie over it; and
  `CleanInv`: what git does not track comes with an operator's sync only.
- `TriggersOnce`: the memory is ahead of the file by what the one handler is about to
  write; a push that neither has as recent may trigger once more for each day that has
  passed, and `OnceInv` counts that against what each copy of the memory knows.

`AppOpsProofs`, for any versions, processes, replicas, operations, failures and crashes:

- `TypeCorrect`.
- `RouteAlwaysRuns`: what Caddy routes to runs, in every state in which the habits "alone",
  "new" and "to stopped" were kept.  `RouteInv` says of a deploy that it starts, stops
  and removes only containers of versions that are not the current one until it commits,
  and routes only to what it has found ready; of a rollback that what is there of its
  target has all been recreated before it gets the route, and that what ran of the
  current version runs on as long as the route may be put back.
- `PruneSpares`: pruning spares what is current, the rollback's target and the pins, if
  "alone" is kept.  Past its commit a deploy finds its version current and the one it
  replaced the previous one (`PruneInv`), which no other command changes meanwhile.
- `NoOutageEver`: in careful use something answers, and everything that gets traffic has been
  probed.  `CalmInv` follows both commands label by label: until its commit a deploy touches
  nothing of the current or the previous version, a rollback nothing but its target, which
  is not routed to; what is committed, or put back after a failed commit, has been probed; and
  every web container of the current version is healthy (`CurrentServes`).
- `StateAlwaysTells`, `OnlyCurrentEverRuns`, `RollbackTargetIsKept`: as long as nothing has failed,
  the containers of the current version are exactly those its state asks for, and all run;
  those of the previous version are exactly those of some deploy, but for the one a
  rollback is recreating; what runs besides has been started by the command at work or is
  still on its list of what to stop (`CleanInv`).  If a process dies in no command, the
  route is put back after the first failed commit, since nothing can have failed
  before it, and no second command fails while it is put back (`RouteTells`).

`CaddyFileProofs`, for any apps, clients, deploys, faults and crashes:

- `TypeCorrect`.
- `OnlyOwnBlocks`: a write changes the blocks of its writer's app only, if the lock is kept in
  time and broken by one command at a time (`Disciplined`) and no app's name begins another's
  (`Longer = {}`; `caddy_prefix` shows that this is needed).  One command at a time is past the
  lock (`LockInv`), so that what it has read is what the file still holds, and what it
  uploaded is what it will move (`FileInv`).
- `FileStaysLive`: if nothing fails but Caddy's rejecting a block, the file loads and is
  what Caddy runs whenever no command is at work.  Within a command it is so up to the
  write and from the verification on, and in between what was read loads.
- `OffAlwaysShowsRoute`: a `maintenance off` that succeeds has put back a route.  One
  command per app at a time and a maintenance that is not deployed into make sure that
  what is stashed is a route and never the page itself (`PageInv`).
- `NoDeadRouteEver`: with those habits and `mortal if sound`, Caddy serves no route to containers
  that are gone, unless the app is being removed, as long as at most one command failed and one
  process died (`FewMishaps`, part of the property).  The invariant follows a block from
  the deploy that makes it.  Its route is new to the file, to Caddy and to the list of what was
  stopped (`OwnInv`, `FreshInv`), so that what Caddy runs tells whether it was loaded.  What a
  command has read loads while no command failed (`SoundInv`), and no two blocks of one domain
  meet while no process died (`ConfInv`), so that one mishap leaves the roll-back working.
  Hence a deploy that fails knows that Caddy does not run its route and will not load it, and
  one that succeeds that Caddy runs it (`SetInv`); and no block that may be loaded again, from
  the file, the stash or what a roll-back would write, leads to stopped containers
  (`SunkInv`).  Where Caddy does not see the file, no deploy succeeds (`BlindInv`).
- `StashAlwaysKeepsRoute`: the same habits and `deployed apps`.  An app that is not being removed and
  shows the page has something in the stash (`KeepInv`); it is a route (`PageInv`), its
  containers are there (`SunkInv`) and Caddy does not reject it (`StashInv`).
- `ServesLatestAlways`: the same habits and `calm boots`.  Caddy runs the file except for the block
  of the one app whose command is between write and verification (`KnownInv`), and the file
  has the last successful deploy of every app, or the page, except where a deploy has
  written its own block and has neither succeeded nor rolled back (`CurInv`).

`DataPartsProofs`, `DataStoresProofs` and `BackupsProofs`, which extend one another:

- `TrailStaysTrue`: markers only ever count lines whose events were received, since a run
  emits at most the lines it has passed; without mishaps and overlaps a line is sent
  twice by nobody, because a run began where the marker is.
- `OverlayStaysMerged`: what is loaded is the merge of two documents that pass the checks.
- `CredentialsAlwaysHold`: the stored password is that of the data directory, and a command
  has in hand what its next step takes it for (`CredentialsOf`, by label).
- `VaultAlwaysHolds`: the kept seal key is that of every node and of the barrier and is made
  only while there is none; between initialisation and use the primary stays open; a
  grant or the engine is there or is about to be.
- `SecretsAlwaysArrive`: what a deploy has gathered so far is what is stored.
- `BackupsAlwaysHold`: the dates tell the backups of a store apart, what is to be deleted
  has `KeepLast` newer ones that no prune deletes (`FloorInv`, with finite
  cardinalities), and what was fetched is what the bucket has under its date.
- `TypeCorrect`: the types of the six parts, with the sizes of the two documents.

`ReleasePartsProofs`:

- `SiteAlwaysHolds`: the release that is linked, the one in the state and from the switch on
  the command's own are complete; the order of `ls -1t` begins with the current and the previous
  release as long as the exceptions of `RollbackSurvives` have not happened.
- `PreviewsAlwaysHold`: where each command is in taking one preview away and putting another
  there (`AgreeAt`), and that what it takes has expired or is its own branch's (`LiveAt`).  The
  file has remains of a cut block only if one has been cut (`JunkInv`), so that an edit is not
  rejected before.
- `UpkeepAlwaysHolds`: heal's record counts at least the restarts since a container was well;
  without overlaps one of pass, rollout, lifecycle command and script is under way, and
  what runs is of the current version but for a rollout's two.
- `FleetAlwaysAgrees`: a server is in one place of the wave, and those that are done have
  the new version and the old one as their previous, so that a wave that is taken back ends
  where it began; the failures of one that is not are within the budget, which is
  where cardinalities come in.
- `DataAlwaysFollows`: a copied volume stays copied, since the container that may write to it
  was stopped; the newest batch is the live one until the next is started, unless an aborted
  deploy has left one.
- `TypeCorrect`: the types of the five parts.

Four changes to the models came out of the proofs.  `NoDeadRoute`, `ServesLatest` and
`StashKeepsRoute` of `CaddyFile` now say that they are about one failed command and one death at
most, which the bounds of `caddy_shared` had said for them; TLC shows that each fails with a
second failure, and `NoDeadRoute` with a second death (section 6).  `AppOps` had a weaker habit in the
place of `covering`, with which `NoOutage` and `StateTellsServing` hold in the run's four
operations and fail in six: a version is deployed with two replicas, two others follow, it
is deployed again with one, another follows, and a rollback goes back to it.  `StaticSite` has the order of releases as
a relation (`newer`) instead of a sequence, so that nothing has to be proved by induction over
its positions; `Previews` now says that "no branch" is not a branch, without which a
preview without a branch could be taken for another's.

Only model-checked:

- `DeadLockIsBroken`: liveness under fairness, beyond this prover.
- `HostStaysUp` of `AppOps`: its invariant would follow the displaced containers through every
  label of an aborted deploy and an undone rollback under host ingress.
- The violation runs' properties, which do not hold.

## 6. What the properties presuppose

For the parts of `ReleaseParts` and `DataParts`, and for the three properties of `CaddyFile`
below, each excluded kind of mishap was tried:
without it in the list TLC finds the property violated.  So the lists below are what
the code's promises really depend on.

| property | does not survive |
|---|---|
| a static site is served (`SiteServes`) | a read of the state that fails: the app looks new, and its next failure removes the link |
| its state is true (`SiteStateTrue`) | a death half way; two failures |
| its rollback target is kept (`RollbackSurvives`) | a failed or killed deploy (its release counts as one of those kept), a rollback or redeployment (mtimes stay as they are), a source with an old mtime |
| an image has its version's files and no others (`ImageIsVersion`) | `unlock` during a build, an operator's build beside a webhook deploy; for "no others" any earlier deploy from source by an operator |
| nothing of a preview is left behind (`PreviewsAgree`) | ignored errors of Destroy, a state file not written, a death, two clients, labels of which one extends another, the app's own pruning or deploy |
| a live preview stays (`LivePreviewStays`) | two clients, two branches of one label, a label that extends another's (what routes or destroys `fix` cuts the route of `fix-2`), the app's own pruning, `stop` or deploy |
| restarts are bounded (`RestartsBounded`) | a heal state that cannot be read or written; a pass that dies |
| heal wakes nothing (`HealAloneWakesNothing`) | any deploy, stop or start while it runs: it lists before it locks |
| one version runs (`OneVersionRuns`) | overlap, a stop that fails, a death |
| the current container is kept and `start` finds it (`CurrentIsKept`) | a scheduled redeploy that fails or dies after it has removed the container; `start` does not survive one that succeeds, which puts the date on the version label |
| a fleet converges (`FleetConverges`) | a rollback that fails, Ctrl-C (the rollbacks have the cancelled context), a death, another command, a commit in between |
| the balancers serve one version (`BalancedAlike`) | the same, a balancer that cannot be updated, and a deploy or rollback of one server (the balancers are not told) |
| data follow (`DataFollows`) | a rollback before the migration (the newest container is looked at, not the live one); a deploy that ended between starting and routing its version, whose container is the newest then and has the new mounts; a second replica that writes during the copy |
| user values win, the URL opens the database | a read that fails (it passes for an empty file), another command (`/tmp/teploy_env_append` is shared by all apps) |
| restores and verifications say the truth | two of the same kind at a time (fixed names in `/tmp`); of a database: a spoiled dump (the pipe hides it), and for a restore a database that has data (psql and mysql do not empty it, and psql goes on after errors) |
| the seal key is kept (`SealKeyKept`) | a read of it that fails, two setups |
| the database grant is kept, "ready" is true | a command or process that fails in the middle of an earlier setup, two at once |
| secrets arrive (`SecretsArrive`) | a list that fails (it passes for no secrets) or a `test -f .env` that fails (for no .env), two deploys (`.deploy-env` is shared and written before the lock) |
| no route leads to stopped containers (`NoDeadRoute`), what is served is the last deploy (`ServesLatest`), the stash keeps the route (`StashKeepsRoute`) | two failed commands: a reload that fails and a roll-back write that fails leave the aborted deploy's route in the file for Caddy's next start; two deaths (shown for `NoDeadRoute`): a dead `redirect` and a dead `maintenance off` leave two blocks of one domain, with which no reload of any app works; a deploy whose roll-back write fails meanwhile leaves its route to be loaded when the conflict is removed |
| events are shipped once (`ShippedOnce`) | any failure, and two runs at a time; none is ever skipped (`NoneSkipped`) |

Other things the modules do when a habit or a bound is lifted: a lock whose maker died
before writing the info file is never broken automatically; a failed read of
`state.json` is taken for a first deploy; a failed read of the pins is taken for
no pins; of several replicas or workers of which one fails to start, a web
container started before the failure keeps running; a version that is deployed again
with fewer replicas keeps the others, which a rollback to it takes for its own and
`restoreRollbackRoute` may route to unprobed; a roll-back write of the Caddyfile that fails leaves a rejected file for
the next boot.

### Where the code and its words part

The five violation runs are the disagreements that are checked.  These others were met
while modelling; the modules have the code's behaviour.

- `docker/volumes.go:29` says that an empty result means that no data will be orphaned;
  the container looked at is the newest one (`DataFollows`, `reuse`), which after an aborted
  deploy is one that has never been live, while the live one writes to the old paths
  (`LeaveVersion`).
- `caddy_test.go:362` says that removing a block leaves the others; a preview whose label
  extends another's loses its route to the other's `deploy` or `destroy`, and all previews of an
  app lose theirs to a deploy of the app (`Cut`, `AppCuts`; `caddy_prefix` shows it for apps).
- "Restore complete" (`backup/backup.go:369`) is also said of a restore into a Postgres that
  has data, of which nothing may have changed: the dump has no `--clean`, and `psql` goes on
  after every error.  `verify.go:264` has `ON_ERROR_STOP`; the restore has not (`Loaded`).
- `openbao/secrets.go:135` keeps the database grant over a repeated setup for a dynamic role only;
  after `static-role` a setup drops it (`EnsureAppRole`).
- mergeConfigs (`config/app.go`) "applies non-zero values from overlay", but not those
  of firewall, access, audit, secret, dockerfile and the health check's timeouts
  (`Unmerged`); a switch that the base turns on cannot be turned off.
- `cli/autodeploy_serve.go:221` says that a webhook deploy can never silently drift from what
  a manual one does, since both share what follows the build.  What is built differs: a manual
  deploy syncs with `--delete`; the webhook's checkout keeps what an operator's sync left in it
  and git does not track, and every later push is built with it (`Fetch`, `strays`).
- `--version` and `--image` are ignored by a deploy of several servers, though a comment
  (`cli/deploy.go:310`) says that an explicit version always wins (`Fleet`: `asked` decides nothing).
- The cron entry for volume backups contains an unescaped `%`, which cron takes for the
  end of the command (`CronFires`); `cli/backup_alert.go` knows about `%`.
- `accessories.go:298` says that user values always win; a failed `cat` passes for an
  empty file, which is then written anew (`ValuesWinUndisturbed`, `read`).
- `secret setup` says that it is safe to run again; cut off between initialising and
  enabling the engine, a second run reports success without the engine (`ReadyWhenSaid`).
- `openbao/audit.go:124` says that what was sent is not sent again; the marker stored
  after a failure counts events, not lines (`PersistFailed`).
- `teploy secret` tells to restart containers to apply a change; `teploy restart` stops
  and starts the same containers, which keep the environment they were made with
  (`Upkeep`, `Secrets`).
- `heal.go` restarts what "is running but failing"; a container stopped by a deploy
  during the pass is started again (`HealStartsStopped`).
- After a scheduled redeploy `teploy start` and `restart` do not find the current
  version, since the script relabels the container and leaves `state.json` as it was
  (`CronRuns`, `OfVersion`).
- A single-server deploy never updates the load balancer (`DeployOne`), contrary to
  `docs/resilience.md`.

## 7. Not modelled

SSH itself (its effect is a command that succeeds, fails or is the last); building
images, scanning and pruning them; the network providers, whose state is in other services and whose
commands are single HTTP calls; comparisons and reports (plan, drift, validate, status,
machine), which write nothing; one-off server preparation (setup, harden, templates, dns);
notifications and append-only logs; the text of
Caddy blocks, of state digests and of logs; ports, except the one fixed port of host
ingress; asset bridging (a step that may fail); the pins as written by `teploy pin`.
Of the webhook server: signatures, deliveries without an ID (never deduplicated), the
fixed port 9876, on which only one app's listener per server can listen, and its
removal.  Of scheduled redeploys: the command line and limits of the old container, which
the script does not carry over to the new one.  Of accessories: generators other than that of a database's
password, and the adoption of containers that teploy did not make.  Of OpenBao: leases,
PKI, the agent.  Of backups: alerts, and the dumps' formats beyond the two styles.  Of
the configuration: `servers.yml`, defaults, and lists (which are appended to).

Parts are composed only where they share state and the code relies on it: `Upkeep` has
the outline of a deploy beside heal and cron, `Secrets` and `Accessories` the part of one before
the lock, `Fleet` only its outcome.  Their product with `Deploy` would be out of TLC's
reach, and each step of it that matters to the other part is in the outline.

## 8. Plan

1. Theorems: `HostStaysUp` of `AppOps`, from an invariant of the displaced containers under
   host ingress.
2. Abstract specifications: an atomic route table which `CaddyFile` implements under
   its habits; a single-version app which `AppOps` implements.
3. Rollback and pruning beside scheduled redeploys (a relabelled container is not
   found as a rollback target, and pruning does not know that it is protected); pins as a
   read-modify-write file; several accessories; the path filters and name sanitising as
   pure functions against reference definitions.
