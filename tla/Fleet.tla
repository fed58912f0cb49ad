-------------------------------- MODULE Fleet --------------------------------
(***************************************************************************)
(* `teploy deploy` to the servers of teploy.yml and `teploy scale`: waves  *)
(* of deploys in parallel slots, the canary and the failure budget of a    *)
(* rollout, the rollback of a wave that failed, and the load balancers.    *)
(* What one deploy does to its server is in Deploy; here it either has     *)
(* committed its state or left the server on its version.                  *)
(***************************************************************************)
EXTENDS Mishaps, FiniteSets

CONSTANTS
    NumMachines,  \* servers, in the order of teploy.yml and of their names
    Balancers,    \* servers of role lb
    Heads,        \* number of commits
    Flagged,      \* versions that --version names
    Slots,        \* values of --parallel
    Rollouts      \* rollout blocks, each with its canary and max_failures

Machines   == 1..NumMachines
Versioned  == 1..Heads
CanarySpec == [unit : {"count", "percent"}, n : Nat \ {0}]
AllAtOnce  == [canary |-> [unit |-> "none", n |-> 1], max |-> 0]   \* no rollout block

ASSUME FleetAssumption ==
    /\ NumMachines \in Nat \ {0} /\ Heads \in Nat \ {0}
    /\ Slots \subseteq Nat \ {0} /\ Flagged \subseteq Versioned
    /\ \A r \in Rollouts : r.canary \in CanarySpec /\ r.max \in Nat

VARIABLES
    head,   \* the commit checked out where teploy runs
    ver,    \* current version of each server, 0 for none
    prior,  \* the previous version in its state
    lb,     \* upstreams of each load balancer
    fleet   \* the command that runs

fleetVars == <<head, ver, prior, lb, fleet>>

\* todo, at, ok, bad: the servers of the wave that wait, are being deployed,
\* succeeded and did not; failed: a failure was seen; rest: the main wave, while
\* the canary is deployed; passed: the canary; lbs: balancers to update.
\* was: the versions before the command, for the properties.
NoFleet == [pc |-> "idle", op |-> "none", asked |-> 0, slots |-> 1, max |-> 0,
            todo |-> {}, at |-> {}, ok |-> {}, bad |-> {}, failed |-> FALSE,
            rest |-> {}, passed |-> {}, lbs |-> {}, cancelled |-> FALSE,
            was |-> [m \in Machines |-> 0]]

FleetTypeOK ==
    /\ head \in Versioned
    /\ ver \in [Machines -> 0..Heads] /\ prior \in [Machines -> 0..Heads]
    /\ lb \in [Balancers -> SUBSET Machines]
    /\ fleet \in [pc : {"idle", "canary", "recall", "main", "back", "lb"},
                  op : {"none", "deploy", "scale"}, asked : 0..Heads, slots : Slots \cup {1},
                  max : Nat, todo : SUBSET Machines, at : SUBSET Machines,
                  ok : SUBSET Machines, bad : SUBSET Machines, failed : BOOLEAN,
                  rest : SUBSET Machines, passed : SUBSET Machines,
                  lbs : SUBSET Balancers, cancelled : BOOLEAN,
                  was : [Machines -> 0..Heads]]

FleetInit ==
    /\ head = 1
    /\ ver = [m \in Machines |-> 0] /\ prior = [m \in Machines |-> 0]
    /\ lb = [b \in Balancers |-> {}]
    /\ fleet = NoFleet

FleetAt(label) == fleet.pc = label
Wave(label, servers) == [fleet EXCEPT !.pc = label, !.todo = servers, !.at = {},
                                      !.ok = {}, !.bad = {}, !.failed = FALSE]

\* The k first servers of a set, in the order of the list.
FirstOf(S, k) == {m \in S : Cardinality({n \in S : n < m}) < k}

\* CanaryCount: a percentage is rounded up; at least one, never all.
CanaryCount(spec, total) ==
    LET n == IF spec.unit = "percent" THEN (total * spec.n + 99) \div 100 ELSE spec.n
    IN IF n < total THEN n ELSE IF total > 1 THEN total - 1 ELSE 1

-----------------------------------------------------------------------------
(* The servers one by one, and the directory teploy runs in.               *)

Overlap == IF FleetAt("idle") THEN {} ELSE {"race"}

\* git commit or checkout, while a fleet is deployed or not
Commit ==
    /\ head < Heads
    /\ head' = head + 1
    /\ Used(Overlap)
    /\ UNCHANGED <<ver, prior, lb, fleet>>

\* teploy deploy <server> [--version v]; the load balancers are not told.  While
\* the server is being deployed to, its lock turns others away.
DeployOne(m, v) ==
    /\ m \notin fleet.at
    /\ BeginAs({"reuse"} \cup Overlap)
    /\ ver' = [ver EXCEPT ![m] = v]
    /\ prior' = [prior EXCEPT ![m] = ver[m]]
    /\ UNCHANGED <<head, lb, fleet>>

\* teploy rollback, of one server
RollbackOne(m) ==
    /\ m \notin fleet.at /\ prior[m] \notin {0, ver[m]}
    /\ BeginAs({"reuse"} \cup Overlap)
    /\ ver' = [ver EXCEPT ![m] = prior[m]]
    /\ prior' = [prior EXCEPT ![m] = ver[m]]
    /\ UNCHANGED <<head, lb, fleet>>

\* A server is lost and replaced by an empty one at another address.
Replace(m) ==
    /\ m \notin fleet.at /\ ver[m] # 0
    /\ BeginAs(Overlap)
    /\ ver' = [ver EXCEPT ![m] = 0]
    /\ prior' = [prior EXCEPT ![m] = 0]
    /\ lb' = [b \in Balancers |-> lb[b] \ {m}]
    /\ UNCHANGED <<head, fleet>>

-----------------------------------------------------------------------------
(* Commands on the fleet.                                                  *)

\* teploy deploy [--version v]: the servers are those of the list, or of a role
\* or tag.  Neither --version nor --image goes any further.
StartFleet(targets, v, slots, rollout) ==
    /\ FleetAt("idle") /\ Cardinality(targets) > 1
    /\ Begin
    /\ LET new == [NoFleet EXCEPT !.op = "deploy", !.asked = v, !.slots = slots,
                                  !.max = rollout.max, !.was = ver]
       IN IF rollout = AllAtOnce
          THEN fleet' = [new EXCEPT !.pc = "main", !.todo = targets]
          ELSE LET canary == FirstOf(targets, CanaryCount(rollout.canary, Cardinality(targets)))
               IN fleet' = [new EXCEPT !.pc = "canary", !.todo = canary, !.rest = targets \ canary]
    /\ UNCHANGED <<head, ver, prior, lb>>

\* teploy scale count
StartScale(count, slots) ==
    /\ FleetAt("idle")
    /\ Begin
    /\ fleet' = [NoFleet EXCEPT !.op = "scale", !.pc = "main", !.slots = slots,
                                !.todo = FirstOf(Machines, count), !.was = ver]
    /\ UNCHANGED <<head, ver, prior, lb>>

\* Mutant: rollbacks fail fast as well.
AlwaysFailFast == TRUE

\* ParallelDeploy, not ParallelDeployAll
FailFast ==
    \/ FleetAt("canary")
    \/ FleetAt("main") /\ fleet.max = 0

\* The loop over the servers, in order: a slot is taken, and given back when
\* a failure has been seen.  The canary is deployed serially.
Dispatch(m) ==
    /\ m \in fleet.todo /\ \A n \in fleet.todo : m <= n
    /\ Cardinality(fleet.at) < IF FleetAt("canary") THEN 1 ELSE fleet.slots
    /\ fleet' = IF FailFast /\ fleet.failed
                THEN [fleet EXCEPT !.todo = @ \ {m}, !.bad = @ \cup {m}]
                ELSE [fleet EXCEPT !.todo = @ \ {m}, !.at = @ \cup {m}]
    /\ UNCHANGED <<head, ver, prior, lb, luck>>

Succeeds(m) == fleet' = [fleet EXCEPT !.at = @ \ {m}, !.ok = @ \cup {m}]
FailsOn(m)  == fleet' = [fleet EXCEPT !.at = @ \ {m}, !.bad = @ \cup {m}, !.failed = TRUE]

\* The version is what git says when the server's turn comes.
ServerCommits(m) ==
    /\ ver' = [ver EXCEPT ![m] = head]
    /\ prior' = [prior EXCEPT ![m] = ver[m]]

\* deploySingleServer ends.  Interrupted, it may have committed all the same.
Deployed(m) ==
    /\ fleet.pc \in {"canary", "main"} /\ m \in fleet.at
    /\ \/ ~fleet.cancelled /\ ServerCommits(m) /\ Succeeds(m) /\ UNCHANGED luck
       \/ ~fleet.cancelled /\ UNCHANGED <<ver, prior>> /\ FailsOn(m) /\ Mishap("fault")
       \/ fleet.cancelled /\ ServerCommits(m) /\ (Succeeds(m) \/ FailsOn(m)) /\ UNCHANGED luck
       \/ fleet.cancelled /\ UNCHANGED <<ver, prior>> /\ FailsOn(m) /\ UNCHANGED luck
    /\ UNCHANGED <<head, lb>>

\* rollbackSingleServer ends, without effect when there is no previous version
\* or it is the current one; interrupted, it cannot even connect.
RolledBack(m) ==
    /\ fleet.pc \in {"recall", "back"} /\ m \in fleet.at
    /\ LET possible == prior[m] \notin {0, ver[m]} /\ ~fleet.cancelled
       IN \/ /\ possible
             /\ ver' = [ver EXCEPT ![m] = prior[m]]
             /\ prior' = [prior EXCEPT ![m] = ver[m]]
             /\ Succeeds(m)
             /\ UNCHANGED luck
          \/ /\ IF possible THEN Mishap("clean") ELSE UNCHANGED luck
             /\ FailsOn(m)
             /\ UNCHANGED <<ver, prior>>
    /\ UNCHANGED <<head, lb>>

WaveIsOver == fleet.pc \in {"canary", "recall", "main", "back"} /\ fleet.todo = {} /\ fleet.at = {}

\* Those that succeeded are rolled back, if any.
Revert(label, servers) ==
    fleet' = IF servers = {} THEN NoFleet ELSE Wave(label, servers)

CanaryEnds ==
    /\ WaveIsOver /\ FleetAt("canary")
    /\ IF fleet.bad = {}
       THEN fleet' = [Wave("main", fleet.rest) EXCEPT !.passed = fleet.ok, !.rest = {}]
       ELSE Revert("recall", fleet.ok)
    /\ UNCHANGED <<head, ver, prior, lb, luck>>

\* Servers that are on the new version
Done == fleet.passed \cup fleet.ok

\* All went well, or within the budget; scale is content with any success.
KeepsSuccesses ==
    \/ fleet.op = "scale"
    \/ fleet.bad = {}
    \/ fleet.max > 0 /\ Cardinality(fleet.bad) <= fleet.max

MainEnds ==
    /\ WaveIsOver /\ FleetAt("main")
    /\ IF KeepsSuccesses
       THEN fleet' = IF Done = {} THEN NoFleet ELSE [fleet EXCEPT !.pc = "lb", !.lbs = Balancers]
       ELSE Revert("back", Done)
    /\ UNCHANGED <<head, ver, prior, lb, luck>>

RevertEnds ==
    /\ WaveIsOver /\ fleet.pc \in {"recall", "back"}
    /\ fleet' = NoFleet
    /\ UNCHANGED <<head, ver, prior, lb, luck>>

\* updateLoadBalancer: one after the other, to the first error, which is a warning.
UpdateBalancer(b) ==
    /\ FleetAt("lb") /\ b \in fleet.lbs
    /\ \/ /\ ~fleet.cancelled
          /\ lb' = [lb EXCEPT ![b] = Done]
          /\ fleet' = [fleet EXCEPT !.lbs = @ \ {b}]
          /\ UNCHANGED luck
       \/ /\ IF fleet.cancelled THEN UNCHANGED luck ELSE Mishap("save")
          /\ fleet' = NoFleet
          /\ UNCHANGED lb
    /\ UNCHANGED <<head, ver, prior>>

BalancersUpdated ==
    /\ FleetAt("lb") /\ fleet.lbs = {}
    /\ fleet' = NoFleet
    /\ UNCHANGED <<head, ver, prior, lb, luck>>

\* Ctrl-C: whatever is still to do has a cancelled context, rollbacks included.
Interrupt ==
    /\ ~FleetAt("idle") /\ ~fleet.cancelled
    /\ Mishap("cancel")
    /\ fleet' = [fleet EXCEPT !.cancelled = TRUE]
    /\ UNCHANGED <<head, ver, prior, lb>>

FleetDies ==
    /\ ~FleetAt("idle")
    /\ Mishap("crash")
    /\ fleet' = NoFleet
    /\ UNCHANGED <<head, ver, prior, lb>>

FleetNext ==
    \/ Commit \/ CanaryEnds \/ MainEnds \/ RevertEnds \/ BalancersUpdated \/ Interrupt \/ FleetDies
    \/ \E m \in Machines : Dispatch(m) \/ Deployed(m) \/ RolledBack(m) \/ RollbackOne(m) \/ Replace(m)
    \/ \E m \in Machines, v \in {head} \cup Flagged : DeployOne(m, v)
    \/ \E b \in Balancers : UpdateBalancer(b)
    \/ \E k \in Machines, s \in Slots : StartScale(k, s)
    \/ \E targets \in SUBSET Machines, v \in {0} \cup Flagged, s \in Slots,
          r \in Rollouts \cup {AllAtOnce} : StartFleet(targets, v, s, r)

-----------------------------------------------------------------------------
\* The servers of the command.
Targets == UNION {fleet.todo, fleet.at, fleet.ok, fleet.bad, fleet.rest, fleet.passed}

FleetEnds == fleet.op = "deploy" /\ fleet.pc # "idle" /\ fleet'.pc = "idle"

Converged ==
    LET hit == {m \in Machines : ver'[m] # fleet.was[m]}
        old == {m \in Targets : ver'[m] # head}
    IN \/ /\ \A m \in Done : ver'[m] = head
          /\ Cardinality(old) <= fleet.max
          /\ hit \subseteq Done
       \/ \A m \in hit : fleet.was[m] = 0

\* "No mixed-version fleet": whichever deploys fail, in whichever order, a
\* command leaves its servers all on the new version, or all but as many as
\* max_failures on it and those on theirs, or all on the version they had.  A
\* server deployed for the first time stays on the new one.  Presupposed are
\* rollbacks that work, and no interrupt, death or other command meanwhile.
FleetConverges ==
    FleetEnds /\ luck'.had \cap {"clean", "cancel", "crash", "race"} = {} => Converged

\* "Only they enter the load balancer": a load balancer never spreads its
\* requests over two versions once a command has ended, whatever deploys fail,
\* budgets are used up and servers replaced or scaled away.  It takes a failed
\* rollback, a failed update of the balancer, or a deploy of one server alone.
BalancedAlike ==
    FleetAt("idle") /\ NoneOf({"clean", "cancel", "crash", "race", "save", "reuse"})
        => \A b \in Balancers : \A m, n \in lb[b] : ver[m] = ver[n]

\* Both, of every step: the fleet agrees on its version, and so does what the
\* load balancers serve.
FleetAgrees == [][FleetConverges /\ BalancedAlike']_fleetVars
=============================================================================
