------------------------------- MODULE Upkeep -------------------------------
(***************************************************************************)
(* Who starts and stops the containers of an app besides rollbacks: heal   *)
(* passes (`heal run`, fired by a timer on the server), the script of a    *)
(* scheduled redeploy (cron), `teploy stop`, `start` and `restart`, which  *)
(* take no lock, and deploys, of which only the lock, the switch of        *)
(* versions and the end of the old one are here.  A web container is named *)
(* by its version; there is one accessory.                                 *)
(***************************************************************************)
EXTENDS Mishaps, FiniteSets

CONSTANTS Webs,         \* web containers, one for each version
          Database,     \* an accessory's container
          MaxAttempts   \* max_attempts of heal.conf

NoWeb == "none"

ASSUME UpkeepAssumption ==
    /\ Database \notin Webs /\ NoWeb \notin Webs
    /\ MaxAttempts \in Nat \ {0}

Boxes == Webs \cup {Database}

VARIABLES
    box,      \* containers: "absent", "exited" or "running"
    sick,     \* those that do not answer their health probe
    version,  \* state.json's current version
    holder,   \* who made the lock directory: "free", "deploy" or "heal"
    healOn,   \* heal.conf exists
    healSt,   \* heal's state file
    pass,     \* the heal pass under way
    rollout,  \* the deploy under way
    life,     \* the stop, start or restart under way
    tries,    \* restarts of each container since it was last found healthy
    redated,  \* containers whose version label is the date of a scheduled redeploy
    cron      \* the scheduled redeploy under way

scheduleVars == <<redated, cron>>
upkeepVars == <<box, sick, version, holder, healOn, healSt, pass, rollout, life, tries,
                scheduleVars>>

\* Heal's record of a container: its attempts, one more when it gave up.
GaveUp    == MaxAttempts + 1
Records   == [Webs -> 0..GaveUp]
NoRecords == [c \in Webs |-> 0]

NoPass    == [pc |-> "idle", todo |-> {}, at |-> NoWeb, hs |-> NoRecords]
NoRollout == [pc |-> "idle", new |-> NoWeb]
NoLife    == [pc |-> "idle", op |-> "none", todo |-> {}, then |-> {}]
NoCron    == [pc |-> "idle", at |-> NoWeb]

UpkeepTypeOK ==
    /\ box \in [Boxes -> {"absent", "exited", "running"}]
    /\ sick \subseteq Webs
    /\ version \in Webs \cup {NoWeb}
    /\ holder \in {"free", "deploy", "heal"}
    /\ healOn \in BOOLEAN
    /\ healSt \in Records
    /\ pass \in [pc : {"idle", "next", "probe", "lock", "restart", "unlock"},
                 todo : SUBSET Webs, at : Webs \cup {NoWeb}, hs : Records]
    /\ rollout \in [pc : {"idle", "run", "switch", "stopold", "end"}, new : Webs \cup {NoWeb}]
    /\ life \in [pc : {"idle", "stop", "start"}, op : {"none", "stop", "start", "restart"},
                 todo : SUBSET Boxes, then : SUBSET Boxes]
    /\ tries \in [Webs -> 0..GaveUp]
    /\ redated \subseteq Webs
    /\ cron \in [pc : {"idle", "pull", "stop", "remove", "run"}, at : Webs \cup {NoWeb}]

UpkeepInit ==
    /\ box = [c \in Boxes |-> "absent"]
    /\ sick = {}
    /\ version = NoWeb
    /\ holder = "free"
    /\ healOn = FALSE /\ healSt = NoRecords
    /\ pass = NoPass /\ rollout = NoRollout /\ life = NoLife
    /\ tries = [c \in Webs |-> 0]
    /\ redated = {} /\ cron = NoCron

Up(c) == box[c] = "running"
Set(c, s) == box' = [box EXCEPT ![c] = s]

AllRest == pass.pc = "idle" /\ rollout.pc = "idle" /\ life.pc = "idle" /\ cron = NoCron

\* What begins now begins beside something else.
Overlapping == IF AllRest THEN {} ELSE {"race"}

-----------------------------------------------------------------------------
(* The containers and the operator's switches.                             *)

\* A container stops answering; docker restarts only those that exit.
FallsSick(c) ==
    /\ Up(c) /\ c \notin sick
    /\ sick' = sick \cup {c}
    /\ UNCHANGED <<box, version, holder, healOn, healSt, pass, rollout, life, tries, luck>>

\* It answers again, if what it waits for has come back.
Recovers(c) ==
    /\ c \in sick
    /\ sick' = sick \ {c}
    /\ UNCHANGED <<box, version, holder, healOn, healSt, pass, rollout, life, tries, luck>>

HealSwitch ==
    /\ Begin
    /\ healOn' = ~healOn
    /\ UNCHANGED <<box, sick, version, holder, healSt, pass, rollout, life, tries>>

\* A lock whose holder died is broken in the end: DeployLock.
BreakStale ==
    /\ \/ holder = "deploy" /\ rollout = NoRollout
       \/ holder = "heal" /\ pass.pc \notin {"restart", "unlock"}
    /\ holder' = "free"
    /\ UNCHANGED <<box, sick, version, healOn, healSt, pass, rollout, life, tries, luck>>

-----------------------------------------------------------------------------
(* Heal passes.                                                            *)

\* readHealConf, ListContainers, readHealState: a file that cannot be read is
\* an empty one.
PassBegins ==
    /\ pass.pc = "idle" /\ healOn
    /\ \E hs \in {healSt, NoRecords} :
        /\ pass' = [NoPass EXCEPT !.pc = "next", !.todo = {c \in Webs : Up(c)}, !.hs = hs]
        /\ IF hs = healSt THEN Used(Overlapping) ELSE MishapAs({"read"} \cup Overlapping)
    /\ UNCHANGED <<box, sick, version, holder, healOn, healSt, rollout, life, tries>>

\* HostPort: a container that no longer runs has no port and is left out.
FindPort(c) ==
    /\ pass.pc = "next" /\ c \in pass.todo
    /\ pass' = [pass EXCEPT !.todo = @ \ {c}, !.at = c, !.pc = IF Up(c) THEN "probe" ELSE "next"]
    /\ UNCHANGED <<box, sick, version, holder, healOn, healSt, rollout, life, tries, luck>>

Listed(hs, label) == pass' = [pass EXCEPT !.hs = hs, !.pc = label]

\* The probe, and what its answer means for the container's record.  A command
\* that fails is a probe that fails.  A container restarted before may be within
\* its backoff_seconds, or not.
Probe ==
    /\ pass.pc = "probe"
    /\ LET c == pass.at
           n == pass.hs[c]
           healthy == Up(c) /\ c \notin sick
       IN \/ /\ healthy
             /\ Listed([pass.hs EXCEPT ![c] = 0], "next")
             /\ tries' = [tries EXCEPT ![c] = 0]
             /\ UNCHANGED luck
          \/ /\ IF healthy THEN Mishap("fault") ELSE UNCHANGED luck
             /\ \/ n \in 1..GaveUp   /\ Listed(pass.hs, "next")
                \/ n = MaxAttempts   /\ Listed([pass.hs EXCEPT ![c] = GaveUp], "next")
                \/ n < MaxAttempts   /\ Listed(pass.hs, "lock")
             /\ UNCHANGED tries
    /\ UNCHANGED <<box, sick, version, holder, healOn, healSt, rollout, life>>

\* AcquireHealLock; an error ends the pass before its state is written.
HealLocks ==
    /\ pass.pc = "lock"
    /\ \/ /\ holder = "free"
          /\ holder' = "heal"
          /\ Listed(pass.hs, "restart")
          /\ UNCHANGED luck
       \/ /\ holder # "free"
          /\ Listed(pass.hs, "next")
          /\ UNCHANGED <<holder, luck>>
       \/ /\ Mishap("save")
          /\ pass' = NoPass
          /\ UNCHANGED holder
    /\ UNCHANGED <<box, sick, version, healOn, healSt, rollout, life, tries>>

\* docker restart, which starts a container that is stopped
HealRestarts ==
    /\ pass.pc = "restart"
    /\ LET c == pass.at
       IN /\ \/ /\ box[c] # "absent"
                /\ Set(c, "running")
                /\ sick' \in {sick, sick \ {c}}
                /\ tries' = [tries EXCEPT ![c] = IF @ > MaxAttempts THEN @ ELSE @ + 1]
                /\ UNCHANGED luck
             \/ /\ IF box[c] = "absent" THEN UNCHANGED luck ELSE Mishap("fault")
                /\ UNCHANGED <<box, sick, tries>>
          /\ Listed([pass.hs EXCEPT ![c] = @ + 1], "unlock")
    /\ UNCHANGED <<version, holder, healOn, healSt, rollout, life>>

HealUnlocks ==
    /\ pass.pc = "unlock"
    /\ Listed(pass.hs, "next")
    /\ \/ holder' = "free" /\ UNCHANGED luck
       \/ UNCHANGED holder /\ Mishap("clean")
    /\ UNCHANGED <<box, sick, version, healOn, healSt, rollout, life, tries>>

\* writeHealState, which is not told when it fails
PassEnds ==
    /\ pass.pc = "next" /\ pass.todo = {}
    /\ pass' = NoPass
    /\ \/ healSt' = pass.hs /\ UNCHANGED luck
       \/ healSt' \in {healSt, NoRecords} /\ Mishap("save")
    /\ UNCHANGED <<box, sick, version, holder, healOn, rollout, life, tries>>

PassDies ==
    /\ pass.pc # "idle"
    /\ Mishap("crash")
    /\ pass' = NoPass
    /\ UNCHANGED <<box, sick, version, holder, healOn, healSt, rollout, life, tries>>

-----------------------------------------------------------------------------
(* Deploys, for which Deploy has the details.                              *)

RolloutBegins(c) ==
    /\ rollout.pc = "idle" /\ holder = "free" /\ c # version /\ ~Up(c)
    /\ BeginAs(Overlapping)
    /\ holder' = "deploy"
    /\ rollout' = [pc |-> "run", new |-> c]
    /\ UNCHANGED <<box, sick, version, healOn, healSt, pass, life, tries>>

\* The accessory is ensured, the new container is run; it may not get healthy.
\* docker.Run removes a stopped container of that name and refuses a running one.
RolloutRuns ==
    /\ rollout.pc = "run"
    /\ IF Up(rollout.new)
       THEN /\ Set(Database, "running")
            /\ rollout' = [rollout EXCEPT !.pc = "end"]
            /\ UNCHANGED <<sick, redated>>
       ELSE /\ box' = [box EXCEPT ![rollout.new] = "running", ![Database] = "running"]
            /\ sick' \in {sick \ {rollout.new}, sick \cup {rollout.new}}
            /\ redated' = redated \ {rollout.new}
            /\ rollout' = [rollout EXCEPT !.pc = "switch"]
    /\ UNCHANGED <<version, holder, healOn, healSt, pass, life, tries, cron, luck>>

RolloutSwitches ==
    /\ rollout.pc = "switch"
    /\ IF Up(rollout.new) /\ rollout.new \notin sick
       THEN /\ version' = rollout.new
            /\ rollout' = [pc |-> "stopold", new |-> version]
            /\ UNCHANGED box
       ELSE /\ Set(rollout.new, "absent")
            /\ rollout' = [rollout EXCEPT !.pc = "end"]
            /\ UNCHANGED version
    /\ UNCHANGED <<sick, holder, healOn, healSt, pass, life, tries, luck>>

\* Mutant: an old container that does not answer is left as it is.
RolloutStopsHealthy ==
    /\ rollout.pc = "stopold"
    /\ rollout' = [rollout EXCEPT !.pc = "end"]
    /\ box' = IF rollout.new # NoWeb /\ Up(rollout.new) /\ rollout.new \notin sick
              THEN [box EXCEPT ![rollout.new] = "exited"] ELSE box
    /\ UNCHANGED <<sick, version, holder, healOn, healSt, pass, life, tries, luck>>

\* docker stop; its failure is a warning.
RolloutStopsOld ==
    /\ rollout.pc = "stopold"
    /\ rollout' = [rollout EXCEPT !.pc = "end"]
    /\ \/ /\ box' = IF rollout.new # NoWeb /\ Up(rollout.new)
                    THEN [box EXCEPT ![rollout.new] = "exited"] ELSE box
          /\ UNCHANGED luck
       \/ rollout.new # NoWeb /\ UNCHANGED box /\ Mishap("clean")
    /\ UNCHANGED <<sick, version, holder, healOn, healSt, pass, life, tries>>

RolloutEnds ==
    /\ rollout.pc = "end"
    /\ rollout' = NoRollout
    /\ holder' = "free"
    /\ UNCHANGED <<box, sick, version, healOn, healSt, pass, life, tries, luck>>

RolloutDies ==
    /\ rollout.pc # "idle"
    /\ Mishap("crash")
    /\ rollout' = NoRollout
    /\ UNCHANGED <<box, sick, version, holder, healOn, healSt, pass, life, tries>>

-----------------------------------------------------------------------------
(* teploy stop, start, restart                                             *)

\* The containers that bear the current version's label, in whatever state.
OfVersion == {c \in ({version} \cap Webs) \ redated : box[c] # "absent"}

\* stop takes all that run and bear the app's label, accessories included.
ToStop == {c \in Boxes : Up(c)}

LifeBegins(op) ==
    /\ life.pc = "idle"
    /\ IF op = "stop" THEN ToStop # {} ELSE OfVersion # {}
    /\ BeginAs(Overlapping)
    /\ life' = CASE op = "stop"    -> [pc |-> "stop", op |-> op, todo |-> ToStop, then |-> {}]
                 [] op = "start"   -> [pc |-> "start", op |-> op, todo |-> OfVersion, then |-> {}]
                 [] op = "restart" -> [pc |-> "stop", op |-> op, todo |-> OfVersion, then |-> OfVersion]
    /\ UNCHANGED <<box, sick, version, holder, healOn, healSt, pass, rollout, tries>>

\* docker stop or docker start of the next one; the first error ends it.
LifeStep(c) ==
    /\ life.pc # "idle" /\ c \in life.todo
    /\ \/ /\ box[c] # "absent"
          /\ Set(c, IF life.pc = "stop" THEN "exited" ELSE "running")
          /\ life' = [life EXCEPT !.todo = @ \ {c}]
          /\ UNCHANGED luck
       \/ /\ IF box[c] = "absent" THEN UNCHANGED luck ELSE Mishap("fault")
          /\ life' = NoLife
          /\ UNCHANGED box
    /\ UNCHANGED <<sick, version, holder, healOn, healSt, pass, rollout, tries>>

\* All are stopped: restart goes on to start them.  The health check that ends
\* a start changes nothing.
LifeTurns ==
    /\ life.pc # "idle" /\ life.todo = {}
    /\ life' = IF life.then = {} THEN NoLife
               ELSE [life EXCEPT !.pc = "start", !.todo = life.then, !.then = {}]
    /\ UNCHANGED <<box, sick, version, holder, healOn, healSt, pass, rollout, tries, luck>>

LifeDies ==
    /\ life.pc # "idle"
    /\ Mishap("crash")
    /\ life' = NoLife
    /\ UNCHANGED <<box, sick, version, holder, healOn, healSt, pass, rollout, tries>>

-----------------------------------------------------------------------------
(* Scheduled redeploys: a script that cron runs and that takes no lock.    *)

CronAt(pc, next) == cron.pc = pc /\ cron' = [cron EXCEPT !.pc = next]

\* One of the web containers that run; with none the script has nothing to do.
CronFires(c) ==
    /\ cron = NoCron /\ Up(c)
    /\ BeginAs(Overlapping)
    /\ cron' = [pc |-> "pull", at |-> c]
    /\ UNCHANGED <<box, sick, redated>>

\* The digest is what it was, or the pull fails, or the container has gone; or
\* its configuration is noted down.
CronPulls ==
    /\ \/ cron.pc = "pull" /\ cron' = NoCron
       \/ CronAt("pull", "stop") /\ box[cron.at] # "absent"
    /\ UNCHANGED <<box, sick, redated, luck>>

\* docker stop || true
CronStops ==
    /\ CronAt("stop", "remove")
    /\ \/ /\ box' = IF Up(cron.at) THEN [box EXCEPT ![cron.at] = "exited"] ELSE box
          /\ UNCHANGED luck
       \/ UNCHANGED box /\ Mishap("clean")
    /\ UNCHANGED <<sick, redated>>

\* docker rm || true, which does not remove a container that runs
CronRemoves ==
    /\ CronAt("remove", "run")
    /\ \/ /\ box' = IF Up(cron.at) THEN box ELSE [box EXCEPT ![cron.at] = "absent"]
          /\ UNCHANGED luck
       \/ UNCHANGED box /\ Mishap("clean")
    /\ UNCHANGED <<sick, redated>>

\* docker run under the same name, with the date as its version; it fails when
\* the name is still taken.
CronRuns ==
    /\ cron.pc = "run" /\ cron' = NoCron
    /\ \/ /\ box[cron.at] = "absent"
          /\ Set(cron.at, "running")
          /\ sick' \in {sick \ {cron.at}, sick \cup {cron.at}}
          /\ redated' = redated \cup {cron.at}
          /\ Used({"stamp"})
       \/ /\ IF box[cron.at] = "absent" THEN Mishap("fault") ELSE UNCHANGED luck
          /\ UNCHANGED <<box, sick, redated>>

CronDies ==
    /\ cron # NoCron /\ cron' = NoCron
    /\ Mishap("crash")
    /\ UNCHANGED <<box, sick, redated>>

CronNext == \/ \E c \in Webs : CronFires(c)
            \/ CronPulls \/ CronStops \/ CronRemoves \/ CronRuns \/ CronDies

-----------------------------------------------------------------------------
OthersNext ==
    \/ HealSwitch \/ BreakStale
    \/ PassBegins \/ Probe \/ HealLocks \/ HealRestarts \/ HealUnlocks \/ PassEnds \/ PassDies
    \/ RolloutSwitches \/ RolloutStopsOld \/ RolloutEnds \/ RolloutDies
    \/ LifeTurns \/ LifeDies
    \/ \E c \in Webs : FallsSick(c) \/ Recovers(c) \/ FindPort(c) \/ RolloutBegins(c)
    \/ \E c \in Boxes : LifeStep(c)
    \/ \E op \in {"stop", "start", "restart"} : LifeBegins(op)

UpkeepNext ==
    \/ OthersNext /\ UNCHANGED scheduleVars
    \/ RolloutRuns
    \/ CronNext /\ UNCHANGED <<version, holder, healOn, healSt, pass, rollout, life, tries>>

-----------------------------------------------------------------------------
\* "bounded self-heal": between two probes that find it healthy a container is
\* restarted at most max_attempts times, over any number of passes, as long as
\* the passes live to write their state and it can be read.
RestartsBounded ==
    NoneOf({"read", "save", "crash"}) => \A c \in Webs : tries[c] <= MaxAttempts

\* "Self-heal restarts a container that is running but failing its health
\* probe": a pass does not start what an operator or a deploy has stopped.
HealStartsStopped == \E c \in Webs : /\ pass.pc = "restart" /\ pass'.pc = "unlock"
                                     /\ box[c] = "exited" /\ Up(c)'

\* It takes a deploy, stop, start or restart that overlaps with the pass: the
\* containers were listed before it, and the lock is taken after it.
HealAloneWakesNothing == NoneOf({"race"}) => ~HealStartsStopped

\* Only the current version runs when nothing is under way, whatever is stopped,
\* started and healed and whichever command failed in it, unless the stop of the
\* old version failed, a process died or two overlapped.
OneVersionRuns ==
    AllRest /\ NoneOf({"race", "clean", "crash"}) => \A c \in Webs : Up(c) => c = version

\* The container of the current version is kept, to be started again, through
\* every stop, deploy, heal pass and scheduled redeploy, whichever overlap,
\* unless the script has removed it and then fails or dies.  `teploy start`
\* finds it, until a scheduled redeploy has put the date on its version label.
CurrentIsKept ==
    AllRest /\ version # NoWeb /\ NoneOf({"fault", "crash"})
    => box[version] # "absent" /\ (NoneOf({"stamp"}) => OfVersion # {})

\* The four together, of every step.
UpkeepHolds == [][/\ HealAloneWakesNothing
                  /\ RestartsBounded'
                  /\ OneVersionRuns'
                  /\ CurrentIsKept']_upkeepVars
=============================================================================
