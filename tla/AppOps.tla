------------------------------- MODULE AppOps -------------------------------
(***************************************************************************)
(* Deploys and rollbacks of one app on one server, as operators issue them:*)
(* one deploy at a time under the deploy lock, and rollbacks, which take   *)
(* no lock.                                                                *)
(*                                                                         *)
(* Habits are restrictions on how the commands are used, the same for a    *)
(* whole behaviour.  Each excludes a use in which some property below is   *)
(* lost.                                                                   *)
(***************************************************************************)
EXTENDS Deploy, Rollback

AllHabits == {"alone",        \* no rollback while a deploy runs
              "new",          \* no deploy of the current version,
              "not previous", \* nor of the previous one
              "same workers", \* all deploys have the same worker processes
              "to previous",  \* rollbacks are to the previous version,
              "to stopped",   \* none of whose containers runs
              "covering",     \* a deploy has the replicas there are of its version
              "lucky"}        \* one command fails at most, and one process dies

CONSTANT Habits   \* sets of habits

ASSUME HabitsAssumption == Habits \subseteq SUBSET AllHabits

VARIABLE habits   \* those that are kept

vars == <<serverVars, ingress, d, r, habits>>

Init == ServerInit /\ DeployInit /\ RollbackInit /\ habits \in Habits

Idle == d.pc = "idle" /\ r.pc = "idle"

\* Nobody runs a command: the only way to stop.
Rest == Idle /\ UNCHANGED vars

Next ==
    \/ DeployNext /\ UNCHANGED <<r, ingress, habits>>
    \/ RollbackNext /\ UNCHANGED <<d, ingress, habits>>
    \/ Rest

Alone == d.pc = "idle" \/ r.pc = "idle"

DeployBeginning   == d.pc = "idle" /\ d'.pc = "read"
RollbackBeginning == r.pc = "idle" /\ r'.pc = "list"

AsUsual ==
    /\ "alone" \in habits => Alone'
    /\ DeployBeginning =>
        /\ "new" \in habits => d'.ver # st.cur
        /\ "not previous" \in habits => d'.ver # st.prev
        /\ "covering" \in habits =>
            \A c \in Name : c.proc = "web" /\ c.ver = d'.ver /\ Present(c)
                => c \in WebNames(d'.ver, d'.reps)
        /\ "same workers" \in habits => d'.workers = Workers
    /\ RollbackBeginning =>
        /\ "to previous" \in habits => r'.target = st.prev
        /\ "to stopped" \in habits =>
            \A c \in Name : c.ver = r'.target => ~Running(c)
    /\ "lucky" \in habits => budget'.faults >= MaxFaults - 1 /\ budget'.crashes >= MaxCrashes - 1

OpsNext == Next /\ AsUsual

Spec == Init /\ [][OpsNext]_vars

TypeOK == ServerTypeOK /\ DeployTypeOK /\ RollbackTypeOK /\ habits \in Habits

-----------------------------------------------------------------------------
(* Properties.                                                             *)

CommittedWeb == WebNames(st.cur, st.reps)

\* What answers the app's requests: under external ingress any running web
\* container has the app's network alias, under host ingress its port.
Serving ==
    IF ingress = "caddy" THEN route ELSE {c \in RunningWeb : ctr[c] = "healthy"}

\* The commands are used with every habit.
Calm == habits = AllHabits /\ ingress # "host"

\* No command has failed, other than a health check.
Clean == budget.faults = MaxFaults /\ budget.crashes = MaxCrashes

\* "New container starts and passes health checks before old one stops": from
\* the first commit on something answers, and the route never names a
\* container that is stopped, removed, or not yet probed.
NoOutage ==
    Calm => /\ st.cur # NoVersion => Serving # {}
            /\ \A c \in Serving : ctr[c] = "healthy"

\* Its part that needs no more than "alone", "new" and "to stopped" and
\* survives any number of failures and crashes: the route never
\* names a container that is stopped or removed.
RoutedRuns == \A c \in route : Running(c)

\* Between two commands the state file is right unless a process died: only
\* the version it calls current has traffic, with all its replicas if no
\* command has failed.
StateTellsServing ==
    Calm /\ Idle /\ st.cur # NoVersion /\ budget.crashes = MaxCrashes =>
        /\ \A c \in route : c.ver = st.cur
        /\ Clean => Serving = CommittedWeb

\* Commands that do not fail, or fail for a health check, leave exactly the
\* current version's containers running.
OnlyCurrentRuns ==
    Calm /\ Idle /\ Clean => {c \in Name : Running(c)} =
        IF st.cur = NoVersion THEN {}
        ELSE CommittedWeb \cup {ContainerName(p, st.cur) : p \in Workers}

\* keep_versions never removes a container of the current version, of the
\* version a rollback would go to, or, if all commands worked, of a pinned one.
Pruned(c) == Prune(c) /\ Present(c) /\ ~Present(c)'

PruneSparesTargets ==
    [][\A c \in Name : Pruned(c) =>
            /\ c.ver \notin {st.cur, st.prev}
            /\ Clean => c.ver \notin Pins]_vars

\* The previous version can be rolled back to as long as no command failed:
\* it still has a web container.
RollbackTargetKept ==
    Calm /\ Idle /\ st.prev # NoVersion /\ Clean => \E c \in Name :
        c.proc = "web" /\ c.ver = st.prev /\ Present(c)

\* Host ingress, where the old container stops before the new one starts: a
\* deploy whose commit fails, and at most one command after it, ends with the
\* old container or the new one running, as long as no process has died before;
\* and a rollback whose health check fails, and nothing else, with a displaced
\* container running again.
AbortEnds == Aborted /\ d.displaced # {} /\ budget.crashes = MaxCrashes
UndoEnds  == r.pc = "undoremove" /\ RolledBack /\ r.displaced # {} /\ Clean

HostStaysUp == [][AbortEnds \/ UndoEnds => RunningWeb # {}]_vars

-----------------------------------------------------------------------------
(* What the repository says of the program and the program does not do.    *)

\* "the original workload was left running, and the uncommitted target was
\* stopped": the end of a rollback whose commit failed.
RollbackLeavesOriginal ==
    [][r.pc = "discard" /\ RolledBack =>
            \E c \in RunningWeb : c.ver = r.cur.cur]_vars
=============================================================================
