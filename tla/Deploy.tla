------------------------------- MODULE Deploy -------------------------------
(***************************************************************************)
(* Deployer.Deploy: one container deploy of the app at a time (the deploy  *)
(* lock is held throughout), each command it sends an action.              *)
(*                                                                         *)
(*   aside, plain      a redeploy of the current version renames the live  *)
(*                     containers to <name>_replaced                       *)
(*   displace          host ingress frees the fixed port                   *)
(*   web, work         the new containers are run; web ones are probed     *)
(*   route, commit     traffic moves, state.json is written                *)
(*   stopold, prune    the previous version's containers go                *)
(*   cleanup           a failure after the web containers ran              *)
(*   restore, h...     a failed commit is undone                           *)
(***************************************************************************)
EXTENDS AppServer

CONSTANT KeepVersions   \* keep_versions: 0 prunes nothing

ASSUME KeepAssumption == KeepVersions \in Nat

VARIABLE d   \* the running deploy

deployVars == <<serverVars, d>>

NoDeploy == [pc |-> "idle", ver |-> NoVersion, reps |-> 1, workers |-> {},
             cur |-> NoState, todo |-> {}, started |-> {}, displaced |-> {}, at |-> {}]

Labels == {"idle", "read", "ready", "aside", "plain", "displace", "web", "work",
           "route", "commit", "stopold", "prune", "cleanup", "restore",
           "hstop", "hrestore", "hrerun", "hstart", "hremove"}

DeployTypeOK ==
    d \in [pc : Labels, ver : Versions \cup {NoVersion}, reps : Replicas \cup {1},
           workers : SUBSET Workers, cur : State, todo : SUBSET Name,
           started : SUBSET Name, displaced : SUBSET Name, at : SUBSET Name]

DeployInit == d = NoDeploy

\* The deploy is at a label and its loop there is over.
At(label) == d.pc = label /\ d.todo = {}

Goto(label, todo) == d' = [d EXCEPT !.pc = label, !.todo = todo]
Done(c)           == d' = [d EXCEPT !.todo = @ \ {c}]
EndDeploy         == d' = NoDeploy

Loop(label, c) == d.pc = label /\ c \in d.todo

SameVersion == d.cur.cur = d.ver

NewWeb     == WebNames(d.ver, d.reps)
NewWorkers == {ContainerName(p, d.ver) : p \in d.workers}

AsPrevious(C) == IF SameVersion THEN {Replaced(c) : c \in C} ELSE C
\* Mutant: the new config's number of replicas for the previous version.
PreviousWebRescaled == AsPrevious(WebNames(d.cur.cur, d.reps))

PreviousWeb     == AsPrevious(WebNames(d.cur.cur, d.cur.reps))
PreviousWorkers == AsPrevious({ContainerName(p, d.cur.cur) : p \in d.workers})

-----------------------------------------------------------------------------
(* Steps 1 to 3: take the lock, read the state.                            *)

\* Mutant: one replica too many.
DeployBeginsOneMore(v, n, W) ==
    /\ d.pc = "idle"
    /\ ingress = "host" => n = 1
    /\ Spend("ops")
    /\ d' = [NoDeploy EXCEPT !.pc = "read", !.ver = v, !.reps = n + 1, !.workers = W]
    /\ UNCHANGED <<ctr, route, st>>

DeployBegins(v, n, W) ==
    /\ d.pc = "idle"
    /\ ingress = "host" => n = 1
    /\ Spend("ops")
    /\ d' = [NoDeploy EXCEPT !.pc = "read", !.ver = v, !.reps = n, !.workers = W]
    /\ UNCHANGED <<ctr, route, st>>

\* A state that cannot be read is taken for no state: `current, _ :=`.
ReadState ==
    /\ d.pc = "read"
    /\ \/ d' = [d EXCEPT !.cur = st, !.pc = IF st.cur = d.ver THEN "aside" ELSE "ready",
                         !.todo = IF st.cur = d.ver THEN NewWeb \cup NewWorkers ELSE {}]
          /\ UNCHANGED budget
       \/ Goto("ready", {}) /\ Spend("faults")
    /\ UNCHANGED <<ctr, route, st>>

\* No free port, or the assets cannot be extracted from the image.
PrepareFails ==
    /\ d.pc = "read"
    /\ CommandFails
    /\ EndDeploy
    /\ UNCHANGED <<route, st>>

(* Step 6: docker rm -f <name>_replaced, docker rename <name>              *)
(* <name>_replaced, for the replica names and then for the plain ones.     *)

PutAside(c) ==
    /\ d.pc \in {"aside", "plain"}
    /\ c \in d.todo
    /\ \/ ctr' = [Removed(Replaced(c)) EXCEPT ![Replaced(c)] = ctr[c], ![c] = "absent"]
          /\ UNCHANGED budget
       \/ ctr' \in {ctr, Removed(Replaced(c))}
          /\ Spend("faults")
    /\ Done(c)
    /\ UNCHANGED <<route, st>>

PlainNames ==
    /\ At("aside")
    /\ Goto("plain", {ContainerName(p, d.ver) : p \in {"web"} \cup d.workers})
    /\ UNCHANGED serverVars

Ready == d.pc = "ready" \/ At("plain")

(* Host ingress: docker ps of the running web containers, docker stop of   *)
(* each.  A list that cannot be had is an empty one.                       *)

ListHostWeb ==
    /\ Ready
    /\ ingress = "host"
    /\ \/ Goto("displace", RunningWeb) /\ UNCHANGED budget
       \/ Goto("displace", {}) /\ Spend("faults")
    /\ UNCHANGED <<ctr, route, st>>

Displace(c) ==
    /\ Loop("displace", c)
    /\ StopSucceeds(c)
    /\ d' = [d EXCEPT !.todo = @ \ {c}, !.displaced = @ \cup {c}]
    /\ UNCHANGED <<route, st>>

DisplaceFails ==
    /\ d.pc = "displace" /\ d.todo # {}
    /\ CommandFails
    /\ EndDeploy
    /\ UNCHANGED <<route, st>>

-----------------------------------------------------------------------------
(* Steps 6 to 10: run the web containers, probe them, run the workers.     *)

StartWebs ==
    /\ (Ready /\ ingress # "host") \/ At("displace")
    /\ Goto("web", NewWeb)
    /\ UNCHANGED serverVars

RunContainer(c) ==
    /\ d.pc \in {"web", "work"}
    /\ c \in d.todo
    /\ RunSucceeds(c)
    /\ d' = [d EXCEPT !.todo = @ \ {c}, !.started = @ \cup {c}]
    /\ UNCHANGED <<route, st>>

RunNot(c) == RunRefused(c) \/ RunFails(c)

\* A web container that does not run ends the deploy then and there.
RunWebFails(c) ==
    /\ Loop("web", c)
    /\ RunNot(c)
    /\ EndDeploy
    /\ UNCHANGED <<route, st>>

RunWorkerFails(c) ==
    /\ Loop("work", c)
    /\ RunNot(c)
    /\ Goto("cleanup", d.started)
    /\ UNCHANGED <<route, st>>

\* Mutant: nothing is probed.
ProbeSkipped == At("web") /\ Goto("work", NewWorkers) /\ UNCHANGED serverVars

\* Running, the pre-deploy hook, the health check: of all replicas.
ProbePasses ==
    /\ At("web")
    /\ \A c \in NewWeb : Running(c)
    /\ ctr' = Proven(NewWeb)
    /\ Goto("work", NewWorkers)
    /\ UNCHANGED <<route, st, budget>>

ProbeFails ==
    /\ At("web")
    /\ Goto("cleanup", d.started)
    /\ UNCHANGED serverVars

\* fail(): docker stop, docker rm of what was started; errors are ignored.
CleanUp(c) ==
    /\ Loop("cleanup", c)
    /\ StopRemoveSucceeds(c) \/ StopRemoveFails(c)
    /\ Done(c)
    /\ UNCHANGED <<route, st>>

CleanedUp == At("cleanup") /\ EndDeploy /\ UNCHANGED serverVars

-----------------------------------------------------------------------------
(* Steps 11 to 13: route, commit.                                          *)

Route ==
    /\ At("work")
    /\ ingress = "caddy"
    /\ \/ route' = NewWeb /\ Goto("commit", {}) /\ UNCHANGED budget
       \/ UNCHANGED route /\ Goto("cleanup", d.started) /\ Spend("faults")
    /\ UNCHANGED <<ctr, st>>

Routed == d.pc = "commit" \/ (At("work") /\ ingress # "caddy")

\* Mutants: what Commit would do with another state or other containers to stop.
CommitWith(reps, todo) ==
    /\ Routed
    /\ st' = [cur |-> d.ver, reps |-> reps, prev |-> d.cur.cur]
    /\ Goto("stopold", IF d.cur.cur = NoVersion THEN {} ELSE todo)
    /\ UNCHANGED <<ctr, route, budget>>

CommitWebOnly == CommitWith(d.reps, PreviousWeb)
CommitOldReplicas ==
    CommitWith(IF d.cur.cur = NoVersion THEN d.reps ELSE d.cur.reps,
               PreviousWeb \cup PreviousWorkers)

Commit ==
    /\ Routed
    /\ st' = [cur |-> d.ver, reps |-> d.reps, prev |-> d.cur.cur]
    /\ Goto("stopold", IF d.cur.cur = NoVersion THEN {}
                       ELSE PreviousWeb \cup PreviousWorkers)
    /\ UNCHANGED <<ctr, route, budget>>

\* Mutant: the new containers are removed and the route is not restored.
CommitFailsUnrestored ==
    /\ Routed
    /\ Spend("faults")
    /\ Goto("cleanup", d.started)
    /\ UNCHANGED <<ctr, route, st>>

CommitFails ==
    /\ Routed
    /\ Spend("faults")
    /\ CASE ingress = "caddy"    -> Goto("restore", {})
         [] ingress = "host"     -> Goto("hstop", d.started)
         [] ingress = "external" -> Goto("cleanup", d.started)
    /\ UNCHANGED <<ctr, route, st>>

(* Steps 14 to 16: docker stop of the previous containers, and docker rm   *)
(* if they were put aside; prune.                                          *)

StopOld(c) ==
    /\ Loop("stopold", c)
    /\ IF SameVersion THEN StopRemoveSucceeds(c) \/ StopRemoveFails(c)
                      ELSE StopSucceeds(c) \/ CommandFails
    /\ Done(c)
    /\ UNCHANGED <<route, st>>

\* PruneVersions keeps the KeepVersions newest versions and the protected
\* ones.  Which are newest is left open; pins that cannot be read are none.
ToPrune(kept, protected) ==
    {c \in Name : Present(c) /\ c.ver \notin kept \cup protected}

PresentVersions == {c.ver : c \in {x \in Name : Present(x)}}

\* Mutant: the rollback target is not protected.
ProtectedCurrent == {d.ver}

ProtectedVersions == {d.ver, d.cur.cur}

PruneLists ==
    /\ At("stopold")
    /\ KeepVersions > 0
    /\ \E kept \in SUBSET PresentVersions :
        /\ Cardinality(kept) = KeepVersions \/ kept = PresentVersions
        /\ Cardinality(kept) <= KeepVersions
        /\ \/ Goto("prune", ToPrune(kept, ProtectedVersions \cup Pins)) /\ UNCHANGED budget
           \/ Goto("prune", ToPrune(kept, ProtectedVersions)) /\ Spend("faults")
    /\ UNCHANGED <<ctr, route, st>>

Prune(c) ==
    /\ Loop("prune", c)
    /\ (ctr' = Removed(c) /\ UNCHANGED budget) \/ CommandFails
    /\ Done(c)
    /\ UNCHANGED <<route, st>>

Deployed ==
    /\ At("prune") \/ (At("stopold") /\ KeepVersions = 0)
    /\ EndDeploy
    /\ UNCHANGED serverVars

-----------------------------------------------------------------------------
(* abortStateCommit: caddy restores the previous route first.              *)

\* docker inspect finds every previous web container, running or not.
PreviousFound ==
    /\ Cardinality(PreviousWeb) = d.cur.reps
    /\ \A c \in PreviousWeb : Present(c)

\* Mutant: it does nothing.
RestoreRouteForgotten ==
    d.pc = "restore" /\ Goto("cleanup", d.started) /\ UNCHANGED serverVars

RestoreRoute ==
    /\ d.pc = "restore"
    /\ \/ d.cur.cur = NoVersion /\ route' = {}
       \/ d.cur.cur # NoVersion /\ PreviousFound /\ route' = PreviousWeb
    /\ Goto("cleanup", d.started)
    /\ UNCHANGED <<ctr, st, budget>>

\* "old and new workloads were left running"
RestoreRouteFails ==
    /\ d.pc = "restore"
    /\ IF d.cur.cur = NoVersion \/ PreviousFound
       THEN Spend("faults") ELSE UNCHANGED budget
    /\ EndDeploy
    /\ UNCHANGED <<ctr, route, st>>

(* Host ingress stops the new container, recreates the displaced one       *)
(* (docker rm -f, docker run), and removes the new one; if the old one is  *)
(* not recreated the new one is started again.                             *)

HostStop(c) ==
    /\ Loop("hstop", c)
    /\ StopSucceeds(c) \/ CommandFails
    /\ Done(c)
    /\ UNCHANGED <<route, st>>

HostStopped == At("hstop") /\ Goto("hrestore", d.displaced) /\ UNCHANGED serverVars

HostRemove(c) ==
    /\ Loop("hrestore", c)
    /\ \/ /\ Present(c)
          /\ ctr' = Removed(c)
          /\ d' = [d EXCEPT !.pc = "hrerun", !.at = {c}]
          /\ UNCHANGED budget
       \/ /\ IF Present(c) THEN CommandFails ELSE UNCHANGED <<ctr, budget>>
          /\ Goto("hstart", d.started)
    /\ UNCHANGED <<route, st>>

\* Mutant: the failed docker run goes unnoticed.
HostRerunUnchecked(c) ==
    /\ d.pc = "hrerun" /\ c \in d.at
    /\ RecreateSucceeds(c) \/ RecreateFails(c)
    /\ Goto("hrestore", d.todo \ {c})
    /\ UNCHANGED <<route, st>>

HostRerun(c) ==
    /\ d.pc = "hrerun" /\ c \in d.at
    /\ \/ RecreateSucceeds(c) /\ Goto("hrestore", d.todo \ {c})
       \/ RecreateFails(c) /\ Goto("hstart", d.started)
    /\ UNCHANGED <<route, st>>

\* docker start
HostStart(c) ==
    /\ Loop("hstart", c)
    /\ \/ /\ ctr[c] = "exited" /\ PortFree(c)
          /\ ctr' = [ctr EXCEPT ![c] = "started"]
          /\ UNCHANGED budget
       \/ ~(ctr[c] = "exited" /\ PortFree(c)) /\ UNCHANGED <<ctr, budget>>
       \/ CommandFails
    /\ Done(c)
    /\ UNCHANGED <<route, st>>

HostRestored == At("hrestore") /\ Goto("hremove", d.started) /\ UNCHANGED serverVars

\* docker rm, which refuses a running container.
HostDiscard(c) ==
    /\ Loop("hremove", c)
    /\ \/ ctr' = (IF Running(c) THEN ctr ELSE Removed(c)) /\ UNCHANGED budget
       \/ CommandFails
    /\ Done(c)
    /\ UNCHANGED <<route, st>>

Aborted == (At("hstart") \/ At("hremove")) /\ EndDeploy /\ UNCHANGED serverVars

\* The process dies, or its link to the server does: no more commands.
DeployDies ==
    /\ d.pc # "idle"
    /\ Spend("crashes")
    /\ EndDeploy
    /\ UNCHANGED <<ctr, route, st>>

-----------------------------------------------------------------------------

DeployStep ==
    \/ ReadState \/ PrepareFails \/ PlainNames \/ ListHostWeb \/ DisplaceFails \/ StartWebs
    \/ ProbePasses \/ ProbeFails \/ CleanedUp \/ Route \/ Commit \/ CommitFails
    \/ PruneLists \/ Deployed \/ RestoreRoute \/ RestoreRouteFails
    \/ HostStopped \/ HostRestored \/ Aborted
    \/ \E c \in d.todo :
        \/ PutAside(c) \/ Displace(c) \/ RunContainer(c) \/ RunWebFails(c)
        \/ RunWorkerFails(c) \/ CleanUp(c) \/ StopOld(c) \/ Prune(c)
        \/ HostStop(c) \/ HostRemove(c) \/ HostRerun(c) \/ HostStart(c)
        \/ HostDiscard(c)

DeployNext ==
    \/ \E v \in Versions, n \in Replicas, W \in SUBSET Workers : DeployBegins(v, n, W)
    \/ DeployStep
    \/ DeployDies
=============================================================================
