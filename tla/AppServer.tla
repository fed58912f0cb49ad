------------------------------ MODULE AppServer ------------------------------
(***************************************************************************)
(* The server of one app as the commands that deploy it see it: the app's  *)
(* containers in Docker, its route in the running Caddy, and its state     *)
(* file.  Deploy and Rollback work on these variables over SSH, one        *)
(* command at a time.                                                      *)
(*                                                                         *)
(* A command that fails has no effect; the link that breaks after a        *)
(* command took effect is a crash of its process.  Containers do not die   *)
(* on their own: docker restarts them (--restart unless-stopped).          *)
(***************************************************************************)
EXTENDS Integers, FiniteSets

CONSTANTS Versions,   \* versions (image tags) of the app
          Workers,    \* its process types other than "web"
          Replicas,   \* numbers of web replicas its config may ask for
          Ingresses,  \* the ingress modes its config may have
          Pins,       \* versions protected by `teploy pin`
          MaxOps, MaxFaults, MaxCrashes   \* bounds of a behaviour

NoVersion == "none"

ASSUME ServerAssumption ==
    /\ NoVersion \notin Versions
    /\ "web" \notin Workers
    /\ Replicas # {} /\ Replicas \subseteq Nat \ {0}
    /\ Ingresses \subseteq {"caddy", "external", "host"}
    /\ Pins \subseteq Versions
    /\ MaxOps \in Nat /\ MaxFaults \in Nat /\ MaxCrashes \in Nat

Processes == {"web"} \cup Workers

\* A container name: <app>-<proc>-<ver>, or <app>-<proc>-<ver>-<idx> for one of
\* several replicas (idx 0 is the former), with or without "_replaced".
Indexes == {0} \cup UNION {1..n : n \in Replicas}
Name == [proc : {"web"}, ver : Versions, idx : Indexes, old : BOOLEAN]
            \cup [proc : Workers, ver : Versions, idx : {0}, old : BOOLEAN]

ContainerName(p, v) == [proc |-> p, ver |-> v, idx |-> 0, old |-> FALSE]

ReplicaContainerName(p, v, i, n) ==
    IF n <= 1 THEN ContainerName(p, v) ELSE [ContainerName(p, v) EXCEPT !.idx = i]

Replaced(c) == [c EXCEPT !.old = TRUE]

\* The names of the web replicas of version v when there are n of them.  A
\* rollback may record a count no config asked for: the rest do not exist.
WebNames(v, n) == {ReplicaContainerName("web", v, i, n) : i \in 1..n} \cap Name

VARIABLES
    ctr,      \* what docker has under each name: "absent", "exited",
              \* "started" (running) or "healthy" (running and seen to serve)
    route,    \* the containers Caddy sends the app's traffic to
    st,       \* state.json: current version, number of ports, previous version
    budget,   \* operations, failures and crashes still to come
    ingress   \* the ingress mode of the app, which stays the same

serverVars == <<ctr, route, st, budget>>

State   == [cur : Versions \cup {NoVersion}, reps : Nat,
            prev : Versions \cup {NoVersion}]
NoState == [cur |-> NoVersion, reps |-> 0, prev |-> NoVersion]

ServerTypeOK ==
    /\ ctr \in [Name -> {"absent", "exited", "started", "healthy"}]
    /\ route \subseteq Name
    /\ st \in State
    /\ budget \in [{"ops", "faults", "crashes"} -> Nat]
    /\ ingress \in Ingresses

\* A server on which the app was never deployed.
ServerInit ==
    /\ ctr = [c \in Name |-> "absent"]
    /\ route = {}
    /\ st = NoState
    /\ budget = [k \in {"ops", "faults", "crashes"} |->
                    CASE k = "ops" -> MaxOps
                      [] k = "faults" -> MaxFaults
                      [] k = "crashes" -> MaxCrashes]
    /\ ingress \in Ingresses

Spend(k) == budget[k] > 0 /\ budget' = [budget EXCEPT ![k] = @ - 1]

-----------------------------------------------------------------------------
(* Docker                                                                  *)

Present(c) == ctr[c] # "absent"
Running(c) == ctr[c] \in {"started", "healthy"}

RunningWeb == {c \in Name : c.proc = "web" /\ Running(c)}

\* A container under host ingress needs the app's one fixed port.
PortFree(c) == ingress = "host" /\ c.proc = "web" => RunningWeb \subseteq {c}

\* docker run; a stopped container that has the name is removed first.
RunSucceeds(c) ==
    /\ ~Running(c)
    /\ PortFree(c)
    /\ ctr' = [ctr EXCEPT ![c] = "started"]
    /\ UNCHANGED budget

\* The name is a live container's: nothing is done.
RunRefused(c) == Running(c) /\ UNCHANGED <<ctr, budget>>

\* It fails before the stopped container is removed, after that, or when the
\* new container is created and cannot start.
RunFails(c) ==
    /\ ~Running(c)
    /\ \E s \in {ctr[c], "absent", "exited"} : ctr' = [ctr EXCEPT ![c] = s]
    /\ IF PortFree(c) THEN Spend("faults") ELSE UNCHANGED budget

\* The docker run of Restart, which removes nothing first.
RecreateSucceeds(c) == ~Present(c) /\ RunSucceeds(c)

RecreateFails(c) ==
    IF Present(c) THEN UNCHANGED <<ctr, budget>> ELSE RunFails(c)

\* docker stop: of a container that is not running it does nothing.
Stopped(c) == IF Running(c) THEN [ctr EXCEPT ![c] = "exited"] ELSE ctr

StopSucceeds(c) == ctr' = Stopped(c) /\ UNCHANGED budget

\* docker stop, docker rm.  Without -f a running container stays.
StopRemoveSucceeds(c) == ctr' = [ctr EXCEPT ![c] = "absent"] /\ UNCHANGED budget

StopRemoveFails(c) ==
    /\ ctr' \in {ctr, Stopped(c)}
    /\ Spend("faults")

\* docker rm -f
Removed(c) == [ctr EXCEPT ![c] = "absent"]

\* Health checks of running containers that pass.
Proven(C) == [c \in Name |-> IF c \in C THEN "healthy" ELSE ctr[c]]

CommandFails == Spend("faults") /\ UNCHANGED ctr
=============================================================================
