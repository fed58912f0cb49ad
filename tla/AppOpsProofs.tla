---------------------------- MODULE AppOpsProofs ----------------------------
(***************************************************************************)
(* Proofs about AppOps, for any versions, processes and numbers of         *)
(* replicas, and any number of operations, failures and crashes.           *)
(***************************************************************************)
EXTENDS AppOps, FiniteSetTheorems, TLAPS

-----------------------------------------------------------------------------
(* Container names.                                                        *)

LEMMA NameHasVersion == \A c \in Name : c.ver \in Versions /\ Replaced(c) \in Name
  BY DEF Name, Replaced

LEMMA ReplicasAreNumbers == Replicas \cup {1} \subseteq Nat
  <1>1. Replicas \subseteq Nat \ {0}
    BY ServerAssumption
  <1> QED
    BY <1>1

LEMMA ContainerNames ==
  ASSUME NEW p \in Processes, NEW v \in Versions
  PROVE  /\ ContainerName(p, v) \in Name
         /\ ContainerName(p, v).ver = v /\ ContainerName(p, v).proc = p
  BY DEF ContainerName, Name, Processes, Indexes

LEMMA WebNamesAreWeb ==
  ASSUME NEW v, NEW n
  PROVE  /\ WebNames(v, n) \subseteq Name
         /\ \A c \in WebNames(v, n) : c.ver = v /\ c.proc = "web"
  BY DEF WebNames, ReplicaContainerName, ContainerName

LEMMA WorkerNames ==
  ASSUME NEW W \in SUBSET Workers, NEW v \in Versions
  PROVE  /\ {ContainerName(p, v) : p \in W} \subseteq Name
         /\ \A c \in {ContainerName(p, v) : p \in W} : c.ver = v
  <1>1. ASSUME NEW p \in W
        PROVE  ContainerName(p, v) \in Name /\ ContainerName(p, v).ver = v
    <2>1. p \in Processes
      BY DEF Processes
    <2> QED
      BY <2>1, ContainerNames
  <1> QED
    BY <1>1

LEMMA ReplacedNames ==
  ASSUME NEW C \in SUBSET Name
  PROVE  AsPrevious(C) \subseteq Name
  BY NameHasVersion DEF AsPrevious

-----------------------------------------------------------------------------
(* Types.                                                                  *)

Status  == {"absent", "exited", "started", "healthy"}
ADeploy == [pc : Labels, ver : Versions \cup {NoVersion}, reps : Replicas \cup {1},
            workers : SUBSET Workers, cur : State, todo : SUBSET Name,
            started : SUBSET Name, displaced : SUBSET Name, at : SUBSET Name]
ARollback == [pc : RLabels, target : Versions \cup {NoVersion}, cur : State,
              todo : SUBSET Name, started : SUBSET Name, displaced : SUBSET Name,
              seen : SUBSET Name, live : SUBSET Name, at : SUBSET Name]

\* A running deploy has a version; a rollback starts containers one by one, so
\* that there are as many as a number says.
Typed ==
    /\ TypeOK
    /\ d.pc # "idle" => d.ver \in Versions
    /\ IsFiniteSet(r.started)

LEMMA TypedMeans ==
  ASSUME Typed
  PROVE  /\ ctr \in [Name -> Status] /\ route \subseteq Name /\ st \in State
         /\ budget \in [{"ops", "faults", "crashes"} -> Nat]
         /\ d \in ADeploy /\ r \in ARollback
         /\ d.pc # "idle" => d.ver \in Versions
         /\ IsFiniteSet(r.started)
  BY DEF Typed, TypeOK, ServerTypeOK, DeployTypeOK, RollbackTypeOK, Status, ADeploy, ARollback

LEMMA NoCommandTypes == NoState \in State /\ NoDeploy \in ADeploy /\ NoRollback \in ARollback
  BY ServerAssumption DEF NoState, State, NoDeploy, ADeploy, NoRollback, ARollback, Labels, RLabels

LEMMA InitTyped == Init => Typed
  <1> SUFFICES ASSUME Init PROVE Typed
    OBVIOUS
  <1>1. ServerTypeOK
    BY NoCommandTypes, ServerAssumption DEF Init, ServerInit, ServerTypeOK
  <1>2. DeployTypeOK /\ RollbackTypeOK
    BY NoCommandTypes DEF Init, DeployInit, RollbackInit, DeployTypeOK, RollbackTypeOK, ADeploy,
                          ARollback
  <1>3. IsFiniteSet(r.started) /\ d.pc = "idle"
    BY FS_EmptySet DEF Init, DeployInit, RollbackInit, NoDeploy, NoRollback
  <1> QED
    BY <1>1, <1>2, <1>3 DEF Init, Typed, TypeOK

\* What the docker commands and Spend leave.
LEMMA DockerTypes ==
  ASSUME ctr \in [Name -> Status], NEW c \in Name
  PROVE  /\ Removed(c) \in [Name -> Status] /\ Stopped(c) \in [Name -> Status]
         /\ \A s \in Status : [ctr EXCEPT ![c] = s] \in [Name -> Status]
         /\ \A C : Proven(C) \in [Name -> Status]
  BY DEF Removed, Stopped, Proven, Status

LEMMA SpendTypes ==
  ASSUME budget \in [{"ops", "faults", "crashes"} -> Nat],
         NEW k \in {"ops", "faults", "crashes"}, Spend(k)
  PROVE  budget' \in [{"ops", "faults", "crashes"} -> Nat]
  <1>1. budget[k] - 1 \in Nat
    BY DEF Spend
  <1> QED
    BY <1>1 DEF Spend

\* The compound docker commands.
LEMMA CommandTypes ==
  ASSUME ctr \in [Name -> Status], budget \in [{"ops", "faults", "crashes"} -> Nat],
         NEW c \in Name,
         \/ RunSucceeds(c) \/ RunNot(c) \/ RecreateSucceeds(c) \/ RecreateFails(c)
         \/ StopSucceeds(c) \/ StopRemoveSucceeds(c) \/ StopRemoveFails(c) \/ CommandFails
  PROVE  ctr' \in [Name -> Status] /\ budget' \in [{"ops", "faults", "crashes"} -> Nat]
  <1> USE DockerTypes, SpendTypes
  <1>1. ASSUME RunSucceeds(c) \/ RunRefused(c)
        PROVE  ctr' \in [Name -> Status] /\ budget' \in [{"ops", "faults", "crashes"} -> Nat]
    BY <1>1 DEF RunSucceeds, RunRefused, Status
  <1>2. ASSUME RunFails(c)
        PROVE  ctr' \in [Name -> Status] /\ budget' \in [{"ops", "faults", "crashes"} -> Nat]
    <2>1. PICK s \in {ctr[c], "absent", "exited"} : ctr' = [ctr EXCEPT ![c] = s]
      BY <1>2 DEF RunFails
    <2>2. s \in Status
      BY DEF Status
    <2>3. Spend("faults") \/ UNCHANGED budget
      BY <1>2 DEF RunFails
    <2> QED
      BY <2>1, <2>2, <2>3
  <1>3. ASSUME StopSucceeds(c) \/ StopRemoveSucceeds(c) \/ StopRemoveFails(c) \/ CommandFails
        PROVE  ctr' \in [Name -> Status] /\ budget' \in [{"ops", "faults", "crashes"} -> Nat]
    BY <1>3 DEF StopSucceeds, StopRemoveSucceeds, StopRemoveFails, CommandFails, Status
  <1> QED
    BY <1>1, <1>2, <1>3 DEF RunNot, RecreateSucceeds, RecreateFails
\* Moves of the deploy's loop.
LEMMA DeployMoves ==
  ASSUME d \in ADeploy
  PROVE  /\ \A l \in Labels, C \in SUBSET Name : [d EXCEPT !.pc = l, !.todo = C] \in ADeploy
         /\ \A c : [d EXCEPT !.todo = @ \ {c}] \in ADeploy
         /\ NoDeploy \in ADeploy
  BY NoCommandTypes DEF ADeploy

\* One docker command changes one container.
LEMMA OneChanges ==
  ASSUME ctr \in [Name -> Status], NEW c \in Name,
         \/ RunSucceeds(c) \/ RunNot(c) \/ RecreateSucceeds(c) \/ RecreateFails(c)
         \/ StopSucceeds(c) \/ StopRemoveSucceeds(c) \/ StopRemoveFails(c) \/ CommandFails
  PROVE  \A x \in Name \ {c} : ctr'[x] = ctr[x]
  <1>1. CASE RunSucceeds(c) \/ RecreateSucceeds(c)
    BY <1>1 DEF RunSucceeds, RecreateSucceeds
  <1>2. CASE RunNot(c) \/ RecreateFails(c)
    BY <1>2 DEF RunNot, RunRefused, RunFails, RecreateFails
  <1>3. CASE StopSucceeds(c) \/ StopRemoveSucceeds(c) \/ StopRemoveFails(c) \/ CommandFails
    BY <1>3 DEF StopSucceeds, StopRemoveSucceeds, StopRemoveFails, CommandFails, Stopped
  <1> QED
    BY <1>1, <1>2, <1>3

LEMMA DeployNames ==
  ASSUME Typed, d.pc # "idle"
  PROVE  /\ NewWeb \subseteq Name /\ NewWorkers \subseteq Name
         /\ PreviousWeb \subseteq Name
         /\ d.cur.cur # NoVersion => PreviousWorkers \subseteq Name
         /\ ContainerName("web", d.ver) \in Name
  <1>1. /\ d.ver \in Versions /\ d.workers \subseteq Workers
        /\ d.cur.cur \in Versions \cup {NoVersion}
    BY TypedMeans DEF ADeploy, State
  <1>2. NewWeb \subseteq Name /\ NewWorkers \subseteq Name
    BY <1>1, WebNamesAreWeb, WorkerNames DEF NewWeb, NewWorkers
  <1>3. PreviousWeb \subseteq Name
    BY WebNamesAreWeb, ReplacedNames DEF PreviousWeb
  <1>4. ASSUME d.cur.cur # NoVersion PROVE PreviousWorkers \subseteq Name
    <2>1. {ContainerName(p, d.cur.cur) : p \in d.workers} \subseteq Name
      BY <1>1, <1>4, WorkerNames
    <2> QED
      BY <2>1, ReplacedNames DEF PreviousWorkers
  <1>5. ContainerName("web", d.ver) \in Name
    BY <1>1, ContainerNames DEF Processes
  <1> QED
    BY <1>2, <1>3, <1>4, <1>5

\* The steps of a deploy on one of the containers of its loop.
LEMMA DeployLoopTyped ==
  ASSUME Typed, NEW c \in d.todo,
         \/ PutAside(c) \/ Displace(c) \/ RunContainer(c) \/ RunWebFails(c)
         \/ RunWorkerFails(c) \/ CleanUp(c) \/ StopOld(c) \/ Prune(c)
         \/ HostStop(c) \/ HostRemove(c) \/ HostRerun(c) \/ HostStart(c)
         \/ HostDiscard(c)
  PROVE  /\ ctr' \in [Name -> Status] /\ budget' \in [{"ops", "faults", "crashes"} -> Nat]
         /\ d' \in ADeploy /\ (d'.pc # "idle" => d'.ver = d.ver /\ d.pc # "idle")
         /\ UNCHANGED <<route, st>>
  <1> DEFINE GoodCtr == ctr' \in [Name -> Status]
             GoodBudget == budget' \in [{"ops", "faults", "crashes"} -> Nat]
             GoodD == d' \in ADeploy /\ (d'.pc # "idle" => d'.ver = d.ver /\ d.pc # "idle")
  <1>t. /\ ctr \in [Name -> Status] /\ budget \in [{"ops", "faults", "crashes"} -> Nat]
        /\ d \in ADeploy /\ d.todo \subseteq Name /\ d.started \subseteq Name
        /\ d.displaced \subseteq Name
    BY TypedMeans DEF ADeploy
  <1>c. c \in Name
    BY <1>t
  <1>d. Done(c) /\ d.pc # "idle" => GoodD
    BY <1>t DEF Done, ADeploy
  <1>g. \A l \in Labels, C \in SUBSET Name : Goto(l, C) /\ d.pc # "idle" => GoodD
    BY <1>t DEF Goto, ADeploy
  <1>e. EndDeploy => GoodD
    BY NoCommandTypes DEF EndDeploy, NoDeploy
  <1> USE <1>t, <1>c
  <1>1. CASE PutAside(c)
    <2>1. d.pc # "idle" /\ Done(c) /\ UNCHANGED <<route, st>>
      BY <1>1 DEF PutAside
    <2>2. Replaced(c) \in Name
      BY NameHasVersion
    <2>3. \/ ctr' = [Removed(Replaced(c)) EXCEPT ![Replaced(c)] = ctr[c], ![c] = "absent"]
             /\ UNCHANGED budget
          \/ ctr' \in {ctr, Removed(Replaced(c))} /\ Spend("faults")
      BY <1>1 DEF PutAside
    <2>4. GoodBudget
      BY <2>3, SpendTypes
    <2>5. GoodCtr
      BY <2>2, <2>3 DEF Removed, Status
    <2> QED
      BY <2>1, <2>4, <2>5, <1>d
  <1>2. CASE Displace(c)
    <2>1. GoodCtr /\ GoodBudget
      BY <1>2, CommandTypes DEF Displace
    <2>2. d.pc = "displace" /\ UNCHANGED <<route, st>>
          /\ d' = [d EXCEPT !.todo = @ \ {c}, !.displaced = @ \cup {c}]
      BY <1>2 DEF Displace, Loop
    <2>3. GoodD
      BY <2>2 DEF ADeploy
    <2> QED
      BY <2>1, <2>2, <2>3
  <1>3. CASE RunContainer(c)
    <2>1. GoodCtr /\ GoodBudget
      BY <1>3, CommandTypes DEF RunContainer
    <2>2. d.pc # "idle" /\ UNCHANGED <<route, st>>
          /\ d' = [d EXCEPT !.todo = @ \ {c}, !.started = @ \cup {c}]
      BY <1>3 DEF RunContainer
    <2>3. GoodD
      BY <2>2 DEF ADeploy
    <2> QED
      BY <2>1, <2>2, <2>3
  <1>4. CASE RunWebFails(c)
    BY <1>4, <1>e, CommandTypes DEF RunWebFails
  <1>5. CASE RunWorkerFails(c)
    <2>1. GoodCtr /\ GoodBudget
      BY <1>5, CommandTypes DEF RunWorkerFails
    <2>2. d.pc = "work" /\ UNCHANGED <<route, st>> /\ Goto("cleanup", d.started)
      BY <1>5 DEF RunWorkerFails, Loop
    <2> QED
      BY <2>1, <2>2, <1>g DEF Labels
  <1>6. CASE CleanUp(c)
    BY <1>6, <1>d, CommandTypes DEF CleanUp, Loop
  <1>7. CASE StopOld(c)
    <2>1. StopRemoveSucceeds(c) \/ StopRemoveFails(c) \/ StopSucceeds(c) \/ CommandFails
      BY <1>7 DEF StopOld
    <2> QED
      BY <1>7, <2>1, <1>d, CommandTypes DEF StopOld, Loop
  <1>8. CASE Prune(c)
    <2>1. StopRemoveSucceeds(c) \/ CommandFails
      BY <1>8 DEF Prune, Removed, StopRemoveSucceeds
    <2> QED
      BY <1>8, <2>1, <1>d, CommandTypes DEF Prune, Loop
  <1>9. CASE HostStop(c)
    BY <1>9, <1>d, CommandTypes DEF HostStop, Loop
  <1>10. CASE HostRemove(c)
    <2>1. d.pc = "hrestore" /\ UNCHANGED <<route, st>>
      BY <1>10 DEF HostRemove, Loop
    <2>2. CASE Present(c) /\ ctr' = Removed(c) /\ UNCHANGED budget
               /\ d' = [d EXCEPT !.pc = "hrerun", !.at = {c}]
      <3>1. GoodD
        BY <2>1, <2>2 DEF ADeploy, Labels
      <3> QED
        BY <2>1, <2>2, <3>1, DockerTypes
    <2>3. CASE (CommandFails \/ UNCHANGED <<ctr, budget>>) /\ Goto("hstart", d.started)
      <3>1. GoodD
        BY <2>1, <2>3, <1>g DEF Labels
      <3> QED
        BY <2>1, <2>3, <3>1, CommandTypes
    <2> QED
      BY <1>10, <2>2, <2>3 DEF HostRemove
  <1>11. CASE HostRerun(c)
    <2>1. d.pc = "hrerun" /\ UNCHANGED <<route, st>>
          /\ (RecreateSucceeds(c) \/ RecreateFails(c))
          /\ (Goto("hrestore", d.todo \ {c}) \/ Goto("hstart", d.started))
      BY <1>11 DEF HostRerun
    <2>2. GoodD
      BY <2>1, <1>g DEF Labels
    <2> QED
      BY <2>1, <2>2, CommandTypes
  <1>12. CASE HostStart(c)
    <2>1. d.pc = "hstart" /\ UNCHANGED <<route, st>> /\ Done(c)
          /\ (\/ ctr' = [ctr EXCEPT ![c] = "started"] /\ UNCHANGED budget
              \/ UNCHANGED <<ctr, budget>> \/ CommandFails)
      BY <1>12 DEF HostStart, Loop
    <2>2. GoodCtr /\ GoodBudget
      BY <2>1, CommandTypes, DockerTypes DEF Status
    <2> QED
      BY <2>1, <2>2, <1>d
  <1>13. CASE HostDiscard(c)
    <2>1. d.pc = "hremove" /\ UNCHANGED <<route, st>> /\ Done(c)
          /\ (\/ ctr' \in {ctr, Removed(c)} /\ UNCHANGED budget
              \/ CommandFails)
      BY <1>13 DEF HostDiscard, Loop
    <2>2. GoodCtr /\ GoodBudget
      BY <2>1, CommandTypes, DockerTypes
    <2> QED
      BY <2>1, <2>2, <1>d
  <1> QED
    BY <1>1, <1>2, <1>3, <1>4, <1>5, <1>6, <1>7, <1>8, <1>9, <1>10, <1>11, <1>12, <1>13
LEMMA DeployTyped ==
  ASSUME Typed, DeployNext
  PROVE  /\ ctr' \in [Name -> Status] /\ budget' \in [{"ops", "faults", "crashes"} -> Nat]
         /\ route' \subseteq Name /\ st' \in State
         /\ d' \in ADeploy /\ (d'.pc # "idle" => d'.ver \in Versions)
  <1> DEFINE Good == /\ ctr' \in [Name -> Status]
                     /\ budget' \in [{"ops", "faults", "crashes"} -> Nat]
                     /\ route' \subseteq Name /\ st' \in State
                     /\ d' \in ADeploy /\ (d'.pc # "idle" => d'.ver \in Versions)
  <1>t. /\ ctr \in [Name -> Status] /\ budget \in [{"ops", "faults", "crashes"} -> Nat]
        /\ route \subseteq Name /\ st \in State
        /\ d \in ADeploy /\ (d.pc # "idle" => d.ver \in Versions)
        /\ d.todo \subseteq Name /\ d.started \subseteq Name /\ d.displaced \subseteq Name
    BY TypedMeans DEF ADeploy
  <1>g. ASSUME NEW l \in Labels, NEW C \in SUBSET Name, Goto(l, C), d.pc # "idle"
        PROVE  d' \in ADeploy /\ d'.ver \in Versions
    BY <1>t, <1>g DEF Goto, ADeploy
  <1>e. EndDeploy => d' \in ADeploy /\ d'.pc = "idle"
    BY NoCommandTypes DEF EndDeploy, NoDeploy
  <1>s. \A k \in {"faults", "crashes", "ops"} :
            Spend(k) => budget' \in [{"ops", "faults", "crashes"} -> Nat]
    BY <1>t, SpendTypes
  <1>n. d.pc # "idle" => /\ NewWeb \subseteq Name /\ NewWorkers \subseteq Name
                         /\ PreviousWeb \subseteq Name
                         /\ d.cur.cur # NoVersion => PreviousWorkers \subseteq Name
    BY DeployNames
  <1>0. {} \subseteq Name
    OBVIOUS
  <1> USE <1>t
  <1>1. ASSUME NEW v \in Versions, NEW n \in Replicas, NEW W \in SUBSET Workers,
               DeployBegins(v, n, W)
        PROVE  Good
    <2>1. d' = [NoDeploy EXCEPT !.pc = "read", !.ver = v, !.reps = n, !.workers = W]
      BY <1>1 DEF DeployBegins
    <2>2. d' \in ADeploy /\ d'.ver = v
      BY <2>1, NoCommandTypes DEF ADeploy, Labels
    <2> QED
      BY <1>1, <1>s, <2>2 DEF DeployBegins
  <1>2. CASE DeployDies
    BY <1>2, <1>e, <1>s DEF DeployDies
  <1>3. ASSUME NEW c \in d.todo,
               \/ PutAside(c) \/ Displace(c) \/ RunContainer(c) \/ RunWebFails(c)
               \/ RunWorkerFails(c) \/ CleanUp(c) \/ StopOld(c) \/ Prune(c)
               \/ HostStop(c) \/ HostRemove(c) \/ HostRerun(c) \/ HostStart(c)
               \/ HostDiscard(c)
        PROVE  Good
    BY <1>3, DeployLoopTyped
  <1>4. CASE ReadState
    <2>1. d.pc = "read" /\ UNCHANGED <<ctr, route, st>>
      BY <1>4 DEF ReadState
    <2>2. CASE /\ d' = [d EXCEPT !.cur = st, !.pc = IF st.cur = d.ver THEN "aside" ELSE "ready",
                          !.todo = IF st.cur = d.ver THEN NewWeb \cup NewWorkers ELSE {}]
               /\ UNCHANGED budget
      <3>1. d' \in ADeploy /\ d'.ver = d.ver
        BY <1>n, <2>1, <2>2 DEF ADeploy, Labels
      <3> QED
        BY <2>1, <2>2, <3>1
    <2>3. CASE Goto("ready", {}) /\ Spend("faults")
      BY <1>g, <1>s, <2>1, <2>3 DEF Labels
    <2> QED
      BY <1>4, <2>2, <2>3 DEF ReadState
  <1>5. CASE PrepareFails \/ DisplaceFails
    BY <1>5, <1>e, <1>s DEF PrepareFails, DisplaceFails, CommandFails
  <1>6. CASE PlainNames
    <2>1. {ContainerName(p, d.ver) : p \in {"web"} \cup d.workers} \subseteq Name
      <3>1. d.ver \in Versions /\ {"web"} \cup d.workers \subseteq Processes
        BY <1>6 DEF PlainNames, At, ADeploy, Processes
      <3> QED
        BY <3>1, ContainerNames
    <2> QED
      BY <1>6, <1>g, <2>1 DEF PlainNames, At, Labels, serverVars
  <1>7. CASE ListHostWeb
    <2>1. RunningWeb \subseteq Name /\ d.pc # "idle"
      BY <1>7 DEF RunningWeb, ListHostWeb, Ready, At
    <2> QED
      BY <1>7, <1>g, <1>s, <2>1 DEF ListHostWeb, Labels
  <1>8. CASE StartWebs
    BY <1>8, <1>g, <1>n DEF StartWebs, Ready, At, Labels, serverVars
  <1>9. CASE ProbePasses
    <2>1. Proven(NewWeb) \in [Name -> Status]
      BY DEF Proven, Status
    <2> QED
      BY <1>9, <1>g, <1>n, <2>1 DEF ProbePasses, At, Labels
  <1>10. CASE ProbeFails
    BY <1>10, <1>g DEF ProbeFails, At, Labels, serverVars
  <1>11. CASE CleanedUp \/ Aborted
    BY <1>11, <1>e DEF CleanedUp, Aborted, serverVars
  <1>12. CASE Route
    <2>1. d.pc # "idle" /\ UNCHANGED <<ctr, st>>
      BY <1>12 DEF Route, At
    <2>2. \/ route' = NewWeb /\ Goto("commit", {}) /\ UNCHANGED budget
          \/ UNCHANGED route /\ Goto("cleanup", d.started) /\ Spend("faults")
      BY <1>12 DEF Route
    <2> QED
      BY <1>g, <1>n, <1>s, <2>1, <2>2 DEF Labels
  <1>13. CASE Commit
    <2>1. d.pc # "idle" /\ UNCHANGED <<ctr, route, budget>>
      BY <1>13 DEF Commit, Routed, At
    <2>2. st' \in State
      <3>1. d.ver \in Versions /\ d.cur.cur \in Versions \cup {NoVersion}
        BY <2>1 DEF ADeploy, State
      <3>2. d.reps \in Replicas \cup {1}
        BY DEF ADeploy
      <3>3. d.reps \in Nat
        BY <3>2, ReplicasAreNumbers
      <3> QED
        BY <1>13, <3>1, <3>3 DEF Commit, State
    <2>3. d' \in ADeploy /\ d'.ver \in Versions
      <3>1. CASE d.cur.cur = NoVersion
        BY <1>13, <1>g, <2>1, <3>1 DEF Commit, Labels
      <3>2. CASE d.cur.cur # NoVersion
        BY <1>13, <1>g, <1>n, <2>1, <3>2 DEF Commit, Labels
      <3> QED
        BY <3>1, <3>2
    <2> QED
      BY <2>1, <2>2, <2>3
  <1>14. CASE CommitFails
    <2>1. d.pc # "idle" /\ UNCHANGED <<ctr, route, st>> /\ Spend("faults")
      BY <1>14 DEF CommitFails, Routed, At
    <2>2. Goto("restore", {}) \/ Goto("hstop", d.started) \/ Goto("cleanup", d.started)
      <3>1. ingress \in {"caddy", "host", "external"}
        BY ServerAssumption DEF Typed, TypeOK, ServerTypeOK
      <3> QED
        BY <1>14, <3>1 DEF CommitFails
    <2> QED
      BY <1>g, <1>s, <2>1, <2>2 DEF Labels
  <1>15. CASE PruneLists
    <2>1. \A K, P : ToPrune(K, P) \subseteq Name
      BY DEF ToPrune
    <2>2. d.pc # "idle" /\ UNCHANGED <<ctr, route, st>>
      BY <1>15 DEF PruneLists, At
    <2>3. PICK K : \/ Goto("prune", ToPrune(K, ProtectedVersions \cup Pins)) /\ UNCHANGED budget
                   \/ Goto("prune", ToPrune(K, ProtectedVersions)) /\ Spend("faults")
      BY <1>15 DEF PruneLists
    <2> QED
      BY <1>g, <1>s, <2>1, <2>2, <2>3 DEF Labels
  <1>16. CASE Deployed
    BY <1>16, <1>e DEF Deployed, serverVars
  <1>17. CASE RestoreRoute
    BY <1>17, <1>g, <1>n DEF RestoreRoute, Labels
  <1>18. CASE RestoreRouteFails
    BY <1>18, <1>e, <1>s DEF RestoreRouteFails
  <1>19. CASE HostStopped \/ HostRestored
    BY <1>19, <1>g DEF HostStopped, HostRestored, At, Labels, serverVars
  <1> QED
    BY <1>1, <1>2, <1>3, <1>4, <1>5, <1>6, <1>7, <1>8, <1>9, <1>10, <1>11, <1>12, <1>13, <1>14,
       <1>15, <1>16, <1>17, <1>18, <1>19 DEF DeployNext, DeployStep
\* The steps of a rollback on one of the containers of its loop.
LEMMA RollbackLoopTyped ==
  ASSUME Typed, NEW c \in r.todo,
         \/ RDisplace(c) \/ RDisplaceFails(c) \/ RemoveTarget(c) \/ RemoveTargetFails(c)
         \/ RunTarget(c) \/ RunTargetFails(c) \/ RStopOld(c) \/ RDiscard(c)
         \/ UndoRemove(c) \/ UndoRerun(c)
  PROVE  /\ ctr' \in [Name -> Status] /\ budget' \in [{"ops", "faults", "crashes"} -> Nat]
         /\ r' \in ARollback /\ IsFiniteSet(r'.started)
         /\ UNCHANGED <<route, st>>
  <1> DEFINE GoodCtr == ctr' \in [Name -> Status]
             GoodBudget == budget' \in [{"ops", "faults", "crashes"} -> Nat]
             GoodR == r' \in ARollback /\ IsFiniteSet(r'.started)
  <1>t. /\ ctr \in [Name -> Status] /\ budget \in [{"ops", "faults", "crashes"} -> Nat]
        /\ r \in ARollback /\ r.todo \subseteq Name /\ IsFiniteSet(r.started)
    BY TypedMeans DEF ARollback
  <1>c. c \in Name
    BY <1>t
  <1>d. RDone(c) => GoodR
    BY <1>t DEF RDone, ARollback
  <1>e. EndRollback => GoodR
    BY NoCommandTypes, FS_EmptySet DEF EndRollback, NoRollback
  <1> USE <1>t, <1>c
  <1>1. CASE RDisplace(c)
    <2>1. GoodCtr /\ GoodBudget
      BY <1>1, CommandTypes DEF RDisplace
    <2>2. GoodR
      BY <1>1 DEF RDisplace, ARollback
    <2> QED
      BY <1>1, <2>1, <2>2 DEF RDisplace
  <1>2. CASE RDisplaceFails(c) \/ RemoveTargetFails(c) \/ RunTargetFails(c)
    <2>1. EndRollback /\ UNCHANGED <<route, st>>
          /\ (CommandFails \/ UNCHANGED <<ctr, budget>> \/ RecreateFails(c))
      BY <1>2 DEF RDisplaceFails, RemoveTargetFails, RunTargetFails
    <2>2. GoodCtr /\ GoodBudget
      BY <2>1, CommandTypes
    <2> QED
      BY <2>1, <2>2, <1>e
  <1>3. CASE RemoveTarget(c)
    <2>1. GoodR
      BY <1>3 DEF RemoveTarget, ARollback, RLabels
    <2> QED
      BY <1>3, <2>1, DockerTypes DEF RemoveTarget
  <1>4. CASE RunTarget(c)
    <2>1. GoodCtr /\ GoodBudget
      BY <1>4, CommandTypes DEF RunTarget
    <2>2. r' = [r EXCEPT !.pc = "remove", !.at = {}, !.todo = @ \ {c}, !.started = @ \cup {c}]
      BY <1>4 DEF RunTarget
    <2>3. r' \in ARollback /\ r'.started = r.started \cup {c}
      BY <2>2 DEF ARollback, RLabels
    <2>4. IsFiniteSet(r.started \cup {c})
      BY FS_AddElement
    <2> QED
      BY <1>4, <2>1, <2>3, <2>4 DEF RunTarget
  <1>5. CASE RStopOld(c) \/ RDiscard(c)
    <2>1. RDone(c) /\ UNCHANGED <<route, st>> /\ (StopSucceeds(c) \/ CommandFails)
      BY <1>5 DEF RStopOld, RDiscard
    <2> QED
      BY <1>d, <2>1, CommandTypes
  <1>6. CASE UndoRemove(c)
    <2>1. CASE Present(c) /\ ctr' = Removed(c) /\ UNCHANGED budget
               /\ r' = [r EXCEPT !.pc = "undorerun", !.at = {c}]
      <3>1. GoodR
        BY <2>1 DEF ARollback, RLabels
      <3> QED
        BY <1>6, <2>1, <3>1, DockerTypes DEF UndoRemove
    <2>2. CASE RDone(c) /\ (UNCHANGED <<ctr, budget>> \/ CommandFails)
      BY <1>6, <1>d, <2>2, CommandTypes DEF UndoRemove
    <2> QED
      BY <1>6, <2>1, <2>2 DEF UndoRemove
  <1>7. CASE UndoRerun(c)
    <2>1. GoodCtr /\ GoodBudget
      BY <1>7, CommandTypes DEF UndoRerun
    <2>2. GoodR
      BY <1>7 DEF UndoRerun, ARollback, RLabels
    <2> QED
      BY <1>7, <2>1, <2>2 DEF UndoRerun
  <1> QED
    BY <1>1, <1>2, <1>3, <1>4, <1>5, <1>6, <1>7

LEMMA RollbackTyped ==
  ASSUME Typed, RollbackNext
  PROVE  /\ ctr' \in [Name -> Status] /\ budget' \in [{"ops", "faults", "crashes"} -> Nat]
         /\ route' \subseteq Name /\ st' \in State
         /\ r' \in ARollback /\ IsFiniteSet(r'.started)
  <1> DEFINE Good == /\ ctr' \in [Name -> Status]
                     /\ budget' \in [{"ops", "faults", "crashes"} -> Nat]
                     /\ route' \subseteq Name /\ st' \in State
                     /\ r' \in ARollback /\ IsFiniteSet(r'.started)
  <1>t. /\ ctr \in [Name -> Status] /\ budget \in [{"ops", "faults", "crashes"} -> Nat]
        /\ route \subseteq Name /\ st \in State
        /\ r \in ARollback /\ IsFiniteSet(r.started)
        /\ r.todo \subseteq Name /\ r.started \subseteq Name /\ r.displaced \subseteq Name
        /\ r.live \subseteq Name /\ r.seen \subseteq Name
    BY TypedMeans DEF ARollback
  <1>g. ASSUME NEW l \in RLabels, NEW C \in SUBSET Name, RGoto(l, C)
        PROVE  r' \in ARollback /\ IsFiniteSet(r'.started)
    BY <1>t, <1>g DEF RGoto, ARollback
  <1>e. EndRollback => r' \in ARollback /\ IsFiniteSet(r'.started)
    BY NoCommandTypes, FS_EmptySet DEF EndRollback, NoRollback
  <1>s. \A k \in {"faults", "crashes", "ops"} :
            Spend(k) => budget' \in [{"ops", "faults", "crashes"} -> Nat]
    BY <1>t, SpendTypes
  <1>0. {} \subseteq Name /\ TargetWeb \subseteq Name /\ OriginalWeb \subseteq Name
        /\ Target \subseteq Name
    BY <1>t DEF TargetWeb, OriginalWeb, Web, Target
  <1> USE <1>t
  <1>1. ASSUME NEW t \in Versions, RollbackBegins(t) PROVE Good
    <2>1. r' = [NoRollback EXCEPT !.pc = "list", !.target = t, !.cur = st]
      BY <1>1 DEF RollbackBegins
    <2>2. r' \in ARollback /\ r'.started = {}
      <3>1. NoRollback \in ARollback /\ NoRollback.started = {}
        BY NoCommandTypes DEF NoRollback
      <3> QED
        BY <2>1, <3>1 DEF ARollback, RLabels
    <2> QED
      BY <1>1, <1>s, <2>2, FS_EmptySet DEF RollbackBegins
  <1>2. CASE RollbackDies
    BY <1>2, <1>e, <1>s DEF RollbackDies
  <1>3. ASSUME NEW c \in r.todo,
               \/ RDisplace(c) \/ RDisplaceFails(c) \/ RemoveTarget(c) \/ RemoveTargetFails(c)
               \/ RunTarget(c) \/ RunTargetFails(c) \/ RStopOld(c) \/ RDiscard(c)
               \/ UndoRemove(c) \/ UndoRerun(c)
        PROVE  Good
    BY <1>3, RollbackLoopTyped
  <1>4. CASE ListContainers
    <2> DEFINE seen == {c \in Name : Present(c)}
               live == {c \in seen : Running(c)}
               rest == {c \in seen : c.ver = r.target}
               pc == IF ingress = "host" THEN "displace" ELSE "remove"
               todo == IF ingress = "host" THEN Web(seen) \ rest ELSE rest
    <2>1. seen \subseteq Name /\ live \subseteq Name /\ todo \subseteq Name /\ pc \in RLabels
      BY DEF Web, RLabels
    <2>2. r' = [r EXCEPT !.seen = seen, !.live = live, !.pc = pc, !.todo = todo]
      BY <1>4 DEF ListContainers
    <2> HIDE DEF seen, live, pc, todo
    <2>3. r' \in ARollback /\ r'.started = r.started
      BY <2>1, <2>2 DEF ARollback
    <2> QED
      BY <1>4, <2>3 DEF ListContainers, serverVars
  <1>5. CASE ListFails
    BY <1>5, <1>e, <1>s DEF ListFails, CommandFails
  <1>6. CASE RDisplaced \/ RUndone \/ RProbeFails
    BY <1>6, <1>0, <1>g DEF RDisplaced, RUndone, RProbeFails, RLabels, serverVars
  <1>7. CASE NoTarget \/ RolledBack
    BY <1>7, <1>e DEF NoTarget, RolledBack, serverVars
  <1>8. CASE RProbePasses
    <2>1. Proven(TargetWeb) \in [Name -> Status]
      BY DEF Proven, Status
    <2>2. r' \in ARollback /\ IsFiniteSet(r'.started)
      BY <1>8, <1>0, <1>g DEF RProbePasses, RLabels
    <2> QED
      BY <1>8, <2>1, <2>2 DEF RProbePasses
  <1>9. CASE RProbeBreaks \/ RRouteFails \/ RRestoreFails
    <2>1. EndRollback /\ UNCHANGED <<route, st>> /\ (CommandFails \/ UNCHANGED <<ctr, budget>>)
      BY <1>9 DEF RProbeBreaks, RRouteFails, RRestoreFails
    <2> QED
      BY <1>e, <1>s, <2>1 DEF CommandFails
  <1>10. CASE RRoute \/ RRestore
    BY <1>10, <1>0, <1>g DEF RRoute, RRestore, RLabels
  <1>11. CASE RCommit
    <2>1. IsFiniteSet(TargetWeb)
      BY FS_Subset DEF TargetWeb, Web
    <2>2. Cardinality(TargetWeb) \in Nat
      BY <2>1, FS_CardinalityType
    <2>3. st' \in State
      BY <1>11, <2>2 DEF RCommit, State, ARollback
    <2>4. {c \in r.live : c.ver = r.cur.cur} \subseteq Name
      OBVIOUS
    <2> QED
      BY <1>11, <1>g, <2>3, <2>4 DEF RCommit, RLabels
  <1>12. CASE RCommitFails
    <2>1. UNCHANGED <<route, st>> /\ CommandFails
          /\ (RGoto("restore", {}) \/ RGoto("discard", r.started))
      BY <1>12 DEF RCommitFails
    <2> QED
      BY <1>0, <1>g, <1>s, <2>1 DEF CommandFails, RLabels
  <1> QED
    BY <1>1, <1>2, <1>3, <1>4, <1>5, <1>6, <1>7, <1>8, <1>9, <1>10, <1>11, <1>12
       DEF RollbackNext, RollbackStep

LEMMA NextTyped == Typed /\ [OpsNext]_vars => Typed'
  <1> SUFFICES ASSUME Typed, [OpsNext]_vars PROVE Typed'
    OBVIOUS
  <1>t. /\ ingress \in Ingresses /\ habits \in Habits
        /\ d \in ADeploy /\ r \in ARollback /\ (d.pc # "idle" => d.ver \in Versions)
        /\ IsFiniteSet(r.started)
    BY TypedMeans DEF Typed, TypeOK, ServerTypeOK
  <1>1. CASE DeployNext /\ UNCHANGED <<r, ingress, habits>>
    BY <1>1, <1>t, DeployTyped DEF Typed, TypeOK, ServerTypeOK, DeployTypeOK, RollbackTypeOK, Status,
                                   ADeploy, ARollback
  <1>2. CASE RollbackNext /\ UNCHANGED <<d, ingress, habits>>
    BY <1>2, <1>t, RollbackTyped DEF Typed, TypeOK, ServerTypeOK, DeployTypeOK, RollbackTypeOK,
                                     Status, ADeploy, ARollback
  <1>3. CASE UNCHANGED vars
    BY <1>3 DEF vars, serverVars, Typed, TypeOK, ServerTypeOK, DeployTypeOK, RollbackTypeOK
  <1> QED
    BY <1>1, <1>2, <1>3 DEF OpsNext, Next, Rest

\* Every reachable state has the shape TypeOK says.
THEOREM TypeCorrect == Spec => []TypeOK
  <1>1. Typed => TypeOK
    BY DEF Typed
  <1> QED
    BY <1>1, InitTyped, NextTyped, PTL DEF Spec
-----------------------------------------------------------------------------
(* The route leads to running containers.                                  *)

\* What the theorem presupposes of the use of the commands.
Needed == {"alone", "new", "to stopped"}

HostLabels == {"displace", "hstop", "hrestore", "hrerun", "hstart", "hremove"}

\* A deploy under caddy ingress.  Until it commits, its version is not the
\* current one, so that nothing it starts, removes or stops is the current
\* version's; what it has started gets traffic only once all of it runs.
DeployRoutes ==
    /\ d.pc \notin HostLabels \cup {"aside", "plain"}
    /\ d.cur.cur # d.ver
    /\ IF d.pc \in {"stopold", "prune"} THEN st.cur = d.ver
                                        ELSE st.cur # d.ver /\ d.cur \in {st, NoState}
    /\ \A c \in d.started : c.ver = d.ver
    /\ d.pc = "web" => d.todo \subseteq NewWeb
    /\ d.pc = "work" => /\ \A c \in d.todo : c.ver = d.ver
                        /\ \A c \in NewWeb : Running(c)
    /\ d.pc \in {"read", "ready", "web", "work", "cleanup"} => d.started \cap route = {}
    /\ d.pc = "cleanup" => d.todo \subseteq d.started
    /\ d.pc \in {"commit", "restore", "stopold", "prune"} => route = NewWeb
    /\ d.pc = "stopold" => \A c \in d.todo : c.ver = d.cur.cur
    /\ d.pc = "prune" => \A c \in d.todo : c.ver # d.ver

\* A rollback under caddy ingress.  Its target gets traffic only once all that
\* is there of it has been recreated, and the containers it found running of the
\* current version run on, in case the route is put back.
RollbackRoutes ==
    /\ r.pc \notin {"displace", "undorerun"} /\ r.displaced = {}
    /\ r.cur.cur # r.target
    /\ IF r.pc = "stopold" THEN st.cur = r.target ELSE r.cur = st
    /\ \A c \in r.started : c.ver = r.target
    /\ r.pc = "list" => r.started = {} /\ \A c \in Name : c.ver = r.target => ~Running(c)
    /\ r.pc \in {"remove", "rerun", "undo", "discard"} => \A c \in r.todo : c.ver = r.target
    /\ r.pc \in {"remove", "rerun"} => r.todo \cap r.started = {}
    /\ r.pc \in {"remove", "rerun", "route", "commit"} =>
            \A c \in Name : c.ver = r.target /\ Present(c) =>
                c \in r.started \/ (r.pc \in {"remove", "rerun"} /\ c \in r.todo)
    /\ r.pc \in {"remove", "rerun", "route", "commit", "restore"} =>
            /\ \A c \in r.started : Running(c)
            /\ \A c \in r.live : c.ver = r.cur.cur => Running(c)
    /\ r.pc = "undoremove" => r.todo = {}
    /\ r.pc = "stopold" => \A c \in r.todo : c.ver = r.cur.cur
    /\ IF r.pc \in {"commit", "restore", "stopold"} THEN \A c \in route : c.ver = r.target
                                                    ELSE \A c \in route : c.ver # r.target
    /\ r.pc \in {"commit", "restore"} => \A c \in route : c \in r.started

RouteInv ==
    /\ Alone
    /\ RoutedRuns
    /\ IF ingress # "caddy" THEN route = {} /\ d.pc # "restore" /\ r.pc \notin {"route", "restore"}
       ELSE /\ \A c \in CommittedWeb : Present(c) => Running(c)
            /\ d.pc # "idle" => DeployRoutes
            /\ r.pc # "idle" => RollbackRoutes
LEMMA InitRoutes == Init => RouteInv
  <1> SUFFICES ASSUME Init PROVE RouteInv
    OBVIOUS
  <1>1. route = {} /\ d.pc = "idle" /\ r.pc = "idle" /\ st = NoState
    BY DEF Init, ServerInit, DeployInit, RollbackInit, NoDeploy, NoRollback
  <1>2. \A c \in CommittedWeb : c.ver = NoVersion /\ c \in Name
    BY <1>1, WebNamesAreWeb DEF CommittedWeb, NoState
  <1>3. CommittedWeb = {}
    BY <1>2, NameHasVersion, ServerAssumption
  <1> QED
    BY <1>1, <1>3 DEF RouteInv, Alone, RoutedRuns

\* A container that is neither routed to nor the current version's may change.
LEMMA RoutedUntouched ==
  ASSUME RoutedRuns, \A c \in CommittedWeb : Present(c) => Running(c), Typed,
         UNCHANGED <<route, st>>, NEW x \in Name, x \notin route, x.ver # st.cur,
         \A c \in Name \ {x} : ctr'[c] = ctr[c]
  PROVE  RoutedRuns' /\ \A c \in CommittedWeb' : Present(c)' => Running(c)'
  <1>1. CommittedWeb' = CommittedWeb /\ CommittedWeb \subseteq Name
        /\ \A c \in CommittedWeb : c.ver = st.cur
    BY WebNamesAreWeb DEF CommittedWeb
  <1>2. route \subseteq Name
    BY TypedMeans
  <1> QED
    BY <1>1, <1>2 DEF RoutedRuns, Running, Present

\* The steps of a deploy under caddy ingress.
LEMMA DeployKeepsRoutes ==
  ASSUME Typed, RouteInv, ingress = "caddy", DeployStep, d.pc # "idle"
  PROVE  /\ RoutedRuns'
         /\ \A c \in CommittedWeb' : Present(c)' => Running(c)'
         /\ d'.pc # "idle" => DeployRoutes'
  <1> DEFINE Sound == RoutedRuns' /\ \A c \in CommittedWeb' : Present(c)' => Running(c)'
             Goal == Sound /\ (d'.pc # "idle" => DeployRoutes')
  <1>t. /\ ctr \in [Name -> Status] /\ route \subseteq Name
        /\ d \in ADeploy /\ d.ver \in Versions
        /\ d.todo \subseteq Name /\ d.started \subseteq Name
    BY TypedMeans DEF ADeploy
  <1>i. /\ RoutedRuns /\ DeployRoutes
        /\ \A c \in CommittedWeb : Present(c) => Running(c)
    BY DEF RouteInv
  <1>g. ASSUME NEW l \in Labels, NEW C, Goto(l, C)
        PROVE  /\ d'.pc = l /\ d'.todo = C /\ d'.ver = d.ver /\ d'.cur = d.cur
               /\ d'.started = d.started /\ d'.reps = d.reps /\ NewWeb' = NewWeb
    BY <1>t, <1>g DEF Goto, ADeploy, NewWeb
  <1>d. ASSUME NEW c, Done(c)
        PROVE  /\ d'.pc = d.pc /\ d'.todo = d.todo \ {c} /\ d'.ver = d.ver /\ d'.cur = d.cur
               /\ d'.started = d.started /\ d'.reps = d.reps /\ NewWeb' = NewWeb
    BY <1>t, <1>d DEF Done, ADeploy, NewWeb
  <1>e. EndDeploy => d'.pc = "idle"
    BY DEF EndDeploy, NoDeploy
  <1>n. \A c \in NewWeb : c.ver = d.ver /\ c \in Name
    BY WebNamesAreWeb DEF NewWeb
  <1>u. UNCHANGED <<ctr, route, st>> => Sound
    BY <1>i DEF RoutedRuns, CommittedWeb, Present, Running
  <1>1. CASE ReadState
    <2>1. d.pc = "read" /\ Sound
      BY <1>1, <1>u DEF ReadState
    <2>2. st.cur # d.ver
      BY <1>i, <2>1 DEF DeployRoutes
    <2>3. \/ d' = [d EXCEPT !.cur = st, !.pc = "ready", !.todo = {}]
          \/ Goto("ready", {})
      BY <1>1, <2>2 DEF ReadState
    <2>4. DeployRoutes'
      <3>1. /\ d'.pc = "ready" /\ d'.ver = d.ver /\ d'.started = d.started
            /\ d'.cur \in {st, d.cur}
        <4>1. CASE Goto("ready", {})
          BY <4>1, <1>g DEF Labels
        <4>2. CASE d' = [d EXCEPT !.cur = st, !.pc = "ready", !.todo = {}]
          BY <1>t, <4>2 DEF ADeploy
        <4> QED
          BY <2>3, <4>1, <4>2
      <3> QED
        BY <1>1, <1>i, <2>1, <2>2, <3>1 DEF DeployRoutes, HostLabels, ReadState
    <2> QED
      BY <2>1, <2>4
  <1>2. CASE PrepareFails \/ DisplaceFails \/ CleanedUp \/ Aborted \/ Deployed \/ RestoreRouteFails
    BY <1>2, <1>e, <1>u DEF PrepareFails, DisplaceFails, CleanedUp, Aborted, Deployed,
                            RestoreRouteFails, CommandFails, serverVars
  <1>3. CASE StartWebs
    <2>1. d.pc = "ready"
      BY <1>3, <1>i DEF StartWebs, Ready, At, DeployRoutes, HostLabels
    <2>2. d'.pc = "web" /\ d'.todo = NewWeb
      BY <1>3, <1>g DEF StartWebs, Labels
    <2>3. DeployRoutes'
      BY <1>3, <1>g, <1>i, <2>1, <2>2 DEF StartWebs, DeployRoutes, HostLabels, Labels, serverVars
    <2> QED
      BY <1>3, <1>u, <2>3 DEF StartWebs, serverVars
  <1>4. CASE ProbePasses
    <2>1. /\ d.pc = "web" /\ d.todo = {} /\ \A c \in NewWeb : Running(c)
          /\ ctr' = Proven(NewWeb) /\ Goto("work", NewWorkers) /\ UNCHANGED <<route, st>>
      BY <1>4 DEF ProbePasses, At
    <2>2. \A c \in Name : Running(c) => ctr'[c] \in {"started", "healthy"}
      BY <2>1 DEF Proven, Running
    <2>3. \A c \in Name : ctr'[c] # "absent" /\ ~Running(c) => ctr[c] # "absent"
      BY <2>1 DEF Proven
    <2>4. CommittedWeb' = CommittedWeb /\ CommittedWeb \subseteq Name
      BY <2>1, WebNamesAreWeb DEF CommittedWeb
    <2>5. Sound
      BY <1>i, <1>t, <2>1, <2>2, <2>3, <2>4 DEF RoutedRuns, Running, Present
    <2>6. \A c \in NewWorkers : c.ver = d.ver
      BY <1>t, WorkerNames DEF NewWorkers, ADeploy
    <2>7. \A c \in NewWeb : ctr'[c] \in {"started", "healthy"}
      BY <1>n, <2>1, <2>2
    <2>8. DeployRoutes'
      BY <1>g, <1>i, <2>1, <2>6, <2>7 DEF DeployRoutes, HostLabels, Labels, Running
    <2> QED
      BY <2>5, <2>8
  <1>5. CASE ProbeFails
    <2>1. d.pc = "web" /\ Goto("cleanup", d.started) /\ UNCHANGED <<ctr, route, st>>
      BY <1>5 DEF ProbeFails, At, serverVars
    <2>2. DeployRoutes'
      BY <1>g, <1>i, <2>1 DEF DeployRoutes, HostLabels, Labels
    <2> QED
      BY <1>u, <2>1, <2>2
  <1>6. CASE Route
    <2>1. d.pc = "work" /\ d.todo = {} /\ UNCHANGED <<ctr, st>>
      BY <1>6 DEF Route, At
    <2>2. CASE route' = NewWeb /\ Goto("commit", {})
      <3>1. Sound
        BY <1>i, <2>1, <2>2 DEF RoutedRuns, Running, Present, CommittedWeb, DeployRoutes
      <3>2. DeployRoutes'
        BY <1>g, <1>i, <2>1, <2>2 DEF DeployRoutes, HostLabels, Labels
      <3> QED
        BY <3>1, <3>2
    <2>3. CASE UNCHANGED route /\ Goto("cleanup", d.started)
      <3>1. DeployRoutes'
        BY <1>g, <1>i, <2>1, <2>3 DEF DeployRoutes, HostLabels, Labels
      <3> QED
        BY <1>u, <2>1, <2>3, <3>1
    <2> QED
      BY <1>6, <2>2, <2>3 DEF Route
  <1>7. CASE Commit
    <2>1. d.pc = "commit" /\ UNCHANGED <<ctr, route>> /\ st'.cur = d.ver
          /\ CommittedWeb' = NewWeb
      <3>1. UNCHANGED <<ctr, route>> /\ st' = [cur |-> d.ver, reps |-> d.reps, prev |-> d.cur.cur]
        BY <1>7 DEF Commit
      <3>2. CommittedWeb' = NewWeb
        BY <3>1 DEF CommittedWeb, NewWeb
      <3> QED
        BY <1>7, <3>1, <3>2 DEF Commit, Routed
    <2>2. Sound
      BY <1>i, <2>1 DEF RoutedRuns, Running, Present, DeployRoutes
    <2>3. ~SameVersion
      BY <1>i DEF DeployRoutes, SameVersion
    <2>4. \A c \in PreviousWeb : c.ver = d.cur.cur
      BY <2>3, WebNamesAreWeb DEF PreviousWeb, AsPrevious
    <2>5. d.cur.cur # NoVersion => \A c \in PreviousWorkers : c.ver = d.cur.cur
      <3>1. d.workers \subseteq Workers /\ d.cur.cur \in Versions \cup {NoVersion}
        BY <1>t DEF ADeploy, State
      <3> QED
        BY <2>3, <3>1, WorkerNames DEF PreviousWorkers, AsPrevious
    <2>6. PICK C : Goto("stopold", C) /\ \A c \in C : c.ver = d.cur.cur
      <3>1. CASE d.cur.cur = NoVersion
        <4>1. Goto("stopold", {})
          BY <1>7, <3>1 DEF Commit
        <4> QED
          BY <4>1
      <3>2. CASE d.cur.cur # NoVersion
        <4>1. Goto("stopold", PreviousWeb \cup PreviousWorkers)
          BY <1>7, <3>2 DEF Commit
        <4>2. \A c \in PreviousWeb \cup PreviousWorkers : c.ver = d.cur.cur
          BY <2>4, <2>5, <3>2
        <4> QED
          BY <4>1, <4>2
      <3> QED
        BY <3>1, <3>2
    <2>7. DeployRoutes'
      BY <1>g, <1>i, <2>1, <2>6 DEF DeployRoutes, HostLabels, Labels
    <2> QED
      BY <2>2, <2>7
  <1>8. CASE CommitFails
    <2>1. d.pc = "commit" /\ UNCHANGED <<ctr, route, st>> /\ Goto("restore", {})
      BY <1>8 DEF CommitFails, Routed
    <2>2. DeployRoutes'
      BY <1>g, <1>i, <2>1 DEF DeployRoutes, HostLabels, Labels
    <2> QED
      BY <1>u, <2>1, <2>2
  <1>9. CASE PruneLists
    <2>1. d.pc = "stopold" /\ UNCHANGED <<ctr, route, st>>
      BY <1>9 DEF PruneLists, At
    <2>2. PICK C : Goto("prune", C) /\ \A c \in C : c.ver # d.ver
      BY <1>9 DEF PruneLists, ToPrune, ProtectedVersions
    <2>3. DeployRoutes'
      BY <1>g, <1>i, <2>1, <2>2 DEF DeployRoutes, HostLabels, Labels
    <2> QED
      BY <1>u, <2>1, <2>3
  <1>10. CASE RestoreRoute
    <2>1. d.pc = "restore" /\ UNCHANGED <<ctr, st>> /\ Goto("cleanup", d.started)
      BY <1>10 DEF RestoreRoute
    <2>2. CASE route' = {}
      <3>1. DeployRoutes'
        BY <1>g, <1>i, <2>1, <2>2 DEF DeployRoutes, HostLabels, Labels
      <3> QED
        BY <1>i, <2>1, <2>2, <3>1 DEF RoutedRuns, CommittedWeb, Present, Running
    <2>3. CASE d.cur.cur # NoVersion /\ PreviousFound /\ route' = PreviousWeb
      <3>1. d.cur = st /\ ~SameVersion
        BY <1>i, <2>1, <2>3 DEF DeployRoutes, SameVersion, NoState
      <3>2. PreviousWeb = CommittedWeb
        BY <3>1 DEF PreviousWeb, AsPrevious, CommittedWeb
      <3>3. Sound
        BY <1>i, <2>1, <2>3, <3>2 DEF RoutedRuns, PreviousFound, Present, Running, CommittedWeb
      <3>4. \A c \in route' : c.ver # d.ver
        BY <1>i, <2>1, <2>3, <3>2, WebNamesAreWeb DEF CommittedWeb, DeployRoutes
      <3>5. DeployRoutes'
        BY <1>g, <1>i, <2>1, <3>4 DEF DeployRoutes, HostLabels, Labels
      <3> QED
        BY <3>3, <3>5
    <2> QED
      BY <1>10, <2>2, <2>3 DEF RestoreRoute
  <1>11. ASSUME NEW c \in d.todo, RunContainer(c) \/ RunWebFails(c) \/ RunWorkerFails(c)
         PROVE  Goal
    <2>1. d.pc \in {"web", "work"} /\ UNCHANGED <<route, st>> /\ c \in Name
      BY <1>t, <1>11 DEF RunContainer, RunWebFails, RunWorkerFails, Loop
    <2>2. c.ver = d.ver /\ c.ver # st.cur
      BY <1>i, <1>n, <2>1 DEF DeployRoutes
    <2>3. RunSucceeds(c) \/ RunRefused(c) \/ RunFails(c)
      BY <1>11 DEF RunContainer, RunWebFails, RunWorkerFails, RunNot
    <2>4. \A x \in Name \ {c} : ctr'[x] = ctr[x]
      BY <1>t, <2>1, <2>3, OneChanges DEF RunNot
    <2>5. CASE RunRefused(c)
      <3>1. Sound
        BY <1>u, <2>1, <2>5 DEF RunRefused
      <3>2. ~RunContainer(c)
        BY <2>5 DEF RunContainer, RunSucceeds, RunRefused
      <3>3. DeployRoutes' \/ d'.pc = "idle"
        <4>1. CASE RunWebFails(c)
          BY <1>e, <4>1 DEF RunWebFails
        <4>2. CASE RunWorkerFails(c)
          <5>1. d.pc = "work" /\ Goto("cleanup", d.started)
            BY <4>2 DEF RunWorkerFails, Loop
          <5> QED
            BY <1>g, <1>i, <2>1, <5>1 DEF DeployRoutes, HostLabels, Labels
        <4> QED
          BY <1>11, <3>2, <4>1, <4>2
      <3> QED
        BY <3>1, <3>3
    <2>6. CASE ~Running(c)
      <3>1. c \notin route
        BY <1>i, <2>6 DEF RoutedRuns
      <3>2. Sound
        BY <1>i, <2>1, <2>2, <2>4, <3>1, RoutedUntouched
      <3>3. \A x \in Name : Running(x) => ctr'[x] \in {"started", "healthy"}
        BY <2>4, <2>6 DEF Running
      <3>4. CASE RunContainer(c)
        <4>1. /\ d'.pc = d.pc /\ d'.todo = d.todo \ {c} /\ d'.started = d.started \cup {c}
              /\ d'.ver = d.ver /\ d'.cur = d.cur /\ NewWeb' = NewWeb
          BY <1>t, <3>4 DEF RunContainer, ADeploy, NewWeb
        <4>2. DeployRoutes'
          BY <1>i, <1>n, <2>1, <2>2, <3>1, <3>3, <4>1 DEF DeployRoutes, HostLabels, Running
        <4> QED
          BY <3>2, <4>2
      <3>5. CASE RunWebFails(c)
        BY <1>e, <3>2, <3>5 DEF RunWebFails
      <3>6. CASE RunWorkerFails(c)
        <4>1. d.pc = "work" /\ Goto("cleanup", d.started)
          BY <3>6 DEF RunWorkerFails, Loop
        <4>2. DeployRoutes'
          BY <1>g, <1>i, <2>1, <4>1 DEF DeployRoutes, HostLabels, Labels
        <4> QED
          BY <3>2, <4>2
      <3> QED
        BY <1>11, <3>4, <3>5, <3>6
    <2> QED
      BY <2>3, <2>5, <2>6 DEF RunSucceeds, RunFails
  <1>12. ASSUME NEW c \in d.todo, CleanUp(c) \/ StopOld(c) \/ Prune(c)
         PROVE  Goal
    <2>1. d.pc \in {"cleanup", "stopold", "prune"} /\ UNCHANGED <<route, st>> /\ c \in Name
          /\ Done(c)
      BY <1>t, <1>12 DEF CleanUp, StopOld, Prune, Loop
    <2>2. c.ver # st.cur /\ c \notin route
      BY <1>i, <1>n, <2>1 DEF DeployRoutes
    <2>3. StopRemoveSucceeds(c) \/ StopRemoveFails(c) \/ StopSucceeds(c) \/ CommandFails
      BY <1>12 DEF CleanUp, StopOld, Prune, StopRemoveSucceeds, Removed
    <2>4. \A x \in Name \ {c} : ctr'[x] = ctr[x]
      BY <1>t, <2>1, <2>3, OneChanges
    <2>5. Sound
      BY <1>i, <2>1, <2>2, <2>4, RoutedUntouched
    <2>6. DeployRoutes'
      BY <1>d, <1>i, <2>1 DEF DeployRoutes, HostLabels
    <2> QED
      BY <2>5, <2>6
  <1>13. CASE PlainNames \/ ListHostWeb \/ HostStopped \/ HostRestored
    BY <1>13, <1>i DEF PlainNames, ListHostWeb, HostStopped, HostRestored, At, DeployRoutes,
                       HostLabels
  <1>14. ASSUME NEW c \in d.todo,
                \/ PutAside(c) \/ Displace(c) \/ HostStop(c) \/ HostRemove(c) \/ HostRerun(c)
                \/ HostStart(c) \/ HostDiscard(c)
         PROVE  Goal
    BY <1>14, <1>i DEF PutAside, Displace, HostStop, HostRemove, HostRerun, HostStart, HostDiscard,
                       Loop, DeployRoutes, HostLabels
  <1> QED
    BY <1>1, <1>2, <1>3, <1>4, <1>5, <1>6, <1>7, <1>8, <1>9, <1>10, <1>11, <1>12, <1>13, <1>14
       DEF DeployStep
\* The steps of a rollback under caddy ingress.
LEMMA RollbackKeepsRoutes ==
  ASSUME Typed, RouteInv, ingress = "caddy", RollbackStep, r.pc # "idle"
  PROVE  /\ RoutedRuns'
         /\ \A c \in CommittedWeb' : Present(c)' => Running(c)'
         /\ r'.pc # "idle" => RollbackRoutes'
  <1> DEFINE Sound == RoutedRuns' /\ \A c \in CommittedWeb' : Present(c)' => Running(c)'
             Goal == Sound /\ (r'.pc # "idle" => RollbackRoutes')
  <1>t. /\ ctr \in [Name -> Status] /\ route \subseteq Name
        /\ r \in ARollback
        /\ r.todo \subseteq Name /\ r.started \subseteq Name /\ r.live \subseteq Name
    BY TypedMeans DEF ARollback
  <1>i. /\ RoutedRuns /\ RollbackRoutes
        /\ \A c \in CommittedWeb : Present(c) => Running(c)
    BY DEF RouteInv
  <1>g. ASSUME NEW l \in RLabels, NEW C, RGoto(l, C)
        PROVE  /\ r'.pc = l /\ r'.todo = C /\ r'.target = r.target /\ r'.cur = r.cur
               /\ r'.started = r.started /\ r'.displaced = r.displaced /\ r'.live = r.live
    BY <1>t, <1>g DEF RGoto, ARollback
  <1>d. ASSUME NEW c, RDone(c)
        PROVE  /\ r'.pc = r.pc /\ r'.todo = r.todo \ {c} /\ r'.target = r.target
               /\ r'.cur = r.cur /\ r'.started = r.started /\ r'.displaced = r.displaced
               /\ r'.live = r.live
    BY <1>t, <1>d DEF RDone, ARollback
  <1>e. EndRollback => r'.pc = "idle"
    BY DEF EndRollback, NoRollback
  <1>w. TargetWeb \subseteq r.started /\ OriginalWeb \subseteq r.live
        /\ \A c \in OriginalWeb : c.ver = r.cur.cur
    BY DEF TargetWeb, OriginalWeb, Web
  <1>u. UNCHANGED <<ctr, route, st>> => Sound
    BY <1>i DEF RoutedRuns, CommittedWeb, Present, Running
  <1>1. CASE ListContainers
    <2> DEFINE seen == {c \in Name : Present(c)}
               rest == {c \in seen : c.ver = r.target}
    <2>1. r.pc = "list" /\ UNCHANGED <<ctr, route, st>>
      BY <1>1 DEF ListContainers, serverVars
    <2>2. r' = [r EXCEPT !.seen = seen, !.live = {c \in seen : Running(c)},
                         !.pc = "remove", !.todo = rest]
      BY <1>1 DEF ListContainers
    <2>3. /\ r'.pc = "remove" /\ r'.todo = rest /\ r'.target = r.target /\ r'.cur = r.cur
          /\ r'.started = r.started /\ r'.displaced = r.displaced
          /\ \A c \in r'.live : Running(c)
      BY <1>t, <2>2 DEF ARollback
    <2>4. RollbackRoutes'
      BY <1>i, <2>1, <2>3 DEF RollbackRoutes, Running, Present
    <2> QED
      BY <1>u, <2>1, <2>4
  <1>2. CASE ListFails \/ NoTarget \/ RProbeBreaks \/ RRouteFails \/ RolledBack \/ RRestoreFails
    BY <1>2, <1>e, <1>u DEF ListFails, NoTarget, RProbeBreaks, RRouteFails, RolledBack,
                            RRestoreFails, CommandFails, serverVars
  <1>3. CASE RProbePasses
    <2>1. /\ r.pc = "remove" /\ r.todo = {} /\ ctr' = Proven(TargetWeb)
          /\ RGoto("route", {}) /\ UNCHANGED <<route, st>>
          /\ \A c \in TargetWeb : Running(c)
      BY <1>3 DEF RProbePasses, RAt
    <2>2. \A c \in Name : Running(c) => ctr'[c] \in {"started", "healthy"}
      BY <2>1 DEF Proven, Running
    <2>3. \A c \in Name : ctr'[c] # "absent" => ctr[c] # "absent"
      BY <2>1 DEF Proven, Running
    <2>4. CommittedWeb' = CommittedWeb /\ CommittedWeb \subseteq Name
      BY <2>1, WebNamesAreWeb DEF CommittedWeb
    <2>5. Sound
      BY <1>i, <1>t, <2>1, <2>2, <2>3, <2>4 DEF RoutedRuns, Running, Present
    <2>6. RollbackRoutes'
      BY <1>g, <1>i, <1>t, <2>1, <2>2, <2>3 DEF RollbackRoutes, RLabels, Running, Present
    <2> QED
      BY <2>5, <2>6
  <1>4. CASE RProbeFails
    <2>1. r.pc = "remove" /\ RGoto("undo", r.started) /\ UNCHANGED <<ctr, route, st>>
      BY <1>4 DEF RProbeFails, RAt, serverVars
    <2>2. RollbackRoutes'
      BY <1>g, <1>i, <2>1 DEF RollbackRoutes, RLabels
    <2> QED
      BY <1>u, <2>1, <2>2
  <1>5. CASE RRoute
    <2>1. r.pc = "route" /\ route' = TargetWeb /\ RGoto("commit", {}) /\ UNCHANGED <<ctr, st>>
      BY <1>5 DEF RRoute
    <2>2. Sound
      BY <1>i, <1>w, <2>1 DEF RoutedRuns, CommittedWeb, Present, Running, RollbackRoutes
    <2>3. RollbackRoutes'
      BY <1>g, <1>i, <1>w, <2>1 DEF RollbackRoutes, RLabels, Running, Present
    <2> QED
      BY <2>2, <2>3
  <1>6. CASE RCommit
    <2>1. /\ r.pc = "commit" /\ st'.cur = r.target /\ UNCHANGED <<ctr, route>>
          /\ RGoto("stopold", {c \in r.live : c.ver = r.cur.cur})
      BY <1>6 DEF RCommit
    <2>2. CommittedWeb' \subseteq Name /\ \A c \in CommittedWeb' : c.ver = r.target
      BY <2>1, WebNamesAreWeb DEF CommittedWeb
    <2>3. Sound
      BY <1>i, <2>1, <2>2 DEF RoutedRuns, Present, Running, RollbackRoutes
    <2>4. RollbackRoutes'
      BY <1>g, <1>i, <2>1 DEF RollbackRoutes, RLabels
    <2> QED
      BY <2>3, <2>4
  <1>7. CASE RCommitFails
    <2>1. r.pc = "commit" /\ UNCHANGED <<ctr, route, st>> /\ RGoto("restore", {})
      BY <1>7 DEF RCommitFails, CommandFails
    <2>2. RollbackRoutes'
      BY <1>g, <1>i, <2>1 DEF RollbackRoutes, RLabels, Running
    <2> QED
      BY <1>u, <2>1, <2>2
  <1>8. CASE RRestore
    <2>1. /\ r.pc = "restore" /\ route' = OriginalWeb /\ RGoto("discard", r.started)
          /\ UNCHANGED <<ctr, st>>
      BY <1>8 DEF RRestore
    <2>2. Sound
      BY <1>i, <1>w, <2>1 DEF RoutedRuns, CommittedWeb, Present, Running, RollbackRoutes
    <2>3. RollbackRoutes'
      BY <1>g, <1>i, <1>w, <2>1 DEF RollbackRoutes, RLabels
    <2> QED
      BY <2>2, <2>3
  <1>9. CASE RUndone
    <2>1. r.pc = "undo" /\ RGoto("undoremove", r.displaced) /\ UNCHANGED <<ctr, route, st>>
      BY <1>9 DEF RUndone, RAt, serverVars
    <2>2. RollbackRoutes'
      BY <1>g, <1>i, <2>1 DEF RollbackRoutes, RLabels
    <2> QED
      BY <1>u, <2>1, <2>2
  <1>10. ASSUME NEW c \in r.todo,
                \/ RemoveTarget(c) \/ RemoveTargetFails(c) \/ RunTarget(c) \/ RunTargetFails(c)
         PROVE  Goal
    <2>1. r.pc \in {"remove", "rerun"} /\ UNCHANGED <<route, st>> /\ c \in Name
      BY <1>t, <1>10 DEF RemoveTarget, RemoveTargetFails, RunTarget, RunTargetFails, RLoop
    <2>2. /\ c.ver = r.target /\ c.ver # st.cur /\ c \notin route /\ c \notin r.started
          /\ c.ver # r.cur.cur
      BY <1>i, <2>1 DEF RollbackRoutes
    <2>3. StopRemoveSucceeds(c) \/ CommandFails \/ UNCHANGED ctr \/ RecreateSucceeds(c)
          \/ RecreateFails(c)
      BY <1>10 DEF RemoveTarget, RemoveTargetFails, RunTarget, RunTargetFails, Removed,
                   StopRemoveSucceeds
    <2>4. \A x \in Name \ {c} : ctr'[x] = ctr[x]
      BY <1>t, <2>1, <2>3, OneChanges
    <2>5. Sound
      BY <1>i, <2>1, <2>2, <2>4, RoutedUntouched
    <2>6. CASE RemoveTargetFails(c) \/ RunTargetFails(c)
      BY <1>e, <2>5, <2>6 DEF RemoveTargetFails, RunTargetFails
    <2>7. CASE RemoveTarget(c)
      <3>1. /\ r'.pc = "rerun" /\ r'.todo = r.todo /\ r'.target = r.target
            /\ r'.cur = r.cur /\ r'.started = r.started /\ r'.displaced = r.displaced
            /\ r'.live = r.live
        BY <1>t, <2>7 DEF RemoveTarget, ARollback, RLabels
      <3>2. RollbackRoutes'
        BY <1>i, <1>t, <2>1, <2>2, <2>4, <3>1 DEF RollbackRoutes, Present, Running
      <3> QED
        BY <2>5, <3>2
    <2>8. CASE RunTarget(c)
      <3>1. /\ r'.pc = "remove" /\ r'.todo = r.todo \ {c} /\ r'.target = r.target
            /\ r'.cur = r.cur /\ r'.started = r.started \cup {c} /\ r'.displaced = r.displaced
            /\ r'.live = r.live
        BY <1>t, <2>8 DEF RunTarget, ARollback, RLabels
      <3>2. ctr'[c] = "started"
        BY <1>t, <2>1, <2>8 DEF RunTarget, RecreateSucceeds, RunSucceeds
      <3>3. \A x \in r'.started : ctr'[x] \in {"started", "healthy"}
        BY <1>i, <1>t, <2>1, <2>4, <3>1, <3>2 DEF RollbackRoutes, Running
      <3>4. \A x \in r'.live : x.ver = r'.cur.cur => ctr'[x] \in {"started", "healthy"}
        BY <1>i, <1>t, <2>1, <2>2, <2>4, <3>1 DEF RollbackRoutes, Running
      <3>5. \A x \in Name : x.ver = r'.target /\ ctr'[x] # "absent" =>
                x \in r'.started \/ x \in r'.todo
        BY <1>i, <2>1, <2>4, <3>1 DEF RollbackRoutes, Present
      <3>6. RollbackRoutes'
        BY <1>i, <2>1, <2>2, <3>1, <3>3, <3>4, <3>5 DEF RollbackRoutes, Running, Present
      <3> QED
        BY <2>5, <3>6
    <2> QED
      BY <1>10, <2>6, <2>7, <2>8
  <1>11. ASSUME NEW c \in r.todo, RStopOld(c) \/ RDiscard(c) PROVE Goal
    <2>1. r.pc \in {"stopold", "undo", "discard"} /\ UNCHANGED <<route, st>> /\ c \in Name
          /\ RDone(c)
      BY <1>t, <1>11 DEF RStopOld, RDiscard, RLoop
    <2>2. c.ver # st.cur /\ c \notin route
      BY <1>i, <2>1 DEF RollbackRoutes
    <2>3. StopSucceeds(c) \/ CommandFails
      BY <1>11 DEF RStopOld, RDiscard
    <2>4. \A x \in Name \ {c} : ctr'[x] = ctr[x]
      BY <1>t, <2>1, <2>3, OneChanges
    <2>5. Sound
      BY <1>i, <2>1, <2>2, <2>4, RoutedUntouched
    <2>6. RollbackRoutes'
      BY <1>d, <1>i, <2>1 DEF RollbackRoutes
    <2> QED
      BY <2>5, <2>6
  <1>12. CASE RDisplaced
    BY <1>12, <1>i DEF RDisplaced, RAt, RollbackRoutes
  <1>13. ASSUME NEW c \in r.todo,
                RDisplace(c) \/ RDisplaceFails(c) \/ UndoRemove(c) \/ UndoRerun(c)
         PROVE  Goal
    BY <1>13, <1>i DEF RDisplace, RDisplaceFails, UndoRemove, UndoRerun, RLoop, RollbackRoutes
  <1> QED
    BY <1>1, <1>2, <1>3, <1>4, <1>5, <1>6, <1>7, <1>8, <1>9, <1>10, <1>11, <1>12, <1>13
       DEF RollbackStep
\* The steps after which a deploy is past its commit, or undoing it.
LEMMA DeployLabels ==
  ASSUME Typed, DeployNext
  PROVE  \/ Commit /\ d'.pc = "stopold"
         \/ PruneLists /\ d'.pc = "prune"
         \/ CommitFails /\ d'.pc \in {"restore", "hstop", "cleanup"}
            /\ (ingress # "caddy" => d'.pc # "restore")
         \/ d'.pc = d.pc /\ \E c \in d.todo : StopOld(c) \/ Prune(c)
         \/ d'.pc \notin {"stopold", "prune", "restore"}
  <1> DEFINE Other == d'.pc \notin {"stopold", "prune", "restore"}
  <1>t. d \in ADeploy
    BY TypedMeans
  <1>g. ASSUME NEW l, NEW C, Goto(l, C) PROVE d'.pc = l
    BY <1>t, <1>g DEF Goto, ADeploy
  <1>d. \A c : Done(c) => d'.pc = d.pc
    BY <1>t DEF Done, ADeploy
  <1>e. EndDeploy => d'.pc = "idle"
    BY DEF EndDeploy, NoDeploy
  <1>1. ASSUME NEW v \in Versions, NEW n \in Replicas, NEW W \in SUBSET Workers,
               DeployBegins(v, n, W)
        PROVE  Other
    BY <1>1, NoCommandTypes DEF DeployBegins, ADeploy
  <1>2. CASE DeployDies
    BY <1>2, <1>e DEF DeployDies
  <1>3. ASSUME NEW c \in d.todo,
               \/ PutAside(c) \/ RunWebFails(c) \/ RunWorkerFails(c) \/ CleanUp(c)
               \/ HostStop(c) \/ HostStart(c) \/ HostDiscard(c)
        PROVE  Other
    <2>1. \/ d.pc \in {"aside", "plain", "cleanup", "hstop", "hstart", "hremove"} /\ Done(c)
          \/ EndDeploy \/ Goto("cleanup", d.started)
      BY <1>3 DEF PutAside, RunWebFails, RunWorkerFails, CleanUp, HostStop, HostStart, HostDiscard,
                  Loop
    <2> QED
      BY <1>d, <1>e, <1>g, <2>1
  <1>4. ASSUME NEW c \in d.todo, Displace(c) \/ RunContainer(c) PROVE Other
    BY <1>t, <1>4 DEF Displace, RunContainer, ADeploy, Loop
  <1>5. ASSUME NEW c \in d.todo, StopOld(c) \/ Prune(c) PROVE d'.pc = d.pc
    BY <1>5, <1>d DEF StopOld, Prune
  <1>6. ASSUME NEW c \in d.todo, HostRemove(c) \/ HostRerun(c) PROVE Other
    <2>1. \/ d' = [d EXCEPT !.pc = "hrerun", !.at = {c}]
          \/ Goto("hstart", d.started) \/ Goto("hrestore", d.todo \ {c})
      BY <1>6 DEF HostRemove, HostRerun
    <2>2. d' = [d EXCEPT !.pc = "hrerun", !.at = {c}] => d'.pc = "hrerun"
      BY <1>t DEF ADeploy
    <2> QED
      BY <1>g, <2>1, <2>2
  <1>7. CASE ReadState
    <2>1. CASE Goto("ready", {})
      BY <1>g, <2>1
    <2>2. CASE d' = [d EXCEPT !.cur = st, !.pc = IF st.cur = d.ver THEN "aside" ELSE "ready",
                              !.todo = IF st.cur = d.ver THEN NewWeb \cup NewWorkers ELSE {}]
      BY <1>t, <2>2 DEF ADeploy
    <2> QED
      BY <1>7, <2>1, <2>2 DEF ReadState
  <1>8. CASE PrepareFails \/ DisplaceFails \/ CleanedUp \/ Deployed \/ RestoreRouteFails \/ Aborted
    BY <1>8, <1>e DEF PrepareFails, DisplaceFails, CleanedUp, Deployed, RestoreRouteFails, Aborted
  <1>9. CASE Commit
    BY <1>9, <1>g DEF Commit
  <1>10. CASE CommitFails
    <2>1. ingress \in {"caddy", "host", "external"}
      BY ServerAssumption DEF Typed, TypeOK, ServerTypeOK
    <2>2. CASE ingress = "caddy"
      <3>1. Goto("restore", {})
        BY <1>10, <2>2 DEF CommitFails
      <3> QED
        BY <1>10, <1>g, <2>2, <3>1
    <2>3. CASE ingress # "caddy"
      <3>1. Goto("hstop", d.started) \/ Goto("cleanup", d.started)
        BY <1>10, <2>1, <2>3 DEF CommitFails
      <3> QED
        BY <1>10, <1>g, <2>3, <3>1
    <2> QED
      BY <2>2, <2>3
  <1>11. CASE PruneLists
    <2>1. PICK C : Goto("prune", C)
      BY <1>11 DEF PruneLists
    <2> QED
      BY <1>11, <1>g, <2>1
  <1>12. CASE \/ PlainNames \/ ListHostWeb \/ StartWebs \/ ProbePasses \/ ProbeFails
              \/ HostStopped \/ HostRestored
    <2>1. PICK l, C : Goto(l, C) /\ l \in {"plain", "displace", "web", "work", "cleanup", "hrestore", "hremove"}
      BY <1>12 DEF PlainNames, ListHostWeb, StartWebs, ProbePasses, ProbeFails, HostStopped,
                   HostRestored
    <2> QED
      BY <1>g, <2>1
  <1>13. CASE Route \/ RestoreRoute
    <2>1. Goto("commit", {}) \/ Goto("cleanup", d.started)
      BY SMTT(40), <1>13 DEF Route, RestoreRoute
    <2> QED
      BY <1>g, <2>1
  <1> QED
    BY <1>1, <1>2, <1>3, <1>4, <1>5, <1>6, <1>7, <1>8, <1>9, <1>10, <1>11, <1>12, <1>13
       DEF DeployNext, DeployStep

\* Only two steps of a deploy set the route.
LEMMA DeployRouteSteps == DeployNext => UNCHANGED route \/ Route \/ RestoreRoute
  BY DEF DeployNext, DeployStep, DeployBegins, DeployDies, ReadState, PrepareFails, PlainNames,
         ListHostWeb, DisplaceFails, StartWebs, ProbePasses, ProbeFails, CleanedUp, Commit,
         CommitFails, PruneLists, Deployed, RestoreRouteFails, HostStopped, HostRestored, Aborted,
         PutAside, Displace, RunContainer, RunWebFails, RunWorkerFails, CleanUp, StopOld, Prune,
         HostStop, HostRemove, HostRerun, HostStart, HostDiscard, serverVars

\* Under the other ingress modes there is no route in Caddy.
LEMMA NoRouteElsewhere ==
  ASSUME Typed, ingress # "caddy", route = {}, d.pc # "restore", r.pc \notin {"route", "restore"}
  PROVE  /\ DeployNext => route' = {} /\ d'.pc # "restore"
         /\ RollbackNext => route' = {} /\ r'.pc \notin {"route", "restore"}
  <1>t. r \in ARollback
    BY TypedMeans
  <1>1. ASSUME DeployNext PROVE route' = {} /\ d'.pc # "restore"
    <2>1. d'.pc # "restore"
      BY <1>1, DeployLabels
    <2>2. ~Route /\ ~RestoreRoute
      BY DEF Route, RestoreRoute
    <2> QED
      BY <1>1, <2>1, <2>2, DeployRouteSteps
  <1>2. ASSUME RollbackNext PROVE route' = {} /\ r'.pc \notin {"route", "restore"}
    <2>g. ASSUME NEW l, NEW C, RGoto(l, C) PROVE r'.pc = l
      BY <1>t, <2>g DEF RGoto, ARollback
    <2>d. \A c : RDone(c) => r'.pc = r.pc
      BY <1>t DEF RDone, ARollback
    <2>e. EndRollback => r'.pc = "idle"
      BY DEF EndRollback, NoRollback
    <2>1. ASSUME NEW t \in Versions, RollbackBegins(t)
          PROVE  route' = {} /\ r'.pc \notin {"route", "restore"}
      BY <2>1, NoCommandTypes DEF RollbackBegins, ARollback
    <2>2. CASE RollbackDies
      BY <2>2, <2>e DEF RollbackDies
    <2>3. ASSUME NEW c \in r.todo,
                 \/ RDisplace(c) \/ RDisplaceFails(c) \/ RemoveTarget(c) \/ RemoveTargetFails(c)
                 \/ RunTarget(c) \/ RunTargetFails(c) \/ RStopOld(c) \/ RDiscard(c)
                 \/ UndoRemove(c) \/ UndoRerun(c)
          PROVE  route' = {} /\ r'.pc \notin {"route", "restore"}
      <3>1. CASE RDisplace(c) \/ RemoveTarget(c) \/ RunTarget(c) \/ UndoRerun(c)
        BY <1>t, <3>1 DEF RDisplace, RemoveTarget, RunTarget, UndoRerun, ARollback
      <3>2. CASE RDisplaceFails(c) \/ RemoveTargetFails(c) \/ RunTargetFails(c)
        BY <2>e, <3>2 DEF RDisplaceFails, RemoveTargetFails, RunTargetFails
      <3>3. CASE RStopOld(c) \/ RDiscard(c)
        BY <2>d, <3>3 DEF RStopOld, RDiscard
      <3>4. CASE UndoRemove(c)
        <4>1. r' = [r EXCEPT !.pc = "undorerun", !.at = {c}] \/ RDone(c)
          BY <3>4 DEF UndoRemove
        <4>2. r' = [r EXCEPT !.pc = "undorerun", !.at = {c}] => r'.pc = "undorerun"
          BY <1>t DEF ARollback
        <4> QED
          BY <2>d, <3>4, <4>1, <4>2 DEF UndoRemove
      <3> QED
        BY <2>3, <3>1, <3>2, <3>3, <3>4
    <2>4. CASE ListContainers
      <3>1. r'.pc \in {"displace", "remove"}
        BY <1>t, <2>4 DEF ListContainers, ARollback
      <3> QED
        BY <2>4, <3>1 DEF ListContainers, serverVars
    <2>5. CASE ListFails \/ NoTarget \/ RProbeBreaks \/ RRouteFails \/ RolledBack \/ RRestoreFails
      BY <2>5, <2>e DEF ListFails, NoTarget, RProbeBreaks, RRouteFails, RolledBack, RRestoreFails,
                        serverVars
    <2>6. CASE RDisplaced \/ RProbePasses \/ RProbeFails \/ RCommit \/ RCommitFails \/ RUndone
      BY <2>6, <2>g DEF RDisplaced, RProbePasses, RProbeFails, RCommit, RCommitFails, RUndone,
                        serverVars
    <2>7. CASE RRoute \/ RRestore
      BY <2>7 DEF RRoute, RRestore
    <2> QED
      BY <1>2, <2>1, <2>2, <2>3, <2>4, <2>5, <2>6, <2>7 DEF RollbackNext, RollbackStep
  <1> QED
    BY <1>1, <1>2

LEMMA NextRoutes ==
  ASSUME Typed, Needed \subseteq habits, RouteInv, [OpsNext]_vars
  PROVE  RouteInv'
  <1>t. d \in ADeploy /\ r \in ARollback /\ route \subseteq Name
    BY TypedMeans
  <1>1. CASE UNCHANGED vars
    BY <1>1 DEF vars, serverVars, RouteInv, Alone, RoutedRuns, CommittedWeb, DeployRoutes,
                RollbackRoutes, Running, Present, NewWeb
  <1>2. CASE OpsNext /\ ~UNCHANGED vars
    <2>1. Alone' /\ UNCHANGED <<ingress, habits>>
      BY <1>2 DEF OpsNext, Next, Rest, AsUsual, Needed
    <2>2. CASE ingress # "caddy"
      BY <1>2, <2>1, <2>2, NoRouteElsewhere DEF RouteInv, OpsNext, Next, Rest, RoutedRuns
    <2>3. CASE ingress = "caddy"
      <3> DEFINE Sound == RoutedRuns' /\ \A c \in CommittedWeb' : Present(c)' => Running(c)'
      <3>u. UNCHANGED <<ctr, route, st>> => Sound
        BY <2>3 DEF RouteInv, RoutedRuns, CommittedWeb, Present, Running
      <3>1. CASE DeployNext /\ UNCHANGED <<r, ingress, habits>>
        <4>1. r.pc = "idle" \/ d.pc = "idle"
          BY DEF RouteInv, Alone
        <4>2. CASE DeployStep
          <5>1. d.pc # "idle"
            BY <4>2 DEF DeployStep, ReadState, PrepareFails, PlainNames, ListHostWeb, DisplaceFails,
                   StartWebs, ProbePasses, ProbeFails, CleanedUp, Route, Commit, CommitFails,
                   PruneLists, Deployed, RestoreRoute, RestoreRouteFails, HostStopped, HostRestored,
                   Aborted, PutAside, Displace, RunContainer, RunWebFails, RunWorkerFails, CleanUp,
                   StopOld, Prune, HostStop, HostRemove, HostRerun, HostStart, HostDiscard, At, Loop,
                   Ready, Routed
          <5>2. r'.pc = "idle"
            BY <3>1, <4>1, <5>1
          <5> QED
            BY SMTT(40), <2>1, <2>3, <4>2, <5>1, <5>2, DeployKeepsRoutes DEF RouteInv
        <4>3. CASE DeployDies
          <5>1. d'.pc = "idle" /\ r'.pc = "idle" /\ UNCHANGED <<ctr, route, st>>
            BY <3>1, <4>1, <4>3 DEF DeployDies, EndDeploy, NoDeploy
          <5> QED
            BY <2>1, <2>3, <3>u, <5>1 DEF RouteInv
        <4>4. ASSUME NEW v \in Versions, NEW n \in Replicas, NEW W \in SUBSET Workers,
                     DeployBegins(v, n, W)
              PROVE  RouteInv'
          <5>1. /\ d.pc = "idle" /\ UNCHANGED <<ctr, route, st>>
                /\ d' = [NoDeploy EXCEPT !.pc = "read", !.ver = v, !.reps = n, !.workers = W]
            BY <4>4 DEF DeployBegins
          <5>2. /\ d'.pc = "read" /\ d'.ver = v /\ d'.cur = NoState /\ d'.started = {}
            BY <5>1, NoCommandTypes DEF ADeploy, NoDeploy
          <5>3. st.cur # v
            BY <1>2, <5>1, <5>2 DEF OpsNext, AsUsual, Needed, DeployBeginning
          <5>4. r'.pc = "idle"
            BY <2>1, <5>2 DEF Alone
          <5>5. v # NoVersion
            BY ServerAssumption
          <5>6. DeployRoutes'
            BY <5>1, <5>2, <5>3, <5>5 DEF DeployRoutes, HostLabels, NoState
          <5> QED
            BY <2>1, <2>3, <3>u, <5>1, <5>4, <5>6 DEF RouteInv
        <4> QED
          BY <3>1, <4>2, <4>3, <4>4 DEF DeployNext
      <3>2. CASE RollbackNext /\ UNCHANGED <<d, ingress, habits>>
        <4>1. r.pc = "idle" \/ d.pc = "idle"
          BY DEF RouteInv, Alone
        <4>2. CASE RollbackStep
          <5>1. r.pc # "idle"
            BY <4>2 DEF RollbackStep, ListContainers, ListFails, RDisplaced, NoTarget, RProbePasses,
                   RProbeBreaks, RProbeFails, RRoute, RRouteFails, RCommit, RCommitFails, RolledBack,
                   RRestore, RRestoreFails, RUndone, RDisplace, RDisplaceFails, RemoveTarget,
                   RemoveTargetFails, RunTarget, RunTargetFails, RStopOld, RDiscard, UndoRemove,
                   UndoRerun, RAt, RLoop
          <5>2. d'.pc = "idle"
            BY <3>2, <4>1, <5>1
          <5> QED
            BY SMTT(40), <2>1, <2>3, <4>2, <5>1, <5>2, RollbackKeepsRoutes DEF RouteInv
        <4>3. CASE RollbackDies
          <5>1. d'.pc = "idle" /\ r'.pc = "idle" /\ UNCHANGED <<ctr, route, st>>
            BY <3>2, <4>1, <4>3 DEF RollbackDies, EndRollback, NoRollback
          <5> QED
            BY <2>1, <2>3, <3>u, <5>1 DEF RouteInv
        <4>4. ASSUME NEW t \in Versions, RollbackBegins(t) PROVE RouteInv'
          <5>1. /\ r.pc = "idle" /\ UNCHANGED <<ctr, route, st>> /\ t # st.cur
                /\ r' = [NoRollback EXCEPT !.pc = "list", !.target = t, !.cur = st]
            BY <4>4 DEF RollbackBegins
          <5>2. /\ r'.pc = "list" /\ r'.target = t /\ r'.cur = st /\ r'.started = {}
                /\ r'.displaced = {}
            <6>1. NoRollback \in ARollback /\ NoRollback.started = {} /\ NoRollback.displaced = {}
              BY NoCommandTypes DEF NoRollback
            <6> QED
              BY <5>1, <6>1 DEF ARollback
          <5>3. \A c \in Name : c.ver = t => ~Running(c)
            BY <1>2, <5>1, <5>2 DEF OpsNext, AsUsual, Needed, RollbackBeginning
          <5>4. d'.pc = "idle"
            BY <2>1, <5>2 DEF Alone
          <5>5. \A c \in route : c.ver # t
            BY <1>t, <5>3 DEF RouteInv, RoutedRuns
          <5>6. RollbackRoutes'
            BY <5>1, <5>2, <5>3, <5>5 DEF RollbackRoutes, Running
          <5> QED
            BY <2>1, <2>3, <3>u, <5>1, <5>4, <5>6 DEF RouteInv
        <4> QED
          BY <3>2, <4>2, <4>3, <4>4 DEF RollbackNext
      <3> QED
        BY <1>2, <3>1, <3>2 DEF OpsNext, Next, Rest
    <2> QED
      BY <2>2, <2>3
  <1> QED
    BY <1>1, <1>2

\* As long as no rollback runs beside a deploy, no deploy is of the current
\* version and no rollback is to a version that still runs, the route never
\* names a container that is stopped or removed: whichever commands fail, and
\* wherever processes die.
THEOREM RouteAlwaysRuns == Spec => [](Needed \subseteq habits => RoutedRuns)
  <1> DEFINE Inv == Needed \subseteq habits => RouteInv
  <1>1. Init => Inv
    BY InitRoutes
  <1>2. Typed /\ Inv /\ [OpsNext]_vars => Inv'
    <2> SUFFICES ASSUME Typed, Inv, [OpsNext]_vars, Needed \subseteq habits'
                 PROVE  RouteInv'
      OBVIOUS
    <2>1. UNCHANGED habits
      BY DEF OpsNext, Next, Rest, vars
    <2> QED
      BY <2>1, NextRoutes
  <1>3. Inv => (Needed \subseteq habits => RoutedRuns)
    BY DEF RouteInv
  <1> QED
    BY <1>1, <1>2, <1>3, InitTyped, NextTyped, PTL DEF Spec
-----------------------------------------------------------------------------
(* Pruning.                                                                *)

\* A step spends one of the budget or none of it.
SpendsOne == UNCHANGED budget \/ \E k \in {"ops", "faults", "crashes"} : Spend(k)

LEMMA CommandsSpend ==
  ASSUME NEW c,
         \/ RunSucceeds(c) \/ RunNot(c) \/ RecreateSucceeds(c) \/ RecreateFails(c)
         \/ StopSucceeds(c) \/ StopRemoveSucceeds(c) \/ StopRemoveFails(c) \/ CommandFails
  PROVE  SpendsOne
  BY DEF SpendsOne, RunSucceeds, RunNot, RunRefused, RunFails, RecreateSucceeds, RecreateFails,
         StopSucceeds, StopRemoveSucceeds, StopRemoveFails, CommandFails

LEMMA DeploySpends == DeployNext => SpendsOne
  <1> SUFFICES ASSUME DeployNext PROVE SpendsOne
    OBVIOUS
  <1>1. ASSUME NEW v \in Versions, NEW n \in Replicas, NEW W \in SUBSET Workers,
               DeployBegins(v, n, W)
        PROVE  SpendsOne
    BY <1>1 DEF DeployBegins, SpendsOne
  <1>2. CASE \/ ReadState \/ PlainNames \/ ListHostWeb \/ StartWebs \/ ProbePasses \/ ProbeFails
             \/ CleanedUp \/ Route \/ Commit \/ CommitFails \/ PruneLists \/ Deployed
             \/ RestoreRoute \/ RestoreRouteFails \/ HostStopped \/ HostRestored \/ Aborted
             \/ DeployDies
    BY <1>2 DEF ReadState, PlainNames, ListHostWeb, StartWebs, ProbePasses, ProbeFails, CleanedUp,
                Route, Commit, CommitFails, PruneLists, Deployed, RestoreRoute, RestoreRouteFails,
                HostStopped, HostRestored, Aborted, DeployDies, SpendsOne, serverVars
  <1>3. CASE PrepareFails \/ DisplaceFails
    BY <1>3 DEF PrepareFails, DisplaceFails, CommandFails, SpendsOne
  <1>4. ASSUME NEW c \in d.todo,
               \/ PutAside(c) \/ Displace(c) \/ RunContainer(c) \/ RunWebFails(c)
               \/ RunWorkerFails(c) \/ CleanUp(c) \/ StopOld(c)
        PROVE  SpendsOne
    <2>1. \/ UNCHANGED budget \/ Spend("faults") \/ RunSucceeds(c) \/ RunNot(c) \/ StopSucceeds(c)
          \/ StopRemoveSucceeds(c) \/ StopRemoveFails(c) \/ CommandFails
      BY <1>4 DEF PutAside, Displace, RunContainer, RunWebFails, RunWorkerFails, CleanUp, StopOld
    <2> QED
      BY <2>1, CommandsSpend DEF SpendsOne
  <1>5. ASSUME NEW c \in d.todo,
               \/ Prune(c) \/ HostStop(c) \/ HostRemove(c) \/ HostRerun(c) \/ HostStart(c)
               \/ HostDiscard(c)
        PROVE  SpendsOne
    <2>1. \/ UNCHANGED budget \/ RecreateSucceeds(c) \/ RecreateFails(c) \/ StopSucceeds(c)
          \/ CommandFails
      BY <1>5 DEF Prune, HostStop, HostRemove, HostRerun, HostStart, HostDiscard
    <2> QED
      BY <2>1, CommandsSpend DEF SpendsOne
  <1> QED
    BY <1>1, <1>2, <1>3, <1>4, <1>5 DEF DeployNext, DeployStep

LEMMA RollbackSpends == RollbackNext => SpendsOne
  <1> SUFFICES ASSUME RollbackNext PROVE SpendsOne
    OBVIOUS
  <1>1. ASSUME NEW t \in Versions, RollbackBegins(t) PROVE SpendsOne
    BY <1>1 DEF RollbackBegins, SpendsOne
  <1>2. CASE \/ ListContainers \/ RDisplaced \/ NoTarget \/ RProbePasses \/ RProbeFails \/ RRoute
             \/ RCommit \/ RolledBack \/ RRestore \/ RUndone \/ RollbackDies
    BY <1>2 DEF ListContainers, RDisplaced, NoTarget, RProbePasses, RProbeFails, RRoute, RCommit,
                RolledBack, RRestore, RUndone, RollbackDies, SpendsOne, serverVars
  <1>3. CASE ListFails \/ RProbeBreaks \/ RRouteFails \/ RCommitFails \/ RRestoreFails
    BY <1>3 DEF ListFails, RProbeBreaks, RRouteFails, RCommitFails, RRestoreFails, CommandFails,
                SpendsOne
  <1>4. ASSUME NEW c \in r.todo,
               \/ RDisplace(c) \/ RDisplaceFails(c) \/ RemoveTarget(c) \/ RemoveTargetFails(c)
               \/ RunTarget(c) \/ RunTargetFails(c) \/ RStopOld(c) \/ RDiscard(c)
               \/ UndoRemove(c) \/ UndoRerun(c)
        PROVE  SpendsOne
    <2>1. \/ UNCHANGED budget \/ RecreateSucceeds(c) \/ RecreateFails(c) \/ StopSucceeds(c)
          \/ CommandFails
      BY <1>4 DEF RDisplace, RDisplaceFails, RemoveTarget, RemoveTargetFails, RunTarget,
                  RunTargetFails, RStopOld, RDiscard, UndoRemove, UndoRerun
    <2> QED
      BY <2>1, CommandsSpend DEF SpendsOne
  <1> QED
    BY <1>1, <1>2, <1>3, <1>4 DEF RollbackNext, RollbackStep

\* What has failed has failed: commands do not un-fail.
Bounded == budget.faults <= MaxFaults /\ budget.crashes <= MaxCrashes

LEMMA NextBounded ==
  ASSUME Typed, Bounded, [OpsNext]_vars
  PROVE  /\ Bounded'
         /\ budget'.faults <= budget.faults /\ budget'.crashes <= budget.crashes
         /\ Spend("faults") => budget'.faults # MaxFaults
  <1>t. /\ budget \in [{"ops", "faults", "crashes"} -> Nat]
        /\ budget.faults \in Nat /\ budget.crashes \in Nat
        /\ MaxFaults \in Nat /\ MaxCrashes \in Nat
    BY TypedMeans, ServerAssumption
  <1>1. SpendsOne
    BY DeploySpends, RollbackSpends DEF OpsNext, Next, Rest, vars, serverVars, SpendsOne
  <1>2. CASE UNCHANGED budget
    BY <1>t, <1>2 DEF Bounded, Spend
  <1>3. ASSUME NEW k \in {"ops", "faults", "crashes"}, Spend(k)
        PROVE  /\ budget'.faults \in {budget.faults, budget.faults - 1}
               /\ budget'.crashes \in {budget.crashes, budget.crashes - 1}
    BY <1>t, <1>3 DEF Spend
  <1>4. Spend("faults") => budget'.faults = budget.faults - 1
    BY <1>t DEF Spend
  <1> QED
    BY <1>1, <1>2, <1>3, <1>4, <1>t DEF Bounded, SpendsOne

\* A deploy past its commit finds its version the current one and the one it
\* replaced the previous one, and its list of what to prune has neither.
PruneInv ==
    /\ Alone
    /\ d.pc \in {"stopold", "prune"} => st.cur = d.ver /\ st.prev = d.cur.cur
    /\ d.pc = "prune" => \A c \in d.todo :
            c.ver \notin {d.ver, d.cur.cur} /\ (budget.faults = MaxFaults => c.ver \notin Pins)

LEMMA InitPrune == Init => PruneInv /\ Bounded
  BY ServerAssumption DEF Init, ServerInit, DeployInit, RollbackInit, NoDeploy, NoRollback, PruneInv,
                          Bounded, Alone

LEMMA NextPrune ==
  ASSUME Typed, Bounded, PruneInv, [OpsNext]_vars, "alone" \in habits
  PROVE  PruneInv'
  <1>t. d \in ADeploy /\ d.ver \in Versions \cup {NoVersion} /\ NoVersion \notin Versions
    BY TypedMeans, ServerAssumption DEF ADeploy
  <1>1. CASE UNCHANGED vars
    BY <1>1 DEF vars, serverVars, PruneInv, Alone
  <1>2. CASE OpsNext /\ RollbackNext /\ UNCHANGED <<d, ingress, habits>>
    <2>1. Alone'
      BY <1>2 DEF OpsNext, AsUsual
    <2>2. r'.pc # "idle" \/ r.pc # "idle"
      <3>1. ASSUME NEW t \in Versions, RollbackBegins(t) PROVE r'.pc # "idle"
        BY SMTT(40), <3>1, NoCommandTypes DEF RollbackBegins, ARollback
      <3>2. RollbackStep \/ RollbackDies => r.pc # "idle"
        BY DEF RollbackDies, RollbackStep, ListContainers, ListFails, RDisplaced, NoTarget,
               RProbePasses, RProbeBreaks, RProbeFails, RRoute, RRouteFails, RCommit, RCommitFails,
               RolledBack, RRestore, RRestoreFails, RUndone, RDisplace, RDisplaceFails, RemoveTarget,
               RemoveTargetFails, RunTarget, RunTargetFails, RStopOld, RDiscard, UndoRemove,
               UndoRerun, RAt, RLoop
      <3> QED
        BY <1>2, <3>1, <3>2 DEF RollbackNext
    <2>3. d'.pc = "idle"
      BY <1>2, <2>1, <2>2 DEF PruneInv, Alone
    <2> QED
      BY <2>1, <2>3 DEF PruneInv
  <1>3. CASE OpsNext /\ DeployNext /\ UNCHANGED <<r, ingress, habits>>
    <2>1. Alone'
      BY <1>3 DEF OpsNext, AsUsual
    <2>2. CASE Commit /\ d'.pc = "stopold"
      <3>1. d'.ver = d.ver /\ d'.cur = d.cur
        BY <1>t, <2>2 DEF Commit, Goto, ADeploy
      <3> QED
        BY <2>1, <2>2, <3>1 DEF PruneInv, Commit
    <2>3. CASE PruneLists /\ d'.pc = "prune"
      <3>1. PICK K \in SUBSET PresentVersions :
               \/ Goto("prune", ToPrune(K, ProtectedVersions \cup Pins)) /\ UNCHANGED budget
               \/ Goto("prune", ToPrune(K, ProtectedVersions)) /\ Spend("faults")
        BY <2>3 DEF PruneLists
      <3>2. d'.ver = d.ver /\ d'.cur = d.cur /\ d.pc = "stopold" /\ UNCHANGED st
        BY <1>t, <2>3, <3>1 DEF Goto, ADeploy, PruneLists, At
      <3>3. \/ d'.todo = ToPrune(K, ProtectedVersions \cup Pins)
            \/ d'.todo = ToPrune(K, ProtectedVersions) /\ Spend("faults")
        BY <1>t, <3>1 DEF Goto, ADeploy
      <3>4. \A c \in d'.todo : c.ver \notin {d.ver, d.cur.cur}
        BY <3>3 DEF ToPrune, ProtectedVersions
      <3>5. budget'.faults = MaxFaults => \A c \in d'.todo : c.ver \notin Pins
        BY <3>3, NextBounded DEF ToPrune
      <3> QED
        BY <2>1, <2>3, <3>2, <3>4, <3>5 DEF PruneInv
    <2>4. CASE d'.pc = d.pc /\ \E c \in d.todo : StopOld(c) \/ Prune(c)
      <3>1. PICK c \in d.todo : StopOld(c) \/ Prune(c)
        BY <2>4
      <3>2. /\ d'.todo \subseteq d.todo /\ d'.ver = d.ver /\ d'.cur = d.cur /\ UNCHANGED st
            /\ d.pc \in {"stopold", "prune"}
        BY <1>t, <3>1 DEF StopOld, Prune, Done, ADeploy, Loop
      <3>3. budget'.faults = MaxFaults => budget.faults = MaxFaults
        <4>1. budget.faults \in Nat /\ budget'.faults \in Nat /\ MaxFaults \in Nat
          BY TypedMeans, DeployTyped, <1>3, ServerAssumption
        <4> QED
          BY <4>1, NextBounded DEF Bounded
      <3> QED
        BY <2>1, <2>4, <3>2, <3>3 DEF PruneInv
    <2>5. CASE d'.pc \notin {"stopold", "prune"}
      BY <2>1, <2>5 DEF PruneInv
    <2> QED
      BY <1>3, <2>2, <2>3, <2>4, <2>5, DeployLabels
  <1> QED
    BY <1>1, <1>2, <1>3 DEF OpsNext, Next, Rest

\* Pruning removes no container of the current version, of the version a
\* rollback would go to or, if no command has failed, of a pinned one, in any
\* use but rollbacks beside deploys and whatever else fails or dies.
THEOREM PruneSpares ==
  ASSUME \A h \in Habits : "alone" \in h
  PROVE  Spec => PruneSparesTargets
  <1> DEFINE Inv == Typed /\ Bounded /\ PruneInv
  <1>1. Init => Inv
    BY InitTyped, InitPrune
  <1>2. ASSUME Inv, [OpsNext]_vars PROVE Inv'
    <2>1. "alone" \in habits
      BY <1>2 DEF Typed, TypeOK
    <2> QED
      BY <1>2, <2>1, NextTyped, NextBounded, NextPrune
  <1>3. Inv /\ [OpsNext]_vars =>
            [\A c \in Name : Pruned(c) =>
                /\ c.ver \notin {st.cur, st.prev}
                /\ Clean => c.ver \notin Pins]_vars
    BY DEF Pruned, Prune, Loop, PruneInv, Clean
  <1> QED
    BY <1>1, <1>2, <1>3, PTL DEF Spec, PruneSparesTargets

-----------------------------------------------------------------------------
(* Careful use: something always answers.                                  *)

WebOf(v) == {c \in Name : c.proc = "web" /\ c.ver = v}
Have(v)  == {c \in Name : c.ver = v /\ Present(c)}

Committed == d.pc \in {"stopold", "prune"}

\* A deploy: until it commits nothing it starts, removes or stops is of the
\* current or the previous version, and its replicas are all there is of its
\* version.
CalmDeploy ==
    /\ d.pc \notin HostLabels \cup {"aside", "plain"}
    /\ d.reps \in Replicas /\ d.workers = Workers /\ d.cur.cur # d.ver
    /\ IF Committed THEN st.cur = d.ver
       ELSE d.ver \notin {st.cur, st.prev} /\ d.cur \in {st, NoState}
    /\ d.pc # "read" /\ ~Committed /\ d.cur # st => budget.faults < MaxFaults
    /\ d.pc = "restore" => ingress = "caddy" /\ d.cur = st
    /\ \A c \in d.started : c.ver = d.ver
    /\ d.pc \in {"read", "ready"} => d.started = {}
    /\ d.pc = "web" => d.todo \subseteq NewWeb
    /\ d.pc = "work" => d.todo \subseteq NewWorkers
    /\ d.pc \in {"read", "ready", "web", "work", "commit"} =>
            \A c \in WebOf(d.ver) : Present(c) => c \in NewWeb
    /\ d.pc \in {"work", "commit"} => \A c \in NewWeb : ctr[c] = "healthy"
    /\ d.pc \in {"read", "ready", "web", "work", "cleanup"} => d.started \cap route = {}
    /\ (d.pc \in {"commit", "restore"} \/ Committed) /\ ingress = "caddy" => route = NewWeb
    /\ d.pc = "cleanup" => d.todo \subseteq d.started
    /\ d.pc = "stopold" => \A c \in d.todo : c.ver = d.cur.cur
    /\ d.pc = "prune" => \A c \in d.todo : c.ver # d.ver

\* A rollback: all there is of its target is recreated before the probe.
CalmRollback ==
    /\ r.pc \notin {"displace", "undorerun"} /\ r.displaced = {}
    /\ r.cur.cur # r.target /\ r.target \in Versions
    /\ IF r.pc = "stopold" THEN st.cur = r.target ELSE r.cur = st /\ st.cur # NoVersion
    /\ \A c \in r.started : c.ver = r.target
    /\ r.pc = "list" => r.started = {} /\ r.todo = {}
    /\ r.pc \in {"remove", "rerun", "undo", "discard"} => \A c \in r.todo : c.ver = r.target
    /\ r.pc \in {"remove", "rerun", "route", "commit"} =>
            \A c \in Have(r.target) :
                c \in r.started \/ (r.pc \in {"remove", "rerun"} /\ c \in r.todo)
    /\ r.pc \in {"route", "commit"} =>
            TargetWeb # {} /\ \A c \in TargetWeb : ctr[c] = "healthy"
    /\ r.pc = "undoremove" => r.todo = {}
    /\ r.pc = "stopold" => \A c \in r.todo : c.ver = r.cur.cur
    /\ IF r.pc \in {"commit", "restore", "stopold"} THEN \A c \in route : c.ver = r.target
                                                    ELSE \A c \in route : c.ver # r.target
    /\ r.pc \in {"route", "restore"} => ingress = "caddy"

\* The current version's web containers serve, and there is one; the route
\* leads to containers that serve.
CurrentServes ==
    /\ \A c \in WebOf(st.cur) : Present(c) => ctr[c] = "healthy"
    /\ st.cur # NoVersion => st.reps >= 1 /\ \E c \in WebOf(st.cur) : Present(c)
    /\ \A c \in route : ctr[c] = "healthy"
    /\ ingress = "caddy" /\ st.cur # NoVersion => route # {}
    /\ ingress # "caddy" => route = {}

Lucky == budget.faults >= MaxFaults - 1 /\ budget.crashes >= MaxCrashes - 1

CalmInv ==
    /\ Alone /\ Bounded /\ Lucky /\ CurrentServes
    /\ d.pc # "idle" => CalmDeploy
    /\ r.pc # "idle" => CalmRollback

LEMMA CalmServes == Calm /\ CalmInv /\ Typed => NoOutage
  <1> SUFFICES ASSUME Calm, CalmInv, Typed
               PROVE  /\ st.cur # NoVersion => Serving # {}
                      /\ \A c \in Serving : ctr[c] = "healthy"
    BY DEF NoOutage
  <1>1. CASE ingress = "caddy"
    BY <1>1 DEF CalmInv, CurrentServes, Serving
  <1>2. CASE ingress # "caddy"
    <2>1. Serving = {c \in RunningWeb : ctr[c] = "healthy"}
      BY <1>2 DEF Serving
    <2>2. ASSUME st.cur # NoVersion PROVE Serving # {}
      <3>1. PICK c \in WebOf(st.cur) : Present(c)
        BY <2>2 DEF CalmInv, CurrentServes
      <3>2. ctr[c] = "healthy"
        BY <3>1 DEF CalmInv, CurrentServes
      <3>3. c \in Serving
        BY <2>1, <3>1, <3>2 DEF RunningWeb, WebOf, Running
      <3> QED
        BY <3>3
    <2> QED
      BY <2>1, <2>2
  <1> QED
    BY <1>1, <1>2

LEMMA InitCalm == Init => CalmInv
  <1> SUFFICES ASSUME Init PROVE CalmInv
    OBVIOUS
  <1>1. route = {} /\ d.pc = "idle" /\ r.pc = "idle" /\ st.cur = NoVersion
    BY DEF Init, ServerInit, DeployInit, RollbackInit, NoDeploy, NoRollback, NoState
  <1>2. WebOf(NoVersion) = {}
    BY NameHasVersion, ServerAssumption DEF WebOf
  <1>3. Bounded /\ Lucky
    BY ServerAssumption DEF Init, ServerInit, Bounded, Lucky
  <1> QED
    BY <1>1, <1>2, <1>3 DEF CalmInv, CurrentServes, Alone

LEMMA WebNamesExist ==
  ASSUME NEW v \in Versions, NEW n \in Replicas
  PROVE  /\ WebNames(v, n) # {} /\ n >= 1
         /\ \A c \in WebNames(v, n) : ~c.old
         /\ \A i \in 1..n : ReplicaContainerName("web", v, i, n) \in Name
  <1>1. n \in Nat /\ n >= 1
    BY ServerAssumption
  <1>2. 1..n \subseteq Indexes
    BY DEF Indexes
  <1>3. ASSUME NEW i \in 1..n
        PROVE  /\ ReplicaContainerName("web", v, i, n) \in Name
               /\ ~ReplicaContainerName("web", v, i, n).old
    <2>1. i \in Indexes /\ 0 \in Indexes
      BY <1>2 DEF Indexes
    <2> QED
      BY <2>1 DEF ReplicaContainerName, ContainerName, Name
  <1>4. ReplicaContainerName("web", v, 1, n) \in WebNames(v, n)
    BY <1>1, <1>3 DEF WebNames
  <1>5. \A c \in WebNames(v, n) : ~c.old
    BY <1>3 DEF WebNames
  <1> QED
    BY <1>1, <1>3, <1>4, <1>5

LEMMA ServesSame ==
  ASSUME CurrentServes, UNCHANGED <<ctr, route, st, ingress>>
  PROVE  CurrentServes'
  BY DEF CurrentServes, Present

\* A container that is neither routed to nor the current version's may change.
LEMMA ServesUntouched ==
  ASSUME CurrentServes, Typed, UNCHANGED <<route, st, ingress>>,
         NEW x \in Name, x \notin route, x.ver # st.cur,
         \A c \in Name \ {x} : ctr'[c] = ctr[c]
  PROVE  CurrentServes'
  <1>1. route \subseteq Name /\ WebOf(st.cur) \subseteq Name
        /\ \A c \in WebOf(st.cur) : c.ver = st.cur
    BY TypedMeans DEF WebOf
  <1>2. \A c \in WebOf(st.cur) \cup route : ctr'[c] = ctr[c]
    BY <1>1
  <1> QED
    BY <1>2 DEF CurrentServes, Present

\* What the steps leave of a deploy.
LEMMA GotoMeans ==
  ASSUME d \in ADeploy, NEW l, NEW C, Goto(l, C)
  PROVE  /\ d'.pc = l /\ d'.todo = C
         /\ d'.ver = d.ver /\ d'.reps = d.reps /\ d'.workers = d.workers /\ d'.cur = d.cur
         /\ d'.started = d.started /\ NewWeb' = NewWeb /\ NewWorkers' = NewWorkers
  BY DEF Goto, ADeploy, NewWeb, NewWorkers

LEMMA DoneMeans ==
  ASSUME d \in ADeploy, NEW c, Done(c)
  PROVE  /\ d'.pc = d.pc /\ d'.todo = d.todo \ {c}
         /\ d'.ver = d.ver /\ d'.reps = d.reps /\ d'.workers = d.workers /\ d'.cur = d.cur
         /\ d'.started = d.started /\ NewWeb' = NewWeb /\ NewWorkers' = NewWorkers
  BY DEF Done, ADeploy, NewWeb, NewWorkers

\* The containers of a deploy's version.
LEMMA NewNames ==
  ASSUME Typed, d.pc # "idle", d.reps \in Replicas
  PROVE  /\ NewWeb # {} /\ NewWeb \subseteq WebOf(d.ver) /\ d.reps >= 1
         /\ NewWorkers \subseteq Name
         /\ \A c \in NewWeb : ~c.old
         /\ \A c \in NewWorkers : c.ver = d.ver /\ c.proc # "web" /\ ~c.old
  <1>1. d.ver \in Versions /\ d.workers \subseteq Workers
    BY TypedMeans DEF ADeploy
  <1>2. NewWorkers \subseteq Name /\ \A c \in NewWorkers : c.ver = d.ver
    BY <1>1, WorkerNames DEF NewWorkers
  <1>3. \A c \in NewWorkers : c.proc # "web" /\ ~c.old
    BY <1>1, ServerAssumption DEF NewWorkers, ContainerName
  <1> QED
    BY <1>1, <1>2, <1>3, WebNamesAreWeb, WebNamesExist DEF NewWeb, WebOf

LEMMA DeployKeepsCalm ==
  ASSUME Typed, CalmInv, ingress # "host", DeployStep, d.pc # "idle", UNCHANGED ingress,
         budget'.faults <= budget.faults, budget'.faults >= MaxFaults - 1,
         budget.faults \in Nat, budget'.faults \in Nat
  PROVE  CurrentServes' /\ (d'.pc # "idle" => CalmDeploy')
  <1> DEFINE Goal == CurrentServes' /\ (d'.pc # "idle" => CalmDeploy')
  <1>t. /\ ctr \in [Name -> Status] /\ route \subseteq Name
        /\ d \in ADeploy /\ d.ver \in Versions /\ d.cur \in State /\ st \in State
        /\ d.todo \subseteq Name /\ d.started \subseteq Name /\ MaxFaults \in Nat
    BY TypedMeans, ServerAssumption DEF ADeploy
  <1>i. CurrentServes /\ CalmDeploy
    BY DEF CalmInv
  <1>e. EndDeploy => d'.pc = "idle"
    BY DEF EndDeploy, NoDeploy
  <1>n. /\ NewWeb # {} /\ NewWeb \subseteq WebOf(d.ver) /\ NewWorkers \subseteq Name
        /\ \A c \in NewWorkers : c.ver = d.ver /\ c.proc # "web"
        /\ WebOf(d.ver) \subseteq Name /\ \A c \in WebOf(d.ver) : c.ver = d.ver /\ c.proc = "web"
        /\ d.reps >= 1
    BY <1>i, NewNames DEF CalmDeploy, WebOf
  <1>g. ASSUME NEW l \in Labels, NEW C, Goto(l, C)
        PROVE  /\ d'.pc = l /\ d'.todo = C /\ d'.ver = d.ver /\ d'.cur = d.cur
               /\ d'.reps = d.reps /\ d'.workers = d.workers
               /\ d'.started = d.started /\ NewWeb' = NewWeb /\ NewWorkers' = NewWorkers
    BY <1>t, <1>g, GotoMeans
  <1>b. budget.faults < MaxFaults => budget'.faults < MaxFaults
    BY <1>t
  <1>u. UNCHANGED <<ctr, route, st>> => CurrentServes'
    BY <1>i, ServesSame
  <1>1. CASE ReadState
    <2>1. d.pc = "read" /\ UNCHANGED <<ctr, route, st>>
      BY <1>1 DEF ReadState
    <2>2. st.cur # d.ver
      BY <1>i, <2>1 DEF CalmDeploy, Committed
    <2>3. CASE Goto("ready", {}) /\ Spend("faults")
      <3>1. d'.pc = "ready" /\ d'.todo = {}
        BY <1>g, <2>3 DEF Labels
      <3>2. budget'.faults < MaxFaults
        <4>1. budget'.faults = budget.faults - 1 /\ budget.faults <= MaxFaults
          BY <2>3, TypedMeans DEF Spend, CalmInv, Bounded
        <4> QED
          BY <1>t, <4>1
      <3>3. CalmDeploy'
        BY <1>g, <1>i, <1>t, <2>1, <2>3, <3>1, <3>2
           DEF CalmDeploy, Committed, HostLabels, Labels, Present, WebOf
      <3> QED
        BY <1>u, <2>1, <3>3
    <2>4. CASE d' = [d EXCEPT !.cur = st, !.pc = "ready", !.todo = {}]
      <3>1. /\ d'.pc = "ready" /\ d'.todo = {} /\ d'.ver = d.ver /\ d'.cur = st
            /\ d'.reps = d.reps /\ d'.workers = d.workers
            /\ d'.started = d.started /\ NewWeb' = NewWeb /\ NewWorkers' = NewWorkers
        BY <1>t, <2>4 DEF ADeploy, NewWeb, NewWorkers
      <3>2. CalmDeploy'
        BY <1>i, <2>1, <2>2, <3>1 DEF CalmDeploy, Committed, HostLabels, Present, WebOf
      <3> QED
        BY <1>u, <2>1, <3>2
    <2> QED
      BY <1>1, <2>2, <2>3, <2>4 DEF ReadState
  <1>2. CASE PrepareFails \/ DisplaceFails \/ CleanedUp \/ Aborted \/ Deployed \/ RestoreRouteFails
    BY <1>2, <1>e, <1>u DEF PrepareFails, DisplaceFails, CleanedUp, Aborted, Deployed,
                            RestoreRouteFails, CommandFails, serverVars
  <1>3. CASE StartWebs
    <2>1. d.pc = "ready"
      BY <1>3, <1>i DEF StartWebs, Ready, At, CalmDeploy, HostLabels
    <2>2. d'.pc = "web" /\ d'.todo = NewWeb
      BY <1>3, <1>g DEF StartWebs, Labels
    <2>3. UNCHANGED <<ctr, route, st, budget>>
      BY <1>3 DEF StartWebs, serverVars
    <2>4. CalmDeploy'
      BY <1>3, <1>g, <1>i, <2>1, <2>2, <2>3
         DEF StartWebs, CalmDeploy, Committed, HostLabels, Labels, Present, WebOf
    <2> QED
      BY <1>u, <2>3, <2>4
  <1>4. CASE ProbePasses
    <2>1. /\ d.pc = "web" /\ d.todo = {} /\ \A c \in NewWeb : Running(c)
          /\ ctr' = Proven(NewWeb) /\ Goto("work", NewWorkers) /\ UNCHANGED <<route, st, budget>>
      BY <1>4 DEF ProbePasses, At
    <2>2. \A c \in NewWeb : ctr'[c] = "healthy"
      BY <1>n, <2>1 DEF Proven
    <2>3. \A c \in Name \ NewWeb : ctr'[c] = ctr[c]
      BY <2>1 DEF Proven
    <2>4. NewWeb \cap WebOf(st.cur) = {}
      BY <1>i, <1>n, <2>1 DEF CalmDeploy, Committed, WebOf
    <2>5. CurrentServes'
      <3>1. WebOf(st.cur) \subseteq Name
        BY DEF WebOf
      <3>2. \A c \in WebOf(st.cur) : ctr'[c] = ctr[c]
        BY <2>3, <2>4, <3>1
      <3>3. \A c \in route : ctr'[c] = "healthy"
        BY <1>i, <1>t, <2>2, <2>3 DEF CurrentServes
      <3> QED
        BY <1>i, <2>1, <3>2, <3>3 DEF CurrentServes, Present
    <2>6. \A c \in WebOf(d.ver) : Present(c)' => c \in NewWeb
      BY <1>i, <1>n, <2>1, <2>3 DEF CalmDeploy, Present
    <2>7. CalmDeploy'
      BY <1>g, <1>i, <2>1, <2>2, <2>6 DEF CalmDeploy, Committed, HostLabels, Labels, WebOf
    <2> QED
      BY <2>5, <2>7
  <1>5. CASE ProbeFails
    <2>1. d.pc = "web" /\ Goto("cleanup", d.started) /\ UNCHANGED <<ctr, route, st, budget>>
      BY <1>5 DEF ProbeFails, At, serverVars
    <2>2. CalmDeploy'
      BY <1>g, <1>i, <2>1 DEF CalmDeploy, Committed, HostLabels, Labels
    <2> QED
      BY <1>u, <2>1, <2>2
  <1>6. CASE Route
    <2>1. d.pc = "work" /\ d.todo = {} /\ UNCHANGED <<ctr, st>> /\ ingress = "caddy"
      BY <1>6 DEF Route, At
    <2>2. CASE route' = NewWeb /\ Goto("commit", {})
      <3>1. CurrentServes'
        BY <1>i, <1>n, <2>1, <2>2 DEF CurrentServes, Present, CalmDeploy
      <3>2. CalmDeploy'
        BY <1>b, <1>g, <1>i, <2>1, <2>2
           DEF CalmDeploy, Committed, HostLabels, Labels, Present, WebOf
      <3> QED
        BY <3>1, <3>2
    <2>3. CASE UNCHANGED route /\ Goto("cleanup", d.started)
      <3>1. CalmDeploy'
        BY <1>b, <1>g, <1>i, <2>1, <2>3 DEF CalmDeploy, Committed, HostLabels, Labels
      <3> QED
        BY <1>u, <2>1, <2>3, <3>1
    <2> QED
      BY <1>6, <2>2, <2>3 DEF Route
  <1>7. CASE Commit
    <2>1. /\ d.pc \in {"commit", "work"} /\ UNCHANGED <<ctr, route>>
          /\ (d.pc = "work" => ingress # "caddy")
          /\ st'.cur = d.ver /\ st'.reps = d.reps /\ st'.prev = d.cur.cur
      BY <1>7 DEF Commit, Routed, At
    <2>2. CurrentServes'
      <3>1. \A c \in WebOf(d.ver) : Present(c) => ctr[c] = "healthy"
        BY <1>i, <2>1 DEF CalmDeploy
      <3>2. \E c \in WebOf(d.ver) : Present(c)
        <4>1. PICK c \in NewWeb : ctr[c] = "healthy"
          BY <1>i, <1>n, <2>1 DEF CalmDeploy
        <4> QED
          BY <1>n, <4>1 DEF Present
      <3>3. ingress = "caddy" => route # {}
        BY <1>i, <1>n, <2>1 DEF CalmDeploy
      <3> QED
        BY <1>i, <1>n, <2>1, <3>1, <3>2, <3>3 DEF CurrentServes, Present
    <2>3. ~SameVersion
      BY <1>i DEF CalmDeploy, SameVersion
    <2>4. \A c \in PreviousWeb : c.ver = d.cur.cur
      BY <2>3, WebNamesAreWeb DEF PreviousWeb, AsPrevious
    <2>5. d.cur.cur # NoVersion => \A c \in PreviousWorkers : c.ver = d.cur.cur
      <3>1. d.workers \subseteq Workers /\ d.cur.cur \in Versions \cup {NoVersion}
        BY <1>t DEF ADeploy, State
      <3> QED
        BY <2>3, <3>1, WorkerNames DEF PreviousWorkers, AsPrevious
    <2>6. PICK C : Goto("stopold", C) /\ \A c \in C : c.ver = d.cur.cur
      <3>1. CASE d.cur.cur = NoVersion
        <4>1. Goto("stopold", {})
          BY <1>7, <3>1 DEF Commit
        <4> QED
          BY <4>1
      <3>2. CASE d.cur.cur # NoVersion
        <4>1. Goto("stopold", PreviousWeb \cup PreviousWorkers)
          BY <1>7, <3>2 DEF Commit
        <4>2. \A c \in PreviousWeb \cup PreviousWorkers : c.ver = d.cur.cur
          BY <2>4, <2>5, <3>2
        <4> QED
          BY <4>1, <4>2
      <3> QED
        BY <3>1, <3>2
    <2>7. CalmDeploy'
      BY <1>g, <1>i, <2>1, <2>6 DEF CalmDeploy, Committed, HostLabels, Labels
    <2> QED
      BY <2>2, <2>7
  <1>8. CASE CommitFails
    <2>1. d.pc \in {"commit", "work"} /\ (d.pc = "work" => ingress # "caddy")
          /\ UNCHANGED <<ctr, route, st>>
          /\ Spend("faults")
      BY <1>8 DEF CommitFails, Routed, At
    <2>2. ingress \in {"caddy", "external"}
      BY ServerAssumption DEF Typed, TypeOK, ServerTypeOK
    <2>3. d.cur = st
      <3>1. budget'.faults = budget.faults - 1
        BY <2>1, TypedMeans DEF Spend
      <3>2. ~(budget.faults < MaxFaults)
        BY <1>t, <3>1
      <3> QED
        BY <1>i, <2>1, <3>2 DEF CalmDeploy, Committed
    <2>4. CASE ingress = "caddy"
      <3>1. Goto("restore", {})
        BY <1>8, <2>4 DEF CommitFails
      <3>2. CalmDeploy'
        BY <1>g, <1>i, <2>1, <2>3, <2>4, <3>1 DEF CalmDeploy, Committed, HostLabels, Labels
      <3> QED
        BY <1>u, <2>1, <3>2
    <2>5. CASE ingress = "external"
      <3>1. Goto("cleanup", d.started) /\ route = {}
        BY <1>8, <1>i, <2>5 DEF CommitFails, CurrentServes
      <3>2. CalmDeploy'
        BY <1>g, <1>i, <2>1, <2>3, <2>5, <3>1 DEF CalmDeploy, Committed, HostLabels, Labels
      <3> QED
        BY <1>u, <2>1, <3>2
    <2> QED
      BY <2>2, <2>4, <2>5
  <1>9. CASE PruneLists
    <2>1. d.pc = "stopold" /\ UNCHANGED <<ctr, route, st>>
      BY <1>9 DEF PruneLists, At
    <2>2. PICK C : Goto("prune", C) /\ \A c \in C : c.ver # d.ver
      BY <1>9 DEF PruneLists, ToPrune, ProtectedVersions
    <2>3. CalmDeploy'
      BY <1>g, <1>i, <2>1, <2>2 DEF CalmDeploy, Committed, HostLabels, Labels
    <2> QED
      BY <1>u, <2>1, <2>3
  <1>10. CASE RestoreRoute
    <2>1. d.pc = "restore" /\ UNCHANGED <<ctr, st>> /\ Goto("cleanup", d.started) /\ d.cur = st
          /\ ingress = "caddy"
      BY <1>10, <1>i DEF RestoreRoute, CalmDeploy
    <2>2. CASE route' = {} /\ st.cur = NoVersion
      <3>1. CalmDeploy'
        BY <1>b, <1>g, <1>i, <2>1, <2>2 DEF CalmDeploy, Committed, HostLabels, Labels
      <3> QED
        BY <1>i, <2>1, <2>2, <3>1 DEF CurrentServes, Present
    <2>3. CASE st.cur # NoVersion /\ PreviousFound /\ route' = PreviousWeb
      <3>1. ~SameVersion
        BY <1>i, <2>1, <2>3 DEF CalmDeploy, SameVersion
      <3>2. PreviousWeb = CommittedWeb
        BY <2>1, <3>1 DEF PreviousWeb, AsPrevious, CommittedWeb
      <3>3. CommittedWeb \subseteq WebOf(st.cur)
        BY WebNamesAreWeb DEF CommittedWeb, WebOf
      <3>4. \A c \in CommittedWeb : ctr[c] = "healthy"
        BY <1>i, <2>3, <3>2, <3>3 DEF CurrentServes, PreviousFound
      <3>5. CommittedWeb # {}
        <4>1. Cardinality(CommittedWeb) = st.reps
          BY <2>1, <2>3, <3>2 DEF PreviousFound
        <4>2. st.reps # 0
          BY <1>i, <1>t, <2>3 DEF CurrentServes, State
        <4> QED
          BY <4>1, <4>2, FS_EmptySet
      <3>6. CurrentServes'
        BY <1>i, <2>1, <2>3, <3>2, <3>4, <3>5 DEF CurrentServes, Present
      <3>7. \A c \in route' : c.ver # d.ver
        BY <1>i, <2>1, <2>3, <3>2, <3>3 DEF CalmDeploy, Committed, WebOf
      <3>8. CalmDeploy'
        BY <1>b, <1>g, <1>i, <2>1, <3>7 DEF CalmDeploy, Committed, HostLabels, Labels
      <3> QED
        BY <3>6, <3>8
    <2> QED
      BY <1>10, <2>1, <2>2, <2>3 DEF RestoreRoute
  <1>11. ASSUME NEW c \in d.todo, RunContainer(c) \/ RunWebFails(c) \/ RunWorkerFails(c)
         PROVE  Goal
    <2>1. d.pc \in {"web", "work"} /\ UNCHANGED <<route, st>> /\ c \in Name
      BY <1>t, <1>11 DEF RunContainer, RunWebFails, RunWorkerFails, Loop
    <2>2. /\ c.ver = d.ver /\ c.ver # st.cur
          /\ c.proc = "web" => d.pc = "web" /\ c \in NewWeb
      BY <1>i, <1>n, <2>1 DEF CalmDeploy, Committed
    <2>3. RunSucceeds(c) \/ RunRefused(c) \/ RunFails(c)
      BY <1>11 DEF RunContainer, RunWebFails, RunWorkerFails, RunNot
    <2>4. \A x \in Name \ {c} : ctr'[x] = ctr[x]
      BY <1>t, <2>1, <2>3, OneChanges DEF RunNot
    <2>5. CurrentServes'
      <3>1. CASE RunRefused(c)
        BY <1>u, <2>1, <3>1 DEF RunRefused
      <3>2. CASE ~Running(c)
        <4>1. c \notin route
          BY <1>i, <3>2 DEF CurrentServes, Running
        <4> QED
          BY <1>i, <2>1, <2>2, <2>4, <4>1, ServesUntouched
      <3> QED
        BY <2>3, <3>1, <3>2 DEF RunSucceeds, RunFails
    <2>6. CASE RunWebFails(c)
      BY <1>e, <2>5, <2>6 DEF RunWebFails
    <2>7. CASE RunWorkerFails(c)
      <3>1. d.pc = "work" /\ Goto("cleanup", d.started)
        BY <2>7 DEF RunWorkerFails, Loop
      <3>2. CalmDeploy'
        BY <1>b, <1>g, <1>i, <2>1, <3>1 DEF CalmDeploy, Committed, HostLabels, Labels
      <3> QED
        BY <2>5, <3>2
    <2>8. CASE RunContainer(c)
      <3>1. /\ d'.pc = d.pc /\ d'.todo = d.todo \ {c} /\ d'.started = d.started \cup {c}
            /\ d'.ver = d.ver /\ d'.cur = d.cur /\ d'.reps = d.reps /\ d'.workers = d.workers
            /\ NewWeb' = NewWeb /\ NewWorkers' = NewWorkers
        BY <1>t, <2>8 DEF RunContainer, ADeploy, NewWeb, NewWorkers
      <3>2. c \notin route
        BY <1>i, <2>8 DEF CurrentServes, Running, RunContainer, RunSucceeds
      <3>3. \A x \in WebOf(d.ver) : Present(x)' => x \in NewWeb
        BY <1>i, <1>n, <2>1, <2>2, <2>4 DEF CalmDeploy, Present
      <3>4. d.pc = "work" => \A x \in NewWeb : ctr'[x] = "healthy"
        BY <1>i, <1>n, <2>1, <2>2, <2>4 DEF CalmDeploy
      <3>5. CalmDeploy'
        BY <1>b, <1>i, <2>1, <2>2, <3>1, <3>2, <3>3, <3>4
           DEF CalmDeploy, Committed, HostLabels, WebOf
      <3> QED
        BY <2>5, <3>5
    <2> QED
      BY <1>11, <2>6, <2>7, <2>8
  <1>12. ASSUME NEW c \in d.todo, CleanUp(c) \/ StopOld(c) \/ Prune(c)
         PROVE  Goal
    <2>1. d.pc \in {"cleanup", "stopold", "prune"} /\ UNCHANGED <<route, st>> /\ c \in Name
          /\ Done(c)
      BY <1>t, <1>12 DEF CleanUp, StopOld, Prune, Loop
    <2>2. c.ver # st.cur
      BY <1>i, <2>1 DEF CalmDeploy, Committed
    <2>3. c \notin route
      <3>1. CASE ingress # "caddy"
        BY <1>i, <3>1 DEF CurrentServes
      <3>2. CASE ingress = "caddy"
        BY <1>i, <1>n, <2>1, <3>2 DEF CalmDeploy, Committed
      <3> QED
        BY <3>1, <3>2
    <2>4. StopRemoveSucceeds(c) \/ StopRemoveFails(c) \/ StopSucceeds(c) \/ CommandFails
      BY <1>12 DEF CleanUp, StopOld, Prune, StopRemoveSucceeds, Removed
    <2>5. \A x \in Name \ {c} : ctr'[x] = ctr[x]
      BY <1>t, <2>1, <2>4, OneChanges
    <2>6. CurrentServes'
      BY <1>i, <2>1, <2>2, <2>3, <2>5, ServesUntouched
    <2>7. /\ d'.pc = d.pc /\ d'.todo = d.todo \ {c}
          /\ d'.ver = d.ver /\ d'.reps = d.reps /\ d'.workers = d.workers /\ d'.cur = d.cur
          /\ d'.started = d.started /\ NewWeb' = NewWeb /\ NewWorkers' = NewWorkers
      BY <1>t, <2>1, DoneMeans
    <2>8. CalmDeploy'
      BY <1>b, <1>i, <2>1, <2>7 DEF CalmDeploy, Committed, HostLabels
    <2> QED
      BY <2>6, <2>8
  <1>13. CASE PlainNames \/ ListHostWeb \/ HostStopped \/ HostRestored
    BY <1>13, <1>i DEF PlainNames, ListHostWeb, HostStopped, HostRestored, At, CalmDeploy,
                       HostLabels
  <1>14. ASSUME NEW c \in d.todo,
                \/ PutAside(c) \/ Displace(c) \/ HostStop(c) \/ HostRemove(c) \/ HostRerun(c)
                \/ HostStart(c) \/ HostDiscard(c)
         PROVE  Goal
    BY <1>14, <1>i DEF PutAside, Displace, HostStop, HostRemove, HostRerun, HostStart, HostDiscard,
                       Loop, CalmDeploy, HostLabels
  <1> QED
    BY <1>1, <1>2, <1>3, <1>4, <1>5, <1>6, <1>7, <1>8, <1>9, <1>10, <1>11, <1>12, <1>13, <1>14
       DEF DeployStep

LEMMA RGotoMeans ==
  ASSUME r \in ARollback, NEW l, NEW C, RGoto(l, C)
  PROVE  /\ r'.pc = l /\ r'.todo = C
         /\ r'.target = r.target /\ r'.cur = r.cur /\ r'.started = r.started
         /\ r'.displaced = r.displaced /\ r'.live = r.live /\ r'.at = r.at
         /\ TargetWeb' = TargetWeb
  BY DEF RGoto, ARollback, TargetWeb, Web

LEMMA RDoneMeans ==
  ASSUME r \in ARollback, NEW c, RDone(c)
  PROVE  /\ r'.pc = r.pc /\ r'.todo = r.todo \ {c}
         /\ r'.target = r.target /\ r'.cur = r.cur /\ r'.started = r.started
         /\ r'.displaced = r.displaced /\ r'.live = r.live /\ r'.at = r.at
         /\ TargetWeb' = TargetWeb
  BY DEF RDone, ARollback, TargetWeb, Web

LEMMA RollbackKeepsCalm ==
  ASSUME Typed, CalmInv, ingress # "host", RollbackStep, r.pc # "idle", UNCHANGED ingress
  PROVE  CurrentServes' /\ (r'.pc # "idle" => CalmRollback')
  <1> DEFINE Goal == CurrentServes' /\ (r'.pc # "idle" => CalmRollback')
  <1>t. /\ ctr \in [Name -> Status] /\ route \subseteq Name
        /\ r \in ARollback /\ r.cur \in State
        /\ r.todo \subseteq Name /\ r.started \subseteq Name /\ r.live \subseteq Name
    BY TypedMeans DEF ARollback
  <1>i. CurrentServes /\ CalmRollback
    BY DEF CalmInv
  <1>g. ASSUME NEW l \in RLabels, NEW C, RGoto(l, C)
        PROVE  /\ r'.pc = l /\ r'.todo = C
               /\ r'.target = r.target /\ r'.cur = r.cur /\ r'.started = r.started
               /\ r'.displaced = r.displaced /\ r'.live = r.live
               /\ TargetWeb' = TargetWeb
    BY <1>t, <1>g, RGotoMeans
  <1>e. EndRollback => r'.pc = "idle"
    BY DEF EndRollback, NoRollback
  <1>w. /\ TargetWeb \subseteq r.started /\ \A c \in TargetWeb : c.ver = r.target /\ c.proc = "web"
        /\ OriginalWeb \subseteq r.live
        /\ \A c \in OriginalWeb : c.ver = r.cur.cur /\ c.proc = "web"
    BY <1>i DEF TargetWeb, OriginalWeb, Web, CalmRollback
  <1>u. UNCHANGED <<ctr, route, st>> => CurrentServes'
    BY <1>i, ServesSame
  <1>1. CASE ListContainers
    <2> DEFINE seen == {c \in Name : Present(c)}
               rest == {c \in seen : c.ver = r.target}
    <2>1. r.pc = "list" /\ UNCHANGED <<ctr, route, st>>
      BY <1>1 DEF ListContainers, serverVars
    <2>2. r' = [r EXCEPT !.seen = seen, !.live = {c \in seen : Running(c)},
                         !.pc = "remove", !.todo = rest]
      BY <1>1 DEF ListContainers
    <2>3. /\ r'.pc = "remove" /\ r'.todo = rest /\ r'.target = r.target /\ r'.cur = r.cur
          /\ r'.started = r.started /\ r'.displaced = r.displaced
      BY <1>t, <2>2 DEF ARollback
    <2>4. CalmRollback'
      BY <1>i, <2>1, <2>3 DEF CalmRollback, Have, Present
    <2> QED
      BY <1>u, <2>1, <2>4
  <1>2. CASE ListFails \/ NoTarget \/ RProbeBreaks \/ RRouteFails \/ RolledBack \/ RRestoreFails
    BY <1>2, <1>e, <1>u DEF ListFails, NoTarget, RProbeBreaks, RRouteFails, RolledBack,
                            RRestoreFails, CommandFails, serverVars
  <1>3. CASE RProbePasses
    <2>1. /\ r.pc = "remove" /\ r.todo = {} /\ ctr' = Proven(TargetWeb) /\ TargetWeb # {}
          /\ UNCHANGED <<route, st>>
      BY <1>3 DEF RProbePasses, RAt
    <2>2. \A c \in TargetWeb : ctr'[c] = "healthy"
      BY <1>t, <1>w, <2>1 DEF Proven
    <2>3. \A c \in Name \ TargetWeb : ctr'[c] = ctr[c]
      BY <2>1 DEF Proven
    <2>4. TargetWeb \cap WebOf(st.cur) = {}
      BY <1>i, <1>w, <2>1 DEF CalmRollback, WebOf
    <2>5. CurrentServes'
      <3>1. WebOf(st.cur) \subseteq Name
        BY DEF WebOf
      <3>2. \A c \in WebOf(st.cur) : ctr'[c] = ctr[c]
        BY <2>3, <2>4, <3>1
      <3>3. \A c \in route : ctr'[c] = "healthy"
        BY <1>i, <1>t, <2>2, <2>3 DEF CurrentServes
      <3> QED
        BY <1>i, <2>1, <3>2, <3>3 DEF CurrentServes, Present
    <2>6. \A c \in Name : ctr'[c] # "absent" /\ c.ver = r.target => c \in r.started
      BY <1>i, <1>w, <2>1, <2>3 DEF CalmRollback, Have, Present
    <2>7. CASE ingress = "caddy"
      <3>1. RGoto("route", {})
        BY <1>3, <2>7 DEF RProbePasses
      <3>2. /\ r'.pc = "route" /\ r'.target = r.target /\ r'.cur = r.cur /\ r'.started = r.started
            /\ r'.displaced = r.displaced /\ TargetWeb' = TargetWeb
        BY <1>g, <3>1 DEF RLabels
      <3>3. CalmRollback'
        BY <1>i, <2>1, <2>2, <2>6, <2>7, <3>2 DEF CalmRollback, Have, Present
      <3> QED
        BY <2>5, <3>3
    <2>8. CASE ingress # "caddy"
      <3>1. RGoto("commit", {}) /\ route' = {}
        BY <1>3, <1>i, <2>1, <2>8 DEF RProbePasses, CurrentServes
      <3>2. /\ r'.pc = "commit" /\ r'.target = r.target /\ r'.cur = r.cur /\ r'.started = r.started
            /\ r'.displaced = r.displaced /\ TargetWeb' = TargetWeb
        BY <1>g, <3>1 DEF RLabels
      <3>3. CalmRollback'
        BY <1>i, <2>1, <2>2, <2>6, <3>1, <3>2 DEF CalmRollback, Have, Present
      <3> QED
        BY <2>5, <3>3
    <2> QED
      BY <2>7, <2>8
  <1>4. CASE RProbeFails
    <2>1. r.pc = "remove" /\ RGoto("undo", r.started) /\ UNCHANGED <<ctr, route, st>>
      BY <1>4 DEF RProbeFails, RAt, serverVars
    <2>2. CalmRollback'
      BY <1>g, <1>i, <2>1 DEF CalmRollback, RLabels
    <2> QED
      BY <1>u, <2>1, <2>2
  <1>5. CASE RRoute
    <2>1. r.pc = "route" /\ route' = TargetWeb /\ RGoto("commit", {}) /\ UNCHANGED <<ctr, st>>
      BY <1>5 DEF RRoute
    <2>2. CurrentServes'
      BY <1>i, <2>1 DEF CurrentServes, CalmRollback, Present
    <2>3. CalmRollback'
      BY <1>g, <1>i, <1>w, <2>1 DEF CalmRollback, RLabels, Have, Present
    <2> QED
      BY <2>2, <2>3
  <1>6. CASE RCommit
    <2>1. /\ r.pc = "commit" /\ UNCHANGED <<ctr, route>>
          /\ st' = [cur |-> r.target, reps |-> Cardinality(TargetWeb), prev |-> r.cur.cur]
          /\ RGoto("stopold", {c \in r.live : c.ver = r.cur.cur})
      BY <1>6 DEF RCommit
    <2>2. \A c \in WebOf(r.target) : Present(c) => c \in TargetWeb
      BY <1>i, <2>1 DEF CalmRollback, WebOf, Have, TargetWeb, Web
    <2>3. TargetWeb # {} /\ \A c \in TargetWeb : ctr[c] = "healthy"
      BY <1>i, <2>1 DEF CalmRollback
    <2>4. Cardinality(TargetWeb) >= 1
      <3>1. IsFiniteSet(TargetWeb)
        BY <1>w, TypedMeans, FS_Subset
      <3>2. Cardinality(TargetWeb) \in Nat /\ Cardinality(TargetWeb) # 0
        BY <2>3, <3>1, FS_CardinalityType, FS_EmptySet
      <3> QED
        BY <3>2
    <2>5. \E c \in WebOf(r.target) : Present(c)
      BY <1>t, <1>w, <2>3 DEF WebOf, Present
    <2>6. CurrentServes'
      BY <1>i, <2>1, <2>2, <2>3, <2>4, <2>5 DEF CurrentServes, Present, CalmRollback
    <2>7. CalmRollback'
      BY <1>g, <1>i, <2>1 DEF CalmRollback, RLabels
    <2> QED
      BY <2>6, <2>7
  <1>7. CASE RCommitFails
    <2>1. r.pc = "commit" /\ UNCHANGED <<ctr, route, st>>
      BY <1>7 DEF RCommitFails, CommandFails
    <2>2. CASE ingress = "caddy" /\ RGoto("restore", {})
      <3>1. CalmRollback'
        BY <1>g, <1>i, <2>1, <2>2 DEF CalmRollback, RLabels, Have, Present
      <3> QED
        BY <1>u, <2>1, <3>1
    <2>3. CASE ingress # "caddy" /\ RGoto("discard", r.started)
      <3>1. route = {}
        BY <1>i, <2>3 DEF CurrentServes
      <3>2. CalmRollback'
        BY <1>g, <1>i, <2>1, <2>3, <3>1 DEF CalmRollback, RLabels
      <3> QED
        BY <1>u, <2>1, <3>2
    <2> QED
      BY <1>7, <2>2, <2>3 DEF RCommitFails
  <1>8. CASE RRestore
    <2>1. /\ r.pc = "restore" /\ route' = OriginalWeb /\ RGoto("discard", r.started)
          /\ UNCHANGED <<ctr, st>> /\ OriginalFound
      BY <1>8 DEF RRestore
    <2>2. OriginalWeb \subseteq WebOf(st.cur) /\ OriginalWeb # {}
          /\ \A c \in OriginalWeb : ctr[c] = "healthy"
      BY <1>i, <1>t, <1>w, <2>1 DEF CalmRollback, CurrentServes, WebOf, OriginalFound
    <2>3. CurrentServes'
      BY <1>i, <2>1, <2>2 DEF CurrentServes, CalmRollback, Present
    <2>4. CalmRollback'
      BY <1>g, <1>i, <1>w, <2>1 DEF CalmRollback, RLabels
    <2> QED
      BY <2>3, <2>4
  <1>9. CASE RUndone
    <2>1. r.pc = "undo" /\ RGoto("undoremove", r.displaced) /\ UNCHANGED <<ctr, route, st>>
      BY <1>9 DEF RUndone, RAt, serverVars
    <2>2. CalmRollback'
      BY <1>g, <1>i, <2>1 DEF CalmRollback, RLabels
    <2> QED
      BY <1>u, <2>1, <2>2
  <1>10. ASSUME NEW c \in r.todo,
                \/ RemoveTarget(c) \/ RemoveTargetFails(c) \/ RunTarget(c) \/ RunTargetFails(c)
         PROVE  Goal
    <2>1. r.pc \in {"remove", "rerun"} /\ UNCHANGED <<route, st>> /\ c \in Name
      BY <1>t, <1>10 DEF RemoveTarget, RemoveTargetFails, RunTarget, RunTargetFails, RLoop
    <2>2. c.ver = r.target /\ c.ver # st.cur /\ c \notin route
      BY <1>i, <2>1 DEF CalmRollback
    <2>3. StopRemoveSucceeds(c) \/ CommandFails \/ UNCHANGED ctr \/ RecreateSucceeds(c)
          \/ RecreateFails(c)
      BY <1>10 DEF RemoveTarget, RemoveTargetFails, RunTarget, RunTargetFails, Removed,
                   StopRemoveSucceeds
    <2>4. \A x \in Name \ {c} : ctr'[x] = ctr[x]
      BY <1>t, <2>1, <2>3, OneChanges
    <2>5. CurrentServes'
      BY <1>i, <2>1, <2>2, <2>4, ServesUntouched
    <2>6. CASE RemoveTargetFails(c) \/ RunTargetFails(c)
      BY <1>e, <2>5, <2>6 DEF RemoveTargetFails, RunTargetFails
    <2>7. CASE RemoveTarget(c)
      <3>1. /\ r'.pc = "rerun" /\ r'.todo = r.todo /\ r'.target = r.target
            /\ r'.cur = r.cur /\ r'.started = r.started /\ r'.displaced = r.displaced
        BY <1>t, <2>7 DEF RemoveTarget, ARollback, RLabels
      <3>2. \A x \in Name : x.ver = r.target /\ ctr'[x] # "absent" =>
                x \in r.started \/ x \in r.todo
        BY <1>i, <2>1, <2>4 DEF CalmRollback, Have, Present
      <3>3. CalmRollback'
        BY <1>i, <2>1, <3>1, <3>2 DEF CalmRollback, Have, Present
      <3> QED
        BY <2>5, <3>3
    <2>8. CASE RunTarget(c)
      <3>1. /\ r'.pc = "remove" /\ r'.todo = r.todo \ {c} /\ r'.target = r.target
            /\ r'.cur = r.cur /\ r'.started = r.started \cup {c} /\ r'.displaced = r.displaced
        BY <1>t, <2>8 DEF RunTarget, ARollback, RLabels
      <3>2. \A x \in Name : x.ver = r.target /\ ctr'[x] # "absent" =>
                x \in r'.started \/ x \in r'.todo
        BY <1>i, <2>1, <2>4, <3>1 DEF CalmRollback, Have, Present
      <3>3. CalmRollback'
        BY <1>i, <2>1, <2>2, <3>1, <3>2 DEF CalmRollback, Have, Present
      <3> QED
        BY <2>5, <3>3
    <2> QED
      BY <1>10, <2>6, <2>7, <2>8
  <1>11. ASSUME NEW c \in r.todo, RStopOld(c) \/ RDiscard(c) PROVE Goal
    <2>1. r.pc \in {"stopold", "undo", "discard"} /\ UNCHANGED <<route, st>> /\ c \in Name
          /\ RDone(c)
      BY <1>t, <1>11 DEF RStopOld, RDiscard, RLoop
    <2>2. c.ver # st.cur /\ c \notin route
      BY <1>i, <2>1 DEF CalmRollback
    <2>3. StopSucceeds(c) \/ CommandFails
      BY <1>11 DEF RStopOld, RDiscard
    <2>4. \A x \in Name \ {c} : ctr'[x] = ctr[x]
      BY <1>t, <2>1, <2>3, OneChanges
    <2>5. CurrentServes'
      BY <1>i, <2>1, <2>2, <2>4, ServesUntouched
    <2>6. /\ r'.pc = r.pc /\ r'.todo = r.todo \ {c} /\ r'.target = r.target /\ r'.cur = r.cur
          /\ r'.started = r.started /\ r'.displaced = r.displaced
      BY <1>t, <2>1, RDoneMeans
    <2>7. CalmRollback'
      BY <1>i, <2>1, <2>6 DEF CalmRollback
    <2> QED
      BY <2>5, <2>7
  <1>12. CASE RDisplaced
    BY <1>12, <1>i DEF RDisplaced, RAt, CalmRollback
  <1>13. ASSUME NEW c \in r.todo,
                RDisplace(c) \/ RDisplaceFails(c) \/ UndoRemove(c) \/ UndoRerun(c)
         PROVE  Goal
    BY SMTT(40), <1>13, <1>i DEF RDisplace, RDisplaceFails, UndoRemove, UndoRerun, RLoop, CalmRollback
  <1> QED
    BY <1>1, <1>2, <1>3, <1>4, <1>5, <1>6, <1>7, <1>8, <1>9, <1>10, <1>11, <1>12, <1>13
       DEF RollbackStep

LEMMA DeployStepRuns == DeployStep => d.pc # "idle"
  BY ZenonT(40) DEF DeployStep, ReadState, PrepareFails, PlainNames, ListHostWeb, DisplaceFails, StartWebs,
         ProbePasses, ProbeFails, CleanedUp, Route, Commit, CommitFails, PruneLists, Deployed,
         RestoreRoute, RestoreRouteFails, HostStopped, HostRestored, Aborted, PutAside, Displace,
         RunContainer, RunWebFails, RunWorkerFails, CleanUp, StopOld, Prune, HostStop, HostRemove,
         HostRerun, HostStart, HostDiscard, At, Loop, Ready, Routed

LEMMA RollbackStepRuns == RollbackStep => r.pc # "idle"
  BY DEF RollbackStep, ListContainers, ListFails, RDisplaced, NoTarget, RProbePasses, RProbeBreaks,
         RProbeFails, RRoute, RRouteFails, RCommit, RCommitFails, RolledBack, RRestore,
         RRestoreFails, RUndone, RDisplace, RDisplaceFails, RemoveTarget, RemoveTargetFails,
         RunTarget, RunTargetFails, RStopOld, RDiscard, UndoRemove, UndoRerun, RAt, RLoop

LEMMA DeployCommands == DeployNext => d.pc # "idle" \/ d'.pc # "idle"
  <1>1. ASSUME NEW v \in Versions, NEW n \in Replicas, NEW W \in SUBSET Workers,
               DeployBegins(v, n, W)
        PROVE  d'.pc # "idle"
    BY <1>1, NoCommandTypes DEF DeployBegins, ADeploy
  <1> QED
    BY <1>1, DeployStepRuns DEF DeployNext, DeployDies

LEMMA RollbackCommands == RollbackNext => r.pc # "idle" \/ r'.pc # "idle"
  <1>1. ASSUME NEW t \in Versions, RollbackBegins(t) PROVE r'.pc # "idle"
    BY <1>1, NoCommandTypes DEF RollbackBegins, ARollback
  <1> QED
    BY <1>1, RollbackStepRuns DEF RollbackNext, RollbackDies

LEMMA NextCalm ==
  ASSUME Typed, CalmInv, Calm, [OpsNext]_vars
  PROVE  CalmInv'
  <1>t. /\ budget.faults \in Nat /\ budget'.faults \in Nat
        /\ d \in ADeploy /\ r \in ARollback /\ route \subseteq Name
    <2>1. budget \in [{"ops", "faults", "crashes"} -> Nat]
          /\ budget' \in [{"ops", "faults", "crashes"} -> Nat]
      <3>1. Typed'
        BY NextTyped
      <3> QED
        BY <3>1 DEF Typed, TypeOK, ServerTypeOK
    <2> QED
      BY <2>1, TypedMeans
  <1>c. habits = AllHabits /\ ingress # "host"
    BY DEF Calm
  <1>1. CASE UNCHANGED vars
    BY <1>1 DEF vars, serverVars, CalmInv, CalmDeploy, CalmRollback, CurrentServes, Alone, Bounded,
                Lucky, Present, Committed, NewWeb, NewWorkers, Have, TargetWeb
  <1>2. CASE OpsNext
    <2>1. Alone' /\ UNCHANGED <<ingress, habits>>
      BY <1>2, <1>c DEF OpsNext, AsUsual, AllHabits, Next, Rest, vars
    <2>2. Bounded' /\ budget'.faults <= budget.faults
      BY NextBounded DEF CalmInv
    <2>3. Lucky'
      BY <1>2, <1>c DEF OpsNext, AsUsual, AllHabits, Lucky
    <2>4. CASE DeployNext /\ UNCHANGED <<r, ingress, habits>>
      <3>1. d.pc # "idle" \/ d'.pc # "idle"
        BY <2>4, DeployCommands
      <3>2. r.pc = "idle" /\ r'.pc = "idle"
        BY <2>1, <2>4, <3>1 DEF CalmInv, Alone
      <3>3. CurrentServes' /\ (d'.pc # "idle" => CalmDeploy')
        <4>1. CASE DeployStep
          BY <1>c, <1>t, <2>1, <2>2, <2>3, <4>1, DeployStepRuns, DeployKeepsCalm DEF Lucky
        <4>2. CASE DeployDies
          BY <4>2, ServesSame, <2>1 DEF DeployDies, EndDeploy, NoDeploy, CalmInv
        <4>3. ASSUME NEW v \in Versions, NEW n \in Replicas, NEW W \in SUBSET Workers,
                     DeployBegins(v, n, W)
              PROVE  CurrentServes' /\ CalmDeploy'
          <5>1. /\ d.pc = "idle" /\ UNCHANGED <<ctr, route, st>>
                /\ d' = [NoDeploy EXCEPT !.pc = "read", !.ver = v, !.reps = n, !.workers = W]
            BY <4>3 DEF DeployBegins
          <5>2. /\ d'.pc = "read" /\ d'.ver = v /\ d'.reps = n /\ d'.workers = W
                /\ d'.cur = NoState /\ d'.started = {}
            BY <5>1, NoCommandTypes DEF ADeploy, NoDeploy
          <5>3. /\ v # st.cur /\ v # st.prev /\ W = Workers
                /\ \A c \in Name : c.proc = "web" /\ c.ver = v /\ Present(c) => c \in WebNames(v, n)
            BY <1>2, <1>c, <5>1, <5>2 DEF OpsNext, AsUsual, AllHabits, DeployBeginning
          <5>4. NewWeb' = WebNames(v, n)
            BY <5>2 DEF NewWeb
          <5>5. v # NoVersion
            BY ServerAssumption
          <5>6. CalmDeploy'
            BY <5>1, <5>2, <5>3, <5>4, <5>5
               DEF CalmDeploy, Committed, HostLabels, NoState, WebOf, Present
          <5> QED
            BY <2>1, <5>1, <5>6, ServesSame DEF CalmInv
        <4> QED
          BY <2>4, <4>1, <4>2, <4>3 DEF DeployNext
      <3> QED
        BY <2>1, <2>2, <2>3, <3>2, <3>3 DEF CalmInv
    <2>5. CASE RollbackNext /\ UNCHANGED <<d, ingress, habits>>
      <3>1. r.pc # "idle" \/ r'.pc # "idle"
        BY <2>5, RollbackCommands
      <3>2. d.pc = "idle" /\ d'.pc = "idle"
        BY <2>1, <2>5, <3>1 DEF CalmInv, Alone
      <3>3. CurrentServes' /\ (r'.pc # "idle" => CalmRollback')
        <4>1. CASE RollbackStep
          BY <1>c, <2>1, <4>1, RollbackStepRuns, RollbackKeepsCalm
        <4>2. CASE RollbackDies
          BY <4>2, ServesSame, <2>1 DEF RollbackDies, EndRollback, NoRollback, CalmInv
        <4>3. ASSUME NEW t \in Versions, RollbackBegins(t) PROVE CurrentServes' /\ CalmRollback'
          <5>1. /\ r.pc = "idle" /\ UNCHANGED <<ctr, route, st>> /\ t # st.cur /\ st.cur # NoVersion
                /\ r' = [NoRollback EXCEPT !.pc = "list", !.target = t, !.cur = st]
            BY <4>3 DEF RollbackBegins
          <5>2. /\ r'.pc = "list" /\ r'.target = t /\ r'.cur = st /\ r'.started = {}
                /\ r'.displaced = {} /\ r'.todo = {}
            <6>1. NoRollback \in ARollback /\ NoRollback.started = {} /\ NoRollback.displaced = {}
                  /\ NoRollback.todo = {}
              BY NoCommandTypes DEF NoRollback
            <6> QED
              BY <5>1, <6>1 DEF ARollback
          <5>3. \A c \in Name : c.ver = t => ~Running(c)
            BY <1>2, <1>c, <5>1, <5>2 DEF OpsNext, AsUsual, AllHabits, RollbackBeginning
          <5>4. \A c \in route : c.ver # t
            BY <1>t, <5>3 DEF CalmInv, CurrentServes, Running
          <5>5. CalmRollback'
            BY <5>1, <5>2, <5>4 DEF CalmRollback
          <5> QED
            BY <2>1, <5>1, <5>5, ServesSame DEF CalmInv
        <4> QED
          BY <2>5, <4>1, <4>2, <4>3 DEF RollbackNext
      <3> QED
        BY <2>1, <2>2, <2>3, <3>2, <3>3 DEF CalmInv
    <2> QED
      BY <1>1, <1>2, <2>4, <2>5 DEF OpsNext, Next, Rest
  <1> QED
    BY <1>1, <1>2

\* In careful use something answers from the first commit on, and only
\* containers that run and have been probed get traffic: for any number of
\* operations, versions and replicas, with the one failure and the one crash
\* of careful use wherever they come.
THEOREM NoOutageEver == Spec => []NoOutage
  <1> DEFINE Inv == Calm => CalmInv
  <1>1. Init => Inv
    BY InitCalm
  <1>2. Typed /\ Inv /\ [OpsNext]_vars => Inv'
    <2> SUFFICES ASSUME Typed, Inv, [OpsNext]_vars, Calm' PROVE CalmInv'
      OBVIOUS
    <2>1. UNCHANGED <<ingress, habits>>
      BY DEF OpsNext, Next, Rest, vars
    <2> QED
      BY <2>1, NextCalm DEF Calm
  <1>3. Typed /\ Inv => NoOutage
    BY CalmServes DEF NoOutage
  <1> QED
    BY <1>1, <1>2, <1>3, InitTyped, NextTyped, PTL DEF Spec

-----------------------------------------------------------------------------
(* Careful use with no command that fails: what is on the server.          *)

Full(v, n) == WebNames(v, n) \cup {ContainerName(p, v) : p \in Workers}

\* Of the current version there is exactly what its state asks for, and it runs.
CurrentWhole ==
    st.cur # NoVersion =>
        /\ st.reps \in Replicas
        /\ Have(st.cur) = Full(st.cur, st.reps)
        /\ \A c \in Have(st.cur) : Running(c)

\* Of the previous version there is exactly what some deploy started, but for
\* the container that a rollback is just recreating.
PreviousWhole ==
    st.prev # NoVersion =>
        /\ st.cur \notin {NoVersion, st.prev}
        /\ \E n \in Replicas : Full(st.prev, n) = Have(st.prev) \cup r.at

\* What a command has started, or has still to stop.
Busy(c) ==
    \/ d.pc \in {"web", "work", "commit"} /\ c \in d.started
    \/ d.pc \in {"cleanup", "stopold"} /\ c \in d.todo
    \/ r.pc \in {"remove", "rerun", "route", "commit"} /\ c \in r.started
    \/ r.pc \in {"undo", "stopold"} /\ c \in r.todo

CleanState ==
    /\ \A c \in Name : Present(c) => ~c.old
    /\ CurrentWhole /\ PreviousWhole
    /\ \A c \in Name : Running(c) => c.ver = st.cur \/ Busy(c)
    /\ r.pc # "rerun" => r.at = {}
    /\ ingress = "caddy" /\ d.pc # "commit" /\ r.pc # "commit" => route = CommittedWeb

CleanDeploy ==
    /\ d.pc # "restore"
    /\ Committed => st.prev = d.cur.cur
    /\ d.pc = "web" => d.started \subseteq NewWeb
    /\ d.pc \in {"web", "work", "commit"} => \A c \in d.started : Running(c)
    /\ d.pc \in {"web", "work"} => d.todo \cap d.started = {}
    /\ d.pc = "work" => NewWorkers \subseteq d.todo \cup d.started
    /\ d.pc = "commit" => NewWorkers \subseteq d.started
    /\ d.pc = "prune" => \A c \in d.todo : c.ver # d.cur.cur

CleanRollback ==
    /\ r.pc \notin {"restore", "discard"}
    /\ r.pc # "stopold" => r.target = st.prev
    /\ r.pc \in {"remove", "rerun"} => \A c \in r.todo : ~c.old /\ (c \in r.at \/ Present(c))
    /\ r.pc \in {"remove", "rerun"} => r.todo \cap r.started = {}
    /\ r.pc = "rerun" => \E c \in r.todo : r.at = {c} /\ ~Present(c)
    /\ r.pc \in {"remove", "rerun", "route", "commit"} =>
            /\ \A c \in r.started : Running(c)
            /\ \A c \in Have(r.cur.cur) : Running(c) => c \in r.live
            /\ \A c \in r.live : c.ver = r.cur.cur => Present(c)
    /\ r.pc = "commit" /\ ingress = "caddy" => route = TargetWeb

CleanInv ==
    Clean => /\ CleanState
             /\ d.pc # "idle" => CleanDeploy
             /\ r.pc # "idle" => CleanRollback

\* When nothing has failed by the end of a step, it has not failed before it.
LEMMA CleanSteps ==
  ASSUME Typed, Bounded, [OpsNext]_vars, Clean'
  PROVE  Clean /\ ~Spend("faults") /\ ~Spend("crashes")
  <1>t. /\ budget \in [{"ops", "faults", "crashes"} -> Nat]
        /\ budget.faults \in Nat /\ budget.crashes \in Nat
        /\ MaxFaults \in Nat /\ MaxCrashes \in Nat
    BY TypedMeans, ServerAssumption
  <1>1. budget'.faults = MaxFaults /\ budget'.crashes = MaxCrashes
    BY DEF Clean
  <1>2. budget'.faults <= budget.faults /\ budget'.crashes <= budget.crashes
    BY NextBounded
  <1>3. budget.faults = MaxFaults /\ budget.crashes = MaxCrashes
    BY <1>t, <1>1, <1>2 DEF Bounded
  <1>4. ~Spend("faults") /\ ~Spend("crashes")
    BY <1>t, <1>1, <1>3 DEF Spend
  <1> QED
    BY <1>3, <1>4 DEF Clean

LEMMA WholeUntouched ==
  ASSUME CurrentWhole, PreviousWhole, UNCHANGED st, r'.at = r.at,
         \A c \in Name : c.ver = st.cur => ctr'[c] = ctr[c],
         \A c \in Name : c.ver = st.prev => (ctr'[c] = "absent" <=> ctr[c] = "absent")
  PROVE  CurrentWhole' /\ PreviousWhole'
  <1>1. Have(st.cur)' = Have(st.cur) /\ Have(st.prev)' = Have(st.prev)
    BY DEF Have, Present
  <1>2. \A c \in Have(st.cur) : Running(c) => Running(c)'
    BY DEF Have, Running
  <1>3. CurrentWhole'
    BY <1>1, <1>2 DEF CurrentWhole
  <1>4. PreviousWhole'
    BY <1>1 DEF PreviousWhole
  <1> QED
    BY <1>3, <1>4

\* Under the ingress modes without a fixed port a container that does not run
\* when it is started is a failure.
LEMMA RunFailsSpends ==
  ASSUME ingress # "host", NEW c, RunFails(c)
  PROVE  Spend("faults")
  BY DEF RunFails, PortFree

LEMMA FullMeans ==
  ASSUME NEW v \in Versions, NEW n \in Replicas
  PROVE  /\ Full(v, n) \subseteq Name
         /\ \A c \in Full(v, n) : c.ver = v
         /\ \A c \in Full(v, n) : c.proc = "web" <=> c \in WebNames(v, n)
  <1>1. /\ WebNames(v, n) \subseteq Name
        /\ \A c \in WebNames(v, n) : c.ver = v /\ c.proc = "web"
    BY WebNamesAreWeb
  <1>2. /\ {ContainerName(p, v) : p \in Workers} \subseteq Name
        /\ \A c \in {ContainerName(p, v) : p \in Workers} : c.ver = v
    BY WorkerNames
  <1>3. \A c \in {ContainerName(p, v) : p \in Workers} : c.proc # "web"
    BY ServerAssumption DEF ContainerName
  <1> QED
    BY <1>1, <1>2, <1>3 DEF Full

\* There are n replica names.
LEMMA WebCount ==
  ASSUME NEW v \in Versions, NEW n \in Replicas
  PROVE  Cardinality(WebNames(v, n)) = n
  <1> DEFINE f == [i \in 1..n |-> ReplicaContainerName("web", v, i, n)]
  <1>1. n \in Nat /\ n >= 1
    BY ServerAssumption
  <1>2. f \in [1..n -> WebNames(v, n)]
    BY WebNamesExist DEF WebNames
  <1>3. ASSUME NEW i \in 1..n, NEW j \in 1..n, f[i] = f[j] PROVE i = j
    <2>1. CASE n = 1
      BY <2>1
    <2>2. CASE n # 1
      <3>1. f[i].idx = i /\ f[j].idx = j
        BY <1>1, <2>2 DEF ReplicaContainerName, ContainerName
      <3> QED
        BY <1>3, <3>1
    <2> QED
      BY <2>1, <2>2
  <1>4. \A c \in WebNames(v, n) : \E i \in 1..n : f[i] = c
    BY DEF WebNames
  <1>5. ExistsBijection(1..n, WebNames(v, n))
    <2>1. f \in Bijection(1..n, WebNames(v, n))
      BY <1>2, <1>3, <1>4 DEF Bijection, Injection, Surjection, IsInjective
    <2> QED
      BY <2>1 DEF ExistsBijection
  <1> QED
    BY <1>1, <1>5, FS_CountingElements

LEMMA DeployKeepsClean ==
  ASSUME Typed, CalmInv, CleanInv, Clean, ingress # "host", DeployStep,
         d.pc # "idle", r.pc = "idle", UNCHANGED <<r, ingress>>, ~Spend("faults")
  PROVE  CleanState' /\ (d'.pc # "idle" => CleanDeploy')
  <1> DEFINE Others == \A c \in Name : Running(c) => c.ver = st.cur \/ Busy(c)
             NoneOld == \A c \in Name : Present(c) => ~c.old
             Goal == CleanState' /\ (d'.pc # "idle" => CleanDeploy')
  <1>t. /\ ctr \in [Name -> Status] /\ route \subseteq Name
        /\ d \in ADeploy /\ d.ver \in Versions /\ d.cur \in State /\ st \in State
        /\ d.todo \subseteq Name /\ d.started \subseteq Name
    BY TypedMeans DEF ADeploy
  <1>i. CalmDeploy /\ CleanState /\ CleanDeploy /\ CurrentWhole /\ PreviousWhole
    BY DEF CalmInv, CleanInv, CleanState
  <1>r. r.at = {} /\ r'.at = {} /\ r'.pc = "idle"
    BY <1>i DEF CleanState
  <1>v. d.pc # "read" /\ ~Committed => d.cur = st
    BY <1>i, ServerAssumption DEF CalmDeploy, Clean
  <1>e. EndDeploy => d'.pc = "idle"
    BY DEF EndDeploy, NoDeploy
  <1>n. /\ NewWeb # {} /\ NewWeb \subseteq WebOf(d.ver) /\ NewWorkers \subseteq Name
        /\ \A c \in NewWeb : ~c.old /\ c.ver = d.ver /\ c.proc = "web" /\ c \in Name
        /\ \A c \in NewWorkers : c.ver = d.ver /\ c.proc # "web" /\ ~c.old
        /\ WebOf(d.ver) \subseteq Name /\ \A c \in WebOf(d.ver) : c.ver = d.ver /\ c.proc = "web"
    BY <1>i, NewNames DEF CalmDeploy, WebOf
  <1>g. ASSUME NEW l \in Labels, NEW C, Goto(l, C)
        PROVE  /\ d'.pc = l /\ d'.todo = C /\ d'.ver = d.ver /\ d'.cur = d.cur
               /\ d'.reps = d.reps /\ d'.workers = d.workers
               /\ d'.started = d.started /\ NewWeb' = NewWeb /\ NewWorkers' = NewWorkers
    BY <1>t, <1>g, GotoMeans
  \* What a step leaves that changes nothing but the deploy.
  <1>u. ASSUME UNCHANGED <<ctr, st>>,
               ingress = "caddy" /\ d'.pc # "commit" => route' = CommittedWeb,
               \A c \in Name : Running(c) /\ c.ver # st.cur => Busy(c)'
        PROVE  CleanState'
    <2>1. CurrentWhole' /\ PreviousWhole'
      BY <1>i, <1>r, <1>u, WholeUntouched
    <2>2. CommittedWeb' = CommittedWeb
      BY <1>u DEF CommittedWeb
    <2> QED
      BY <1>i, <1>r, <1>u, <2>1, <2>2 DEF CleanState, Present, Running
  \* What a step leaves that changes one container of another version.
  <1>o. ASSUME NEW x \in Name, x.ver \notin {st.cur, st.prev}, UNCHANGED <<route, st>>,
               \A c \in Name \ {x} : ctr'[c] = ctr[c],
               ctr'[x] # "absent" => ~x.old,
               Running(x)' => Busy(x)',
               \A c \in Name \ {x} : Busy(c) => Busy(c)',
               d.pc # "commit"
        PROVE  CleanState'
    <2>1. CurrentWhole' /\ PreviousWhole'
      BY <1>i, <1>r, <1>o, WholeUntouched
    <2>2. CommittedWeb' = CommittedWeb
      BY <1>o DEF CommittedWeb
    <2>3. \A c \in Name : Present(c)' => ~c.old
      BY <1>i, <1>o DEF CleanState, Present
    <2>4. \A c \in Name : Running(c)' => c.ver = st'.cur \/ Busy(c)'
      BY <1>i, <1>o DEF CleanState, Running
    <2> QED
      BY <1>i, <1>r, <1>o, <2>1, <2>2, <2>3, <2>4 DEF CleanState
  <1>1. CASE ReadState
    <2>1. d.pc = "read" /\ UNCHANGED <<ctr, route, st>> /\ st.cur # d.ver
      BY <1>1, <1>i DEF ReadState, CalmDeploy, Committed
    <2>2. d' = [d EXCEPT !.cur = st, !.pc = "ready", !.todo = {}]
      BY <1>1, <2>1 DEF ReadState
    <2>3. d'.pc = "ready"
      BY <1>t, <2>2 DEF ADeploy
    <2>4. CleanState'
      BY <1>i, <1>r, <1>u, <2>1, <2>3 DEF CleanState, Busy
    <2> QED
      BY <2>3, <2>4 DEF CleanDeploy, Committed
  <1>2. CASE PrepareFails \/ DisplaceFails \/ RestoreRouteFails \/ RestoreRoute \/ CommitFails
    <2>1. CASE RestoreRouteFails \/ RestoreRoute
      BY <1>i, <2>1 DEF RestoreRouteFails, RestoreRoute, CleanDeploy
    <2>2. CASE PrepareFails \/ DisplaceFails \/ CommitFails
      BY <2>2 DEF PrepareFails, DisplaceFails, CommitFails, CommandFails
    <2> QED
      BY <1>2, <2>1, <2>2
  <1>3. CASE CleanedUp \/ Aborted \/ Deployed
    <2>1. /\ d.pc \in {"cleanup", "prune", "stopold"} /\ d.todo = {} /\ EndDeploy
          /\ UNCHANGED <<ctr, route, st>>
      BY <1>3, <1>i DEF CleanedUp, Aborted, Deployed, At, CalmDeploy, HostLabels, serverVars
    <2>2. \A c : ~Busy(c)
      BY <1>r, <2>1, r.pc = "idle" DEF Busy
    <2>3. CleanState'
      BY <1>e, <1>i, <1>r, <1>u, <2>1, <2>2 DEF CleanState
    <2> QED
      BY <1>e, <2>1, <2>3
  <1>4. CASE StartWebs
    <2>1. d.pc = "ready" /\ Goto("web", NewWeb) /\ UNCHANGED <<ctr, route, st>> /\ d.started = {}
      BY <1>4, <1>i DEF StartWebs, Ready, At, CalmDeploy, HostLabels, serverVars
    <2>2. CleanDeploy'
      BY <1>g, <2>1 DEF CleanDeploy, Committed, Labels
    <2>3. CleanState'
      BY <1>g, <1>i, <1>r, <1>u, <2>1 DEF CleanState, Busy, Labels
    <2> QED
      BY <2>2, <2>3
  <1>5. CASE ProbePasses
    <2>1. /\ d.pc = "web" /\ d.todo = {} /\ \A c \in NewWeb : Running(c)
          /\ ctr' = Proven(NewWeb) /\ Goto("work", NewWorkers) /\ UNCHANGED <<route, st>>
      BY <1>5 DEF ProbePasses, At
    <2>2. /\ d'.pc = "work" /\ d'.todo = NewWorkers /\ d'.started = d.started /\ NewWeb' = NewWeb
          /\ NewWorkers' = NewWorkers
      BY <1>g, <2>1 DEF Labels
    <2>3. \A c \in Name : /\ c \in NewWeb => ctr'[c] = "healthy"
                          /\ c \notin NewWeb => ctr'[c] = ctr[c]
      BY <2>1 DEF Proven
    <2>4. \A c \in NewWeb : c.ver \notin {st.cur, st.prev}
      BY <1>i, <1>n, <2>1 DEF CalmDeploy, Committed
    <2>5. CurrentWhole' /\ PreviousWhole'
      BY <1>i, <1>r, <2>1, <2>3, <2>4, WholeUntouched
    <2>6. \A c \in Name : Running(c)' <=> Running(c)
      BY <2>1, <2>3 DEF Running
    <2>7. \A c \in Name : Present(c)' <=> Present(c)
      BY <2>1, <2>3 DEF Running, Present
    <2>8. \A c : Busy(c) => Busy(c)'
      BY <1>r, <2>1, <2>2 DEF Busy
    <2>9. CommittedWeb' = CommittedWeb
      BY <2>1 DEF CommittedWeb
    <2>10. CleanState'
      BY <1>i, <1>r, <2>1, <2>2, <2>5, <2>6, <2>7, <2>8, <2>9 DEF CleanState
    <2>11. CleanDeploy'
      <3>1. NewWorkers \cap d.started = {}
        BY <1>i, <1>n, <2>1 DEF CleanDeploy
      <3>2. \A c \in d.started : Running(c)'
        BY <1>i, <1>t, <2>1, <2>6 DEF CleanDeploy
      <3> QED
        BY <2>2, <3>1, <3>2 DEF CleanDeploy, Committed
    <2> QED
      BY <2>10, <2>11
  <1>6. CASE ProbeFails
    <2>1. d.pc = "web" /\ Goto("cleanup", d.started) /\ UNCHANGED <<ctr, route, st>>
      BY <1>6 DEF ProbeFails, At, serverVars
    <2>2. CleanDeploy'
      BY <1>g, <2>1 DEF CleanDeploy, Committed, Labels
    <2>3. \A c : Busy(c) => Busy(c)'
      BY <1>g, <2>1, r.pc = "idle" DEF Busy, Labels
    <2>4. CleanState'
      BY <1>g, <1>i, <1>u, <2>1, <2>3 DEF CleanState, Labels
    <2> QED
      BY <2>2, <2>4
  <1>7. CASE Route
    <2>1. /\ d.pc = "work" /\ d.todo = {} /\ UNCHANGED <<ctr, st>>
          /\ route' = NewWeb /\ Goto("commit", {})
      BY <1>7 DEF Route, At
    <2>2. CleanDeploy'
      BY <1>g, <1>i, <2>1 DEF CleanDeploy, Committed, Labels, Running
    <2>3. \A c : Busy(c) => Busy(c)'
      BY <1>g, <2>1, r.pc = "idle" DEF Busy, Labels
    <2>4. CleanState'
      BY <1>g, <1>i, <1>u, <2>1, <2>3 DEF CleanState, Labels
    <2> QED
      BY <2>2, <2>4
  <1>8. CASE Commit
    <2>1. /\ d.pc \in {"commit", "work"} /\ (d.pc = "work" => d.todo = {} /\ ingress # "caddy")
          /\ UNCHANGED <<ctr, route>>
          /\ st' = [cur |-> d.ver, reps |-> d.reps, prev |-> d.cur.cur]
      BY <1>8 DEF Commit, Routed, At
    <2>2. /\ st'.cur = d.ver /\ st'.reps = d.reps /\ st'.prev = st.cur
          /\ d.cur = st /\ d.ver # st.cur /\ d.workers = Workers /\ d.reps \in Replicas
      BY <1>i, <1>v, <2>1 DEF CalmDeploy, Committed
    <2>3. NewWorkers \subseteq d.started /\ \A c \in d.started : Running(c) /\ c.ver = d.ver
      BY <1>i, <2>1 DEF CleanDeploy, CalmDeploy
    <2>4. /\ \A c \in NewWeb : ctr[c] = "healthy"
          /\ \A c \in WebOf(d.ver) : Present(c) => c \in NewWeb
      BY <1>i, <2>1 DEF CalmDeploy
    <2>5. Have(d.ver) = Full(d.ver, d.reps) /\ \A c \in Have(d.ver) : Running(c)
      <3>1. Full(d.ver, d.reps) = NewWeb \cup NewWorkers
        BY <2>2 DEF Full, NewWeb, NewWorkers
      <3>2. \A c \in NewWeb \cup NewWorkers : Running(c) /\ c \in Have(d.ver)
        BY <1>n, <2>3, <2>4 DEF Running, Have, Present
      <3>3. ASSUME NEW c \in Have(d.ver) PROVE c \in NewWeb \cup NewWorkers
        <4>1. c \in Name /\ c.ver = d.ver /\ Present(c) /\ ~c.old
          BY <1>i DEF Have, CleanState
        <4>2. CASE c.proc = "web"
          BY <2>4, <4>1, <4>2 DEF WebOf
        <4>3. CASE c.proc # "web"
          <5>1. c \in [proc : Workers, ver : Versions, idx : {0}, old : BOOLEAN]
            BY <4>1, <4>3 DEF Name
          <5>2. c = ContainerName(c.proc, d.ver) /\ c.proc \in Workers
            BY <4>1, <5>1 DEF ContainerName
          <5> QED
            BY <2>2, <5>2 DEF NewWorkers
        <4> QED
          BY <4>2, <4>3
      <3> QED
        BY <3>1, <3>2, <3>3
    <2>7. CurrentWhole'
      BY <2>1, <2>2, <2>5 DEF CurrentWhole, Running, Have, Present
    <2>8. PreviousWhole'
      <3>1. ASSUME st.cur # NoVersion
            PROVE  Full(st.cur, st.reps) = Have(st.cur) /\ st.reps \in Replicas
        BY <1>i, <3>1 DEF CurrentWhole
      <3>2. d.ver # NoVersion
        BY <1>t, ServerAssumption
      <3> QED
        BY <1>r, <2>1, <2>2, <3>1, <3>2 DEF PreviousWhole, Have, Present
    <2>9. ASSUME st.cur # NoVersion
          PROVE  PreviousWeb \cup PreviousWorkers = Have(st.cur)
      <3>1. ~SameVersion
        BY <2>2 DEF SameVersion
      <3>2. PreviousWeb \cup PreviousWorkers = Full(st.cur, st.reps)
        BY <2>2, <3>1 DEF PreviousWeb, PreviousWorkers, AsPrevious, Full
      <3> QED
        BY <1>i, <2>9, <3>2 DEF CurrentWhole
    <2>10. d'.pc = "stopold" /\ (st.cur # NoVersion => d'.todo = Have(st.cur))
      <3>1. CASE st.cur = NoVersion
        <4>1. Goto("stopold", {})
          BY <1>8, <2>2, <3>1 DEF Commit
        <4> QED
          BY <1>g, <3>1, <4>1 DEF Labels
      <3>2. CASE st.cur # NoVersion
        <4>1. Goto("stopold", PreviousWeb \cup PreviousWorkers)
          BY <1>8, <2>2, <3>2 DEF Commit
        <4> QED
          BY <1>g, <2>9, <3>2, <4>1 DEF Labels
      <3> QED
        BY <3>1, <3>2
    <2>11. \A c \in Name : Running(c)' => c.ver = st'.cur \/ Busy(c)'
      <3> SUFFICES ASSUME NEW c \in Name, Running(c), c.ver # d.ver PROVE Busy(c)'
        BY <2>1, <2>2 DEF Running
      <3>1. ~Busy(c)
        BY <2>1, <2>3, r.pc = "idle" DEF Busy
      <3>2. c.ver = st.cur /\ st.cur # NoVersion
        BY <1>i, <3>1, NameHasVersion, ServerAssumption DEF CleanState
      <3>3. c \in Have(st.cur)
        BY <3>2 DEF Have, Present, Running
      <3> QED
        BY <2>10, <3>2, <3>3 DEF Busy
    <2>12. ingress = "caddy" => route' = CommittedWeb'
      <3>1. CommittedWeb' = NewWeb
        BY <2>1 DEF CommittedWeb, NewWeb
      <3> QED
        BY <1>i, <2>1, <3>1 DEF CalmDeploy
    <2>13. CleanState'
      BY <1>i, <1>r, <2>1, <2>7, <2>8, <2>11, <2>12 DEF CleanState, Present
    <2>14. CleanDeploy'
      <3>1. d'.cur = d.cur
        <4>1. PICK C : Goto("stopold", C)
          BY <1>8 DEF Commit
        <4> QED
          BY <1>g, <4>1 DEF Labels
      <3> QED
        BY <2>2, <2>10, <3>1 DEF CleanDeploy, Committed
    <2> QED
      BY <2>13, <2>14
  <1>9. CASE PruneLists
    <2>1. d.pc = "stopold" /\ d.todo = {} /\ UNCHANGED <<ctr, route, st>>
      BY <1>9 DEF PruneLists, At
    <2>2. PICK C : Goto("prune", C) /\ \A c \in C : c.ver # d.cur.cur
      BY <1>9 DEF PruneLists, ToPrune, ProtectedVersions
    <2>3. CleanDeploy'
      BY <1>g, <1>i, <2>1, <2>2 DEF CleanDeploy, Committed, Labels
    <2>4. \A c : ~Busy(c)
      BY <2>1, r.pc = "idle" DEF Busy
    <2>5. CleanState'
      BY <1>i, <1>u, <2>1, <2>4 DEF CleanState
    <2> QED
      BY <2>3, <2>5
  <1>10. ASSUME NEW c \in d.todo, RunContainer(c) \/ RunWebFails(c) \/ RunWorkerFails(c)
         PROVE  Goal
    <2>1. d.pc \in {"web", "work"} /\ UNCHANGED <<route, st>> /\ c \in Name
      BY <1>t, <1>10 DEF RunContainer, RunWebFails, RunWorkerFails, Loop
    <2>2. /\ c.ver = d.ver /\ c.ver \notin {st.cur, st.prev} /\ c \notin d.started /\ ~c.old
          /\ d.pc = "web" => c \in NewWeb
      BY <1>i, <1>n, <2>1 DEF CalmDeploy, CleanDeploy, Committed
    <2>3. ~Running(c)
      BY <1>i, <2>1, <2>2, r.pc = "idle" DEF CleanState, Busy
    <2>4. RunContainer(c)
      <3>1. ~RunRefused(c) /\ ~RunFails(c)
        BY <2>3, RunFailsSpends DEF RunRefused
      <3> QED
        BY <1>10, <3>1 DEF RunWebFails, RunWorkerFails, RunNot
    <2>5. /\ d'.pc = d.pc /\ d'.todo = d.todo \ {c} /\ d'.started = d.started \cup {c}
          /\ NewWeb' = NewWeb /\ NewWorkers' = NewWorkers
      BY <1>t, <2>4 DEF RunContainer, ADeploy, NewWeb, NewWorkers
    <2>6. ctr' = [ctr EXCEPT ![c] = "started"]
      BY <2>4 DEF RunContainer, RunSucceeds
    <2>7. \A x \in d'.started : Running(x)'
      BY <1>i, <1>t, <2>1, <2>5, <2>6 DEF CleanDeploy, Running
    <2>8. CleanDeploy'
      BY <1>i, <2>1, <2>2, <2>5, <2>7 DEF CleanDeploy, Committed
    <2>9. \A x : Busy(x) => Busy(x)'
      BY <2>1, <2>5, r.pc = "idle" DEF Busy
    <2>10. Busy(c)'
      BY <2>1, <2>5 DEF Busy
    <2>11. CleanState'
      BY <1>o, <1>t, <2>1, <2>2, <2>6, <2>9, <2>10
    <2> QED
      BY <2>8, <2>11
  <1>11. ASSUME NEW c \in d.todo, CleanUp(c) \/ StopOld(c) \/ Prune(c)
         PROVE  Goal
    <2>1. /\ d.pc \in {"cleanup", "stopold", "prune"} /\ UNCHANGED <<route, st>> /\ c \in Name
          /\ Done(c)
      BY <1>t, <1>11 DEF CleanUp, StopOld, Prune, Loop
    <2>2. /\ d'.pc = d.pc /\ d'.todo = d.todo \ {c} /\ d'.cur = d.cur
      BY <1>t, <2>1, DoneMeans
    <2>3. CleanDeploy'
      BY <1>i, <2>1, <2>2 DEF CleanDeploy, Committed
    <2>4. \A x \in Name \ {c} : Busy(x) => Busy(x)'
      BY <2>1, <2>2, r.pc = "idle" DEF Busy
    <2>5. CASE CleanUp(c) \/ Prune(c)
      <3>1. ctr' = [ctr EXCEPT ![c] = "absent"]
        BY <2>5 DEF CleanUp, Prune, StopRemoveSucceeds, StopRemoveFails, CommandFails, Removed
      <3>2. c.ver \notin {st.cur, st.prev}
        BY <1>i, <2>1, <2>5 DEF CleanUp, Prune, Loop, CalmDeploy, CleanDeploy, Committed
      <3>3. CleanState'
        BY <1>o, <1>t, <2>1, <2>4, <3>1, <3>2 DEF Running
      <3> QED
        BY <2>3, <3>3
    <2>6. CASE StopOld(c)
      <3>1. ~SameVersion /\ d.pc = "stopold" /\ c.ver = d.cur.cur /\ c.ver # st.cur
        BY <1>i, <2>6 DEF CalmDeploy, SameVersion, StopOld, Loop, Committed
      <3>2. ctr' = Stopped(c)
        BY <2>6, <3>1 DEF StopOld, StopSucceeds, CommandFails
      <3>3. /\ \A x \in Name \ {c} : ctr'[x] = ctr[x]
            /\ \A x \in Name : ctr'[x] = "absent" <=> ctr[x] = "absent"
            /\ ~Running(c)'
        BY <1>t, <2>1, <3>2 DEF Stopped, Running
      <3>4. CurrentWhole' /\ PreviousWhole'
        BY <1>i, <1>r, <2>1, <3>1, <3>3, WholeUntouched
      <3>5. CommittedWeb' = CommittedWeb
        BY <2>1 DEF CommittedWeb
      <3>6. \A x \in Name : Running(x)' => x.ver = st'.cur \/ Busy(x)'
        BY <1>i, <2>1, <2>4, <3>3 DEF CleanState, Running
      <3>7. \A x \in Name : Present(x)' => ~x.old
        BY <1>i, <3>3 DEF CleanState, Present
      <3>8. CleanState'
        BY <1>i, <1>r, <2>1, <2>2, <3>1, <3>4, <3>5, <3>6, <3>7 DEF CleanState
      <3> QED
        BY <2>3, <3>8
    <2> QED
      BY <1>11, <2>5, <2>6
  <1>12. CASE PlainNames \/ ListHostWeb \/ HostStopped \/ HostRestored
    BY <1>12, <1>i DEF PlainNames, ListHostWeb, HostStopped, HostRestored, At, CalmDeploy,
                       HostLabels
  <1>13. ASSUME NEW c \in d.todo,
                \/ PutAside(c) \/ Displace(c) \/ HostStop(c) \/ HostRemove(c) \/ HostRerun(c)
                \/ HostStart(c) \/ HostDiscard(c)
         PROVE  Goal
    BY <1>13, <1>i DEF PutAside, Displace, HostStop, HostRemove, HostRerun, HostStart, HostDiscard,
                       Loop, CalmDeploy, HostLabels
  <1> QED
    BY <1>1, <1>2, <1>3, <1>4, <1>5, <1>6, <1>7, <1>8, <1>9, <1>10, <1>11, <1>12, <1>13
       DEF DeployStep

LEMMA RollbackKeepsClean ==
  ASSUME Typed, CalmInv, CleanInv, Clean, ingress # "host", RollbackStep,
         r.pc # "idle", d.pc = "idle", UNCHANGED <<d, ingress>>, ~Spend("faults")
  PROVE  CleanState' /\ (r'.pc # "idle" => CleanRollback')
  <1> DEFINE Goal == CleanState' /\ (r'.pc # "idle" => CleanRollback')
  <1>t. /\ ctr \in [Name -> Status] /\ route \subseteq Name
        /\ r \in ARollback /\ r.cur \in State /\ st \in State
        /\ r.todo \subseteq Name /\ r.started \subseteq Name /\ r.live \subseteq Name
    BY TypedMeans DEF ARollback
  <1>i. CalmRollback /\ CleanState /\ CleanRollback /\ CurrentWhole /\ PreviousWhole
    BY DEF CalmInv, CleanInv, CleanState
  <1>e. EndRollback => r'.pc = "idle" /\ r'.at = {}
    BY DEF EndRollback, NoRollback
  <1>a. r.pc # "rerun" => r.at = {}
    BY <1>i DEF CleanState
  <1>w. /\ TargetWeb \subseteq r.started
        /\ \A c \in TargetWeb : c.ver = r.target /\ c.proc = "web" /\ c \in Name
    BY <1>i, <1>t DEF TargetWeb, Web, CalmRollback
  <1>g. ASSUME NEW l \in RLabels, NEW C, RGoto(l, C)
        PROVE  /\ r'.pc = l /\ r'.todo = C
               /\ r'.target = r.target /\ r'.cur = r.cur /\ r'.started = r.started
               /\ r'.live = r.live /\ r'.at = r.at /\ TargetWeb' = TargetWeb
    BY <1>t, <1>g, RGotoMeans
  \* What a step leaves that changes nothing but the rollback.
  <1>u. ASSUME UNCHANGED <<ctr, st>>, r'.at = {}, r.pc # "rerun",
               ingress = "caddy" /\ r'.pc # "commit" => route' = CommittedWeb,
               \A c \in Name : Running(c) /\ c.ver # st.cur => Busy(c)'
        PROVE  CleanState'
    <2>1. CurrentWhole' /\ PreviousWhole'
      BY <1>a, <1>i, <1>u, WholeUntouched
    <2>2. CommittedWeb' = CommittedWeb
      BY <1>u DEF CommittedWeb
    <2> QED
      BY <1>i, <1>u, <2>1, <2>2 DEF CleanState, Present, Running
  <1>1. CASE ListContainers
    <2> DEFINE seen == {c \in Name : Present(c)}
               rest == {c \in seen : c.ver = r.target}
    <2>1. r.pc = "list" /\ UNCHANGED <<ctr, route, st>>
      BY <1>1 DEF ListContainers, serverVars
    <2>2. r' = [r EXCEPT !.seen = seen, !.live = {c \in seen : Running(c)},
                         !.pc = "remove", !.todo = rest]
      BY <1>1 DEF ListContainers
    <2>3. /\ r'.pc = "remove" /\ r'.todo = rest /\ r'.target = r.target /\ r'.cur = r.cur
          /\ r'.started = {} /\ r'.at = {} /\ r'.live = {c \in seen : Running(c)}
      BY <1>a, <1>i, <1>t, <2>1, <2>2 DEF ARollback, CalmRollback
    <2>4. CleanRollback'
      BY <1>i, <2>1, <2>3 DEF CleanRollback, CleanState, Have, Present, Running
    <2>5. \A c : ~Busy(c)
      BY <2>1, d.pc = "idle" DEF Busy
    <2>6. CleanState'
      BY <1>i, <1>u, <2>1, <2>3, <2>5 DEF CleanState
    <2> QED
      BY <2>4, <2>6
  <1>2. CASE ListFails \/ RCommitFails \/ RRestore \/ RRestoreFails
    <2>1. CASE RRestore \/ RRestoreFails
      BY <1>i, <2>1 DEF RRestore, RRestoreFails, CleanRollback
    <2>2. CASE ListFails \/ RCommitFails
      BY <2>2 DEF ListFails, RCommitFails, CommandFails
    <2> QED
      BY <1>2, <2>1, <2>2
  \* At the end of its loop the rollback has started all there is of its
  \* target, which is what some deploy started.
  <1>f. ASSUME r.pc \in {"remove", "route", "commit"}, r.pc = "remove" => r.todo = {}
        PROVE  \E n \in Replicas : /\ Full(r.target, n) = Have(r.target)
                                   /\ r.started = Have(r.target)
                                   /\ TargetWeb = WebNames(r.target, n)
    <2>1. r.target = st.prev /\ r.target \in Versions /\ r.at = {}
      BY <1>a, <1>f, <1>i DEF CleanRollback, CalmRollback
    <2>2. PICK n \in Replicas : Full(r.target, n) = Have(r.target)
      BY <1>i, <2>1, ServerAssumption DEF PreviousWhole
    <2>3. r.started = Have(r.target)
      <3>1. r.started \subseteq Have(r.target)
        BY <1>f, <1>i, <1>t DEF CalmRollback, CleanRollback, Have, Running, Present
      <3>2. Have(r.target) \subseteq r.started
        BY <1>f, <1>i DEF CalmRollback
      <3> QED
        BY <3>1, <3>2
    <2>4. TargetWeb = WebNames(r.target, n)
      <3>1. \A c \in WebNames(r.target, n) : c \in Full(r.target, n)
        BY DEF Full
      <3> QED
        BY <2>1, <2>2, <2>3, <3>1, FullMeans DEF TargetWeb, Web
    <2> QED
      BY <2>2, <2>3, <2>4
  <1>3. CASE NoTarget \/ RProbeBreaks \/ RRouteFails
    <2>1. r.pc \in {"remove", "route"} /\ (r.pc = "remove" => r.todo = {})
      BY <1>3 DEF NoTarget, RProbeBreaks, RRouteFails, RAt
    <2>2. TargetWeb # {}
      BY <1>f, <1>i, <2>1, WebNamesExist DEF CalmRollback
    <2>3. \A c \in TargetWeb : Running(c) /\ Present(c)
      BY <1>i, <1>w, <2>1 DEF CleanRollback, Running, Present
    <2> QED
      BY <1>3, <2>2, <2>3 DEF NoTarget, RProbeBreaks, RRouteFails, CommandFails
  <1>4. CASE RolledBack
    <2>1. /\ r.pc \in {"stopold", "undoremove"} /\ r.todo = {} /\ EndRollback
          /\ UNCHANGED <<ctr, route, st>>
      BY <1>4, <1>i DEF RolledBack, RAt, CleanRollback, serverVars
    <2>2. \A c : ~Busy(c)
      BY <2>1, d.pc = "idle" DEF Busy
    <2>3. CleanState'
      BY <1>e, <1>i, <1>u, <2>1, <2>2 DEF CleanState
    <2> QED
      BY <1>e, <2>1, <2>3
  <1>5. CASE RProbePasses
    <2>1. /\ r.pc = "remove" /\ r.todo = {} /\ ctr' = Proven(TargetWeb)
          /\ UNCHANGED <<route, st>> /\ \A c \in TargetWeb : Running(c)
      BY <1>5 DEF RProbePasses, RAt
    <2>2. \A c \in Name : /\ c \in TargetWeb => ctr'[c] = "healthy"
                          /\ c \notin TargetWeb => ctr'[c] = ctr[c]
      BY <2>1 DEF Proven
    <2>3. \A c \in Name : (Running(c)' <=> Running(c)) /\ (ctr'[c] = "absent" <=> ctr[c] = "absent")
      BY <2>1, <2>2 DEF Running
    <2>4. PICK l \in {"route", "commit"} : RGoto(l, {}) /\ (l = "commit" => ingress # "caddy")
      BY <1>5 DEF RProbePasses
    <2>5. /\ r'.pc = l /\ r'.target = r.target /\ r'.cur = r.cur /\ r'.started = r.started
          /\ r'.live = r.live /\ r'.at = {} /\ r.at = {}
      BY <1>a, <1>g, <2>1, <2>4 DEF RLabels
    <2>6. \A c \in TargetWeb : c.ver # st.cur
      BY <1>i, <1>w, <2>1 DEF CalmRollback
    <2>7. CurrentWhole' /\ PreviousWhole'
      BY <1>i, <2>1, <2>2, <2>3, <2>5, <2>6, WholeUntouched
    <2>8. \A c : Busy(c) => Busy(c)'
      BY <2>1, <2>5, d.pc = "idle" DEF Busy
    <2>9. CommittedWeb' = CommittedWeb
      BY <2>1 DEF CommittedWeb
    <2>10. CleanState'
      BY <1>i, <2>1, <2>3, <2>4, <2>5, <2>7, <2>8, <2>9 DEF CleanState, Present
    <2>11. CleanRollback'
      BY <1>i, <1>t, <2>1, <2>3, <2>4, <2>5 DEF CleanRollback, Have, Present
    <2> QED
      BY <2>10, <2>11
  <1>6. CASE RProbeFails
    <2>1. r.pc = "remove" /\ RGoto("undo", r.started) /\ UNCHANGED <<ctr, route, st>>
      BY <1>6 DEF RProbeFails, RAt, serverVars
    <2>2. CleanRollback'
      BY <1>g, <1>i, <2>1 DEF CleanRollback, RLabels
    <2>3. \A c : Busy(c) => Busy(c)'
      BY <1>g, <2>1, d.pc = "idle" DEF Busy, RLabels
    <2>4. CleanState'
      BY <1>a, <1>g, <1>i, <1>u, <2>1, <2>3 DEF CleanState, RLabels
    <2> QED
      BY <2>2, <2>4
  <1>7. CASE RRoute
    <2>1. r.pc = "route" /\ route' = TargetWeb /\ RGoto("commit", {}) /\ UNCHANGED <<ctr, st>>
      BY <1>7 DEF RRoute
    <2>2. CleanRollback'
      BY <1>g, <1>i, <2>1 DEF CleanRollback, RLabels, Have, Present, Running
    <2>3. \A c : Busy(c) => Busy(c)'
      BY <1>g, <2>1, d.pc = "idle" DEF Busy, RLabels
    <2>4. CleanState'
      BY <1>a, <1>g, <1>i, <1>u, <2>1, <2>3 DEF CleanState, RLabels
    <2> QED
      BY <2>2, <2>4
  <1>8. CASE RCommit
    <2>1. /\ r.pc = "commit" /\ UNCHANGED <<ctr, route>>
          /\ st' = [cur |-> r.target, reps |-> Cardinality(TargetWeb), prev |-> r.cur.cur]
          /\ RGoto("stopold", {c \in r.live : c.ver = r.cur.cur})
      BY <1>8 DEF RCommit
    <2>2. /\ r'.pc = "stopold" /\ r'.todo = {c \in r.live : c.ver = r.cur.cur} /\ r'.at = {}
      BY <1>a, <1>g, <2>1 DEF RLabels
    <2>3. PICK n \in Replicas : /\ Full(r.target, n) = Have(r.target)
                                /\ r.started = Have(r.target)
                                /\ TargetWeb = WebNames(r.target, n)
      BY <1>f, <2>1
    <2>4. /\ r.target \in Versions /\ r.cur = st /\ st.cur # NoVersion /\ r.target # st.cur
          /\ \A c \in r.started : Running(c)
          /\ \A c \in Have(st.cur) : Running(c) => c \in r.live
      BY <1>i, <2>1 DEF CalmRollback, CleanRollback
    <2>5. Cardinality(TargetWeb) = n
      BY <2>3, <2>4, WebCount
    <2>6. CurrentWhole'
      BY <2>1, <2>3, <2>4, <2>5 DEF CurrentWhole, Running, Have, Present
    <2>7. PreviousWhole'
      <3>1. Full(st.cur, st.reps) = Have(st.cur) /\ st.reps \in Replicas
        BY <1>i, <2>4 DEF CurrentWhole
      <3>2. r.target # NoVersion
        BY <2>4, ServerAssumption
      <3> QED
        BY <2>1, <2>2, <2>4, <3>1, <3>2 DEF PreviousWhole, Have, Present
    <2>8. \A c \in Name : Running(c)' => c.ver = st'.cur \/ Busy(c)'
      <3> SUFFICES ASSUME NEW c \in Name, Running(c), c.ver # r.target PROVE Busy(c)'
        BY <2>1 DEF Running
      <3>1. ~Busy(c)
        BY <1>i, <2>1, d.pc = "idle" DEF Busy, CalmRollback
      <3>2. c.ver = st.cur
        BY <1>i, <3>1 DEF CleanState
      <3>3. c \in r.live
        BY <2>4, <3>2 DEF Have, Present, Running
      <3> QED
        BY <2>2, <2>4, <3>2, <3>3 DEF Busy
    <2>9. ingress = "caddy" => route' = CommittedWeb'
      BY <1>i, <2>1, <2>3, <2>5 DEF CommittedWeb, CleanRollback
    <2>10. CleanState'
      BY <1>i, <2>1, <2>2, <2>6, <2>7, <2>8, <2>9 DEF CleanState, Present
    <2>11. CleanRollback'
      BY <2>2 DEF CleanRollback
    <2> QED
      BY <2>10, <2>11
  <1>9. CASE RUndone
    <2>1. r.pc = "undo" /\ r.todo = {} /\ RGoto("undoremove", r.displaced)
          /\ UNCHANGED <<ctr, route, st>>
      BY <1>9 DEF RUndone, RAt, serverVars
    <2>2. CleanRollback'
      BY <1>g, <1>i, <2>1 DEF CleanRollback, RLabels
    <2>3. \A c : ~Busy(c)
      BY <2>1, d.pc = "idle" DEF Busy
    <2>4. CleanState'
      BY <1>a, <1>g, <1>i, <1>u, <2>1, <2>3 DEF CleanState, RLabels
    <2> QED
      BY <2>2, <2>4
  <1>10. ASSUME NEW c \in r.todo,
                \/ RemoveTarget(c) \/ RemoveTargetFails(c) \/ RunTarget(c) \/ RunTargetFails(c)
         PROVE  Goal
    <2>1. r.pc \in {"remove", "rerun"} /\ UNCHANGED <<route, st>> /\ c \in Name
      BY <1>t, <1>10 DEF RemoveTarget, RemoveTargetFails, RunTarget, RunTargetFails, RLoop
    <2>2. c.ver = r.target /\ c.ver # st.cur /\ r.target = st.prev /\ st.prev # NoVersion /\ ~c.old
      BY <1>i, <2>1, ServerAssumption DEF CalmRollback, CleanRollback
    <2>3. CASE RemoveTargetFails(c) \/ RunTargetFails(c)
      <3>1. CASE RemoveTargetFails(c)
        <4>1. r.pc = "remove" /\ r.at = {}
          BY <1>a, <3>1 DEF RemoveTargetFails, RLoop
        <4>2. Present(c)
          BY <1>i, <4>1 DEF CleanRollback
        <4> QED
          BY <3>1, <4>2 DEF RemoveTargetFails, CommandFails
      <3>2. CASE RunTargetFails(c)
        <4>1. r.pc = "rerun" /\ c \in r.at /\ RecreateFails(c)
          BY <3>2 DEF RunTargetFails
        <4>2. ~Present(c)
          BY <1>i, <4>1 DEF CleanRollback
        <4>3. RunFails(c)
          BY <4>1, <4>2 DEF RecreateFails
        <4> QED
          BY <4>3, RunFailsSpends
      <3> QED
        BY <2>3, <3>1, <3>2
    <2>4. CASE RemoveTarget(c)
      <3>1. r.pc = "remove" /\ Present(c) /\ ctr' = Removed(c) /\ r.at = {}
        BY <1>a, <2>4 DEF RemoveTarget, RLoop
      <3>2. /\ r'.pc = "rerun" /\ r'.todo = r.todo /\ r'.target = r.target
            /\ r'.cur = r.cur /\ r'.started = r.started /\ r'.live = r.live /\ r'.at = {c}
        BY <1>t, <2>4 DEF RemoveTarget, ARollback, RLabels
      <3>3. ctr'[c] = "absent" /\ \A x \in Name \ {c} : ctr'[x] = ctr[x]
        BY <1>t, <2>1, <3>1 DEF Removed
      <3>4. CurrentWhole'
        BY <1>i, <2>1, <2>2, <3>3 DEF CurrentWhole, Have, Present, Running
      <3>5. PreviousWhole'
        <4>1. PICK n \in Replicas : Full(st.prev, n) = Have(st.prev) \cup {}
          BY <1>i, <2>2, <3>1 DEF PreviousWhole
        <4>2. Full(st.prev, n) = {x \in Name : x.ver = st.prev /\ ctr'[x] # "absent"} \cup {c}
          BY <2>1, <2>2, <3>1, <3>3, <4>1 DEF Have, Present
        <4> QED
          BY <1>i, <2>1, <3>2, <4>2 DEF PreviousWhole, Have, Present
      <3>6. \A x \in Name : Running(x)' => x # c /\ Running(x)
        BY <3>3 DEF Running
      <3>7. \A x : Busy(x) => Busy(x)'
        BY <3>1, <3>2, d.pc = "idle" DEF Busy
      <3>8. CommittedWeb' = CommittedWeb
        BY <2>1 DEF CommittedWeb
      <3>9. \A x \in Name : Present(x)' => Present(x)
        BY <3>3 DEF Present
      <3>10. CleanState'
        BY <1>i, <2>1, <3>1, <3>2, <3>4, <3>5, <3>6, <3>7, <3>8, <3>9 DEF CleanState
      <3>11. CleanRollback'
        <4>1. \A x \in r'.todo : ~x.old /\ (x \in r'.at \/ Present(x)')
          BY <1>i, <1>t, <3>1, <3>2, <3>3 DEF CleanRollback, Present
        <4>2. \A x \in r'.started : Running(x)'
          BY <1>i, <1>t, <3>1, <3>2, <3>3 DEF CleanRollback, Running
        <4>3. \A x \in Have(r.cur.cur)' : Running(x)' => x \in r'.live
          BY <1>i, <2>1, <3>1, <3>2, <3>6, <3>9 DEF CleanRollback, Have
        <4>4. \A x \in r'.live : x.ver = r'.cur.cur => Present(x)'
          BY <1>i, <1>t, <2>1, <2>2, <3>1, <3>2, <3>3 DEF CleanRollback, CalmRollback, Present
        <4> QED
          BY <1>i, <2>1, <3>1, <3>2, <3>3, <4>1, <4>2, <4>3, <4>4 DEF CleanRollback, Have, Present
      <3> QED
        BY <3>10, <3>11
    <2>5. CASE RunTarget(c)
      <3>1. r.pc = "rerun" /\ c \in r.at /\ ctr' = [ctr EXCEPT ![c] = "started"]
        BY <2>5 DEF RunTarget, RecreateSucceeds, RunSucceeds
      <3>2. /\ r'.pc = "remove" /\ r'.todo = r.todo \ {c} /\ r'.target = r.target
            /\ r'.cur = r.cur /\ r'.started = r.started \cup {c} /\ r'.live = r.live /\ r'.at = {}
        BY <1>t, <2>5 DEF RunTarget, ARollback, RLabels
      <3>3. ctr'[c] = "started" /\ \A x \in Name \ {c} : ctr'[x] = ctr[x]
        BY <1>t, <2>1, <3>1
      <3>4. r.at = {c}
        BY <1>i, <3>1 DEF CleanRollback
      <3>5. CurrentWhole'
        BY <1>i, <2>1, <2>2, <3>3 DEF CurrentWhole, Have, Present, Running
      <3>6. PreviousWhole'
        <4>1. PICK n \in Replicas : Full(st.prev, n) = Have(st.prev) \cup {c}
          BY <1>i, <2>2, <3>4 DEF PreviousWhole
        <4>2. Full(st.prev, n) = {x \in Name : x.ver = st.prev /\ ctr'[x] # "absent"} \cup {}
          BY <2>1, <2>2, <3>3, <4>1 DEF Have, Present
        <4> QED
          BY <1>i, <2>1, <3>2, <4>2 DEF PreviousWhole, Have, Present
      <3>7. \A x \in Name : Running(x)' => x = c \/ Running(x)
        BY <3>3 DEF Running
      <3>8. Busy(c)' /\ \A x : Busy(x) => Busy(x)'
        BY <3>1, <3>2, d.pc = "idle" DEF Busy
      <3>9. CommittedWeb' = CommittedWeb
        BY <2>1 DEF CommittedWeb
      <3>10. \A x \in Name : Present(x)' => x = c \/ Present(x)
        BY <3>3 DEF Present
      <3>11. CleanState'
        BY <1>i, <2>1, <2>2, <3>1, <3>2, <3>5, <3>6, <3>7, <3>8, <3>9, <3>10 DEF CleanState
      <3>12. CleanRollback'
        <4>1. \A x \in r'.todo : ~x.old /\ Present(x)'
          BY <1>i, <1>t, <3>1, <3>2, <3>3, <3>4 DEF CleanRollback, Present
        <4>2. \A x \in r'.started : Running(x)'
          BY <1>i, <1>t, <2>1, <3>1, <3>2, <3>3 DEF CleanRollback, Running
        <4>3. \A x \in Have(r.cur.cur)' : Running(x)' => x \in r'.live
          BY <1>i, <2>1, <2>2, <3>1, <3>2, <3>7, <3>10 DEF CleanRollback, CalmRollback, Have
        <4>4. \A x \in r'.live : x.ver = r'.cur.cur => Present(x)'
          BY <1>i, <1>t, <3>1, <3>2, <3>3 DEF CleanRollback, Present
        <4> QED
          BY <1>i, <2>1, <3>1, <3>2, <3>3, <4>1, <4>2, <4>3, <4>4 DEF CleanRollback, Have, Present
      <3> QED
        BY <3>11, <3>12
    <2> QED
      BY <1>10, <2>3, <2>4, <2>5
  <1>11. ASSUME NEW c \in r.todo, RStopOld(c) \/ RDiscard(c) PROVE Goal
    <2>1. r.pc \in {"stopold", "undo"} /\ UNCHANGED <<route, st>> /\ c \in Name
          /\ RDone(c) /\ ctr' = Stopped(c)
      BY <1>i, <1>t, <1>11 DEF RStopOld, RDiscard, RLoop, CleanRollback, StopSucceeds, CommandFails
    <2>2. c.ver # st.cur /\ r.at = {}
      BY <1>a, <1>i, <2>1 DEF CalmRollback
    <2>3. /\ r'.pc = r.pc /\ r'.todo = r.todo \ {c} /\ r'.target = r.target /\ r'.cur = r.cur
          /\ r'.started = r.started /\ r'.at = r.at
      BY <1>t, <2>1, RDoneMeans
    <2>4. /\ \A x \in Name \ {c} : ctr'[x] = ctr[x]
          /\ \A x \in Name : ctr'[x] = "absent" <=> ctr[x] = "absent"
          /\ ~Running(c)'
      BY <1>t, <2>1 DEF Stopped, Running
    <2>5. CurrentWhole' /\ PreviousWhole'
      BY <1>i, <2>1, <2>2, <2>3, <2>4, WholeUntouched
    <2>6. \A x \in Name \ {c} : Busy(x) => Busy(x)'
      BY <2>1, <2>3, d.pc = "idle" DEF Busy
    <2>7. \A x \in Name : Running(x)' => x.ver = st'.cur \/ Busy(x)'
      BY <1>i, <2>1, <2>4, <2>6 DEF CleanState, Running
    <2>8. CommittedWeb' = CommittedWeb
      BY <2>1 DEF CommittedWeb
    <2>9. CleanState'
      BY <1>i, <2>1, <2>2, <2>3, <2>4, <2>5, <2>7, <2>8 DEF CleanState, Present
    <2>10. CleanRollback'
      BY <1>i, <2>1, <2>3 DEF CleanRollback
    <2> QED
      BY <2>9, <2>10
  <1>12. CASE RDisplaced
    BY <1>12, <1>i DEF RDisplaced, RAt, CalmRollback
  <1>13. ASSUME NEW c \in r.todo,
                RDisplace(c) \/ RDisplaceFails(c) \/ UndoRemove(c) \/ UndoRerun(c)
         PROVE  Goal
    BY <1>13, <1>i DEF RDisplace, RDisplaceFails, UndoRemove, UndoRerun, RLoop, CalmRollback
  <1> QED
    BY <1>1, <1>2, <1>3, <1>4, <1>5, <1>6, <1>7, <1>8, <1>9, <1>10, <1>11, <1>12, <1>13
       DEF RollbackStep

LEMMA InitClean == Init => CleanInv
  <1> SUFFICES ASSUME Init PROVE CleanState /\ d.pc = "idle" /\ r.pc = "idle"
    BY DEF CleanInv
  <1>1. /\ route = {} /\ d.pc = "idle" /\ r.pc = "idle" /\ st = NoState /\ r.at = {}
        /\ \A c \in Name : ctr[c] = "absent"
    BY DEF Init, ServerInit, DeployInit, RollbackInit, NoDeploy, NoRollback
  <1>2. st.cur = NoVersion /\ st.prev = NoVersion
    BY <1>1 DEF NoState
  <1>3. CommittedWeb = {}
    <2>1. \A c \in CommittedWeb : c.ver = NoVersion /\ c \in Name
      BY <1>2, WebNamesAreWeb DEF CommittedWeb
    <2> QED
      BY <2>1, NameHasVersion, ServerAssumption
  <1> QED
    BY <1>1, <1>2, <1>3 DEF CleanState, CurrentWhole, PreviousWhole, Present, Running

LEMMA NextClean ==
  ASSUME Typed, CalmInv, CleanInv, Calm, [OpsNext]_vars
  PROVE  CleanInv'
  <1> SUFFICES ASSUME Clean'
               PROVE  /\ CleanState'
                      /\ d'.pc # "idle" => CleanDeploy'
                      /\ r'.pc # "idle" => CleanRollback'
    BY DEF CleanInv
  <1>c. habits = AllHabits /\ ingress # "host"
    BY DEF Calm
  <1>f. Clean /\ ~Spend("faults") /\ ~Spend("crashes")
    BY CleanSteps DEF CalmInv
  <1>i. CleanState /\ (d.pc # "idle" => CleanDeploy) /\ (r.pc # "idle" => CleanRollback)
    BY <1>f DEF CleanInv
  <1>1. CASE UNCHANGED vars
    BY <1>1, <1>i DEF vars, serverVars, CleanState, CleanDeploy, CleanRollback, CurrentWhole,
                      PreviousWhole, Have, Present, Running, Busy, CommittedWeb, Committed, NewWeb,
                      NewWorkers, TargetWeb
  <1>2. CASE OpsNext /\ DeployNext /\ UNCHANGED <<r, ingress, habits>>
    <2>1. Alone'
      BY <1>2, <1>c DEF OpsNext, AsUsual, AllHabits
    <2>2. d.pc # "idle" \/ d'.pc # "idle"
      BY <1>2, DeployCommands
    <2>3. r.pc = "idle" /\ r'.pc = "idle"
      BY <1>2, <2>1, <2>2 DEF CalmInv, Alone
    <2>4. CASE DeployStep
      BY <1>2, <1>c, <1>f, <2>3, <2>4, DeployStepRuns, DeployKeepsClean
    <2>5. CASE DeployDies
      BY <1>f, <2>5 DEF DeployDies
    <2>6. ASSUME NEW v \in Versions, NEW n \in Replicas, NEW W \in SUBSET Workers,
                 DeployBegins(v, n, W)
          PROVE  CleanState' /\ CleanDeploy'
      <3>1. /\ d.pc = "idle" /\ UNCHANGED <<ctr, route, st>> /\ r' = r
            /\ d' = [NoDeploy EXCEPT !.pc = "read", !.ver = v, !.reps = n, !.workers = W]
        BY <1>2, <2>6 DEF DeployBegins
      <3>2. d'.pc = "read"
        BY <3>1, NoCommandTypes DEF ADeploy
      <3>3. CurrentWhole' /\ PreviousWhole'
        BY <1>i, <3>1, WholeUntouched DEF CleanState
      <3>4. CommittedWeb' = CommittedWeb
        BY <3>1 DEF CommittedWeb
      <3>5. CleanState'
        BY <1>2, <1>i, <2>3, <3>1, <3>2, <3>3, <3>4 DEF CleanState, Busy, Present, Running
      <3> QED
        BY <3>2, <3>5 DEF CleanDeploy, Committed
    <2> QED
      BY <1>2, <2>3, <2>4, <2>5, <2>6 DEF DeployNext
  <1>3. CASE OpsNext /\ RollbackNext /\ UNCHANGED <<d, ingress, habits>>
    <2>1. Alone'
      BY <1>3, <1>c DEF OpsNext, AsUsual, AllHabits
    <2>2. r.pc # "idle" \/ r'.pc # "idle"
      BY <1>3, RollbackCommands
    <2>3. d.pc = "idle" /\ d'.pc = "idle"
      BY <1>3, <2>1, <2>2 DEF CalmInv, Alone
    <2>4. CASE RollbackStep
      BY <1>3, <1>c, <1>f, <2>3, <2>4, RollbackStepRuns, RollbackKeepsClean
    <2>5. CASE RollbackDies
      BY <1>f, <2>5 DEF RollbackDies
    <2>6. ASSUME NEW t \in Versions, RollbackBegins(t) PROVE CleanState' /\ CleanRollback'
      <3>1. /\ r.pc = "idle" /\ UNCHANGED <<ctr, route, st>> /\ d' = d
            /\ r' = [NoRollback EXCEPT !.pc = "list", !.target = t, !.cur = st]
        BY <1>3, <2>6 DEF RollbackBegins
      <3>2. r'.pc = "list" /\ r'.target = t /\ r'.at = {}
        <4>1. NoRollback \in ARollback /\ NoRollback.at = {}
          BY NoCommandTypes DEF NoRollback
        <4> QED
          BY <3>1, <4>1 DEF ARollback
      <3>3. t = st.prev
        BY <1>3, <1>c, <3>1, <3>2 DEF OpsNext, AsUsual, AllHabits, RollbackBeginning
      <3>4. r.at = {}
        BY <1>i, <3>1 DEF CleanState
      <3>5. CurrentWhole' /\ PreviousWhole'
        BY <1>i, <3>1, <3>2, <3>4, WholeUntouched DEF CleanState
      <3>6. CommittedWeb' = CommittedWeb
        BY <3>1 DEF CommittedWeb
      <3>7. CleanState'
        BY SMTT(40), <1>3, <1>i, <2>3, <3>1, <3>2, <3>5, <3>6 DEF CleanState, Busy, Present, Running
      <3> QED
        BY <3>1, <3>2, <3>3, <3>7 DEF CleanRollback
    <2> QED
      BY <1>3, <2>3, <2>4, <2>5, <2>6 DEF RollbackNext
  <1> QED
    BY <1>1, <1>2, <1>3 DEF OpsNext, Next, Rest

-----------------------------------------------------------------------------
(* Careful use in which no process dies: what the state file tells.        *)

\* The route follows the state file, and can be put back as long as there is
\* a commit to undo.
RouteTells ==
    budget.crashes = MaxCrashes =>
        /\ d.pc \notin {"commit", "restore"} /\ r.pc \notin {"commit", "restore"} =>
                \A c \in route : c.ver = st.cur
        /\ d.pc = "restore" =>
                (d.cur.cur = NoVersion \/ PreviousFound) /\ budget.faults < MaxFaults
        /\ r.pc = "restore" => OriginalFound /\ budget.faults < MaxFaults

LEMMA RouteSteps ==
  ASSUME DeployStep
  PROVE  \/ Route \/ Commit \/ CommitFails \/ RestoreRoute \/ RestoreRouteFails
         \/ d.pc \notin {"commit", "restore"} /\ UNCHANGED <<route, st>>
  BY DEF DeployStep, ReadState, PrepareFails, PlainNames, ListHostWeb, DisplaceFails, StartWebs,
         ProbePasses, ProbeFails, CleanedUp, PruneLists, Deployed, HostStopped, HostRestored,
         Aborted, PutAside, Displace, RunContainer, RunWebFails, RunWorkerFails, CleanUp, StopOld,
         Prune, HostStop, HostRemove, HostRerun, HostStart, HostDiscard, At, Loop, Ready, serverVars

LEMMA RRouteSteps ==
  ASSUME Typed, RollbackStep
  PROVE  \/ RRoute \/ RCommit \/ RCommitFails \/ RRestore \/ RRestoreFails
         \/ r.pc \notin {"commit", "restore"} /\ r'.pc # "restore" /\ UNCHANGED <<route, st>>
  <1> DEFINE Other == r.pc \notin {"commit", "restore"} /\ r'.pc # "restore"
  /\ UNCHANGED <<route, st>>
  <1>t. r \in ARollback
    BY TypedMeans
  <1>g. ASSUME NEW l, NEW C, RGoto(l, C) PROVE r'.pc = l
    BY <1>t, <1>g DEF RGoto, ARollback
  <1>d. \A c : RDone(c) => r'.pc = r.pc
    BY <1>t DEF RDone, ARollback
  <1>e. EndRollback => r'.pc = "idle"
    BY DEF EndRollback, NoRollback
  <1>1. ASSUME NEW c \in r.todo,
               \/ RDisplace(c) \/ RDisplaceFails(c) \/ RemoveTarget(c) \/ RemoveTargetFails(c)
               \/ RunTarget(c) \/ RunTargetFails(c) \/ RStopOld(c) \/ RDiscard(c)
               \/ UndoRemove(c) \/ UndoRerun(c)
        PROVE  Other
    <2>1. CASE RDisplace(c) \/ RemoveTarget(c) \/ RunTarget(c) \/ UndoRerun(c)
      BY <1>t, <2>1 DEF RDisplace, RemoveTarget, RunTarget, UndoRerun, RLoop, ARollback
    <2>2. CASE RDisplaceFails(c) \/ RemoveTargetFails(c) \/ RunTargetFails(c)
      BY <1>e, <2>2 DEF RDisplaceFails, RemoveTargetFails, RunTargetFails, RLoop
    <2>3. CASE RStopOld(c) \/ RDiscard(c)
      BY <1>d, <2>3 DEF RStopOld, RDiscard, RLoop
    <2>4. CASE UndoRemove(c)
      <3>1. r.pc = "undoremove" /\ UNCHANGED <<route, st>>
            /\ (RDone(c) \/ r' = [r EXCEPT !.pc = "undorerun", !.at = {c}])
        BY <2>4 DEF UndoRemove, RLoop
      <3> QED
        BY <1>d, <1>t, <3>1 DEF ARollback
    <2> QED
      BY <1>1, <2>1, <2>2, <2>3, <2>4
  <1>2. CASE ListContainers
    BY <1>t, <1>2 DEF ListContainers, ARollback, serverVars
  <1>3. CASE ListFails \/ NoTarget \/ RProbeBreaks \/ RRouteFails \/ RolledBack
    BY <1>e, <1>3 DEF ListFails, NoTarget, RProbeBreaks, RRouteFails, RolledBack, RAt, serverVars
  <1>4. CASE RDisplaced \/ RProbePasses \/ RProbeFails \/ RUndone
    <2>1. PICK l, C : RGoto(l, C) /\ l \in {"remove", "route", "commit", "undo", "undoremove"}
      BY <1>4 DEF RDisplaced, RProbePasses, RProbeFails, RUndone
    <2> QED
      BY <1>4, <1>g, <2>1 DEF RDisplaced, RProbePasses, RProbeFails, RUndone, RAt, serverVars
  <1> QED
    BY <1>1, <1>2, <1>3, <1>4 DEF RollbackStep


\* A deploy whose commit fails when nothing has failed before it finds the
\* containers to put the route back to.
LEMMA PreviousIsThere ==
  ASSUME Typed, CalmInv, CleanInv, Clean, d.pc = "commit", d.cur.cur # NoVersion
  PROVE  PreviousFound
  <1>1. d.cur = st /\ d.cur.cur # d.ver
    BY ServerAssumption DEF CalmInv, CalmDeploy, Committed, Clean
  <1>2. st.cur \in Versions /\ st.reps \in Replicas /\ Have(st.cur) = Full(st.cur, st.reps)
    BY <1>1, TypedMeans DEF CleanInv, CleanState, CurrentWhole, State
  <1>3. PreviousWeb = WebNames(st.cur, st.reps)
    BY <1>1 DEF PreviousWeb, AsPrevious, SameVersion
  <1>4. \A c \in PreviousWeb : Present(c)
    BY <1>2, <1>3 DEF Full, Have
  <1>5. Cardinality(PreviousWeb) = d.cur.reps
    BY <1>1, <1>2, <1>3, WebCount
  <1> QED
    BY <1>4, <1>5 DEF PreviousFound

\* The same of a rollback.
LEMMA OriginalIsThere ==
  ASSUME Typed, CalmInv, CleanInv, Clean, r.pc = "commit"
  PROVE  OriginalFound
  <1>1. /\ r.cur = st /\ st.cur # NoVersion
        /\ \A c \in Have(st.cur) : Running(c) /\ c \in r.live
        /\ \A c \in r.live : c.ver = st.cur => Present(c)
        /\ st.reps \in Replicas /\ Have(st.cur) = Full(st.cur, st.reps)
    BY DEF CalmInv, CalmRollback, CleanInv, CleanState, CurrentWhole, CleanRollback
  <1>2. st.cur \in Versions
    BY <1>1, TypedMeans DEF State
  <1>3. WebNames(st.cur, st.reps) \subseteq OriginalWeb
    <2>1. \A c \in WebNames(st.cur, st.reps) : c \in r.live /\ c.ver = st.cur /\ c.proc = "web"
      BY <1>1, <1>2, WebNamesAreWeb DEF Full
    <2> QED
      BY <1>1, <2>1 DEF OriginalWeb, Web
  <1>4. OriginalWeb # {}
    BY <1>1, <1>2, <1>3, WebNamesExist
  <1>5. \A c \in OriginalWeb : Present(c)
    BY <1>1 DEF OriginalWeb, Web
  <1> QED
    BY <1>4, <1>5 DEF OriginalFound

LEMMA InitTells == Init => RouteTells
  BY DEF Init, ServerInit, DeployInit, RollbackInit, NoDeploy, NoRollback, RouteTells

\* What a step that kills no process leaves of the budget: the second failure
\* does not come.
LEMMA LuckSteps ==
  ASSUME Typed, CalmInv, CalmInv', [OpsNext]_vars, budget'.crashes = MaxCrashes
  PROVE  /\ budget.crashes = MaxCrashes /\ ~Spend("crashes")
         /\ Spend("faults") => budget.faults = MaxFaults /\ budget'.faults < MaxFaults
         /\ budget'.faults <= budget.faults
         /\ budget.faults \in Nat /\ budget'.faults \in Nat
  <1>t. /\ budget \in [{"ops", "faults", "crashes"} -> Nat]
        /\ budget.faults \in Nat /\ budget.crashes \in Nat
        /\ MaxFaults \in Nat /\ MaxCrashes \in Nat
    BY TypedMeans, ServerAssumption
  <1>n. budget'.faults \in Nat
    BY NextTyped, <1>t DEF Typed, TypeOK, ServerTypeOK
  <1>1. budget'.crashes <= budget.crashes /\ budget'.faults <= budget.faults
    BY NextBounded DEF CalmInv
  <1>2. budget.crashes <= MaxCrashes /\ budget.faults <= MaxFaults
    BY DEF CalmInv, Bounded
  <1>3. budget.crashes = MaxCrashes
    BY <1>t, <1>1, <1>2
  <1>4. ~Spend("crashes")
    BY <1>t, <1>3 DEF Spend
  <1>5. ASSUME Spend("faults") PROVE budget.faults = MaxFaults /\ budget'.faults < MaxFaults
    <2>1. budget'.faults = budget.faults - 1
      BY <1>t, <1>5 DEF Spend
    <2>2. budget'.faults >= MaxFaults - 1
      BY DEF CalmInv, Lucky
    <2> QED
      BY <1>t, <1>2, <2>1, <2>2
  <1> QED
    BY <1>t, <1>n, <1>1, <1>3, <1>4, <1>5


\* The versions of the route while a deploy is at work.
RouteIsCurrent ==
    d.pc \notin {"commit", "restore"} /\ r.pc \notin {"commit", "restore"} =>
        \A c \in route : c.ver = st.cur

LEMMA DeployKeepsTells ==
  ASSUME Typed, CalmInv, CalmInv', CleanInv, RouteTells, ingress # "host", DeployStep,
         d.pc # "idle", r.pc = "idle", UNCHANGED <<r, ingress>>,
         budget.crashes = MaxCrashes, budget'.faults <= budget.faults,
         budget.faults \in Nat, budget'.faults \in Nat,
         Spend("faults") => budget.faults = MaxFaults /\ budget'.faults < MaxFaults
  PROVE  /\ RouteIsCurrent'
         /\ d'.pc = "restore" =>
                (d'.cur.cur = NoVersion \/ PreviousFound') /\ budget'.faults < MaxFaults
  <1> DEFINE Goal == /\ RouteIsCurrent'
                     /\ d'.pc = "restore" => (d'.cur.cur = NoVersion \/ PreviousFound')
                                             /\ budget'.faults < MaxFaults
  <1>t. /\ d \in ADeploy /\ d.cur \in State /\ st \in State /\ d.ver \in Versions
        /\ MaxFaults \in Nat
    BY TypedMeans, ServerAssumption DEF ADeploy
  <1>i. CalmDeploy /\ CurrentServes
    BY DEF CalmInv
  <1>n. \A c \in NewWeb : c.ver = d.ver
    BY <1>i, NewNames DEF CalmDeploy, WebOf
  <1>e. EndDeploy => d'.pc = "idle"
    BY DEF EndDeploy, NoDeploy
  <1>g. ASSUME NEW l \in Labels, NEW C, Goto(l, C)
        PROVE  d'.pc = l /\ d'.cur = d.cur /\ d'.ver = d.ver
    BY <1>t, <1>g, GotoMeans
  <1>1. CASE Route
    <2>1. d.pc = "work" /\ UNCHANGED <<ctr, st>>
      BY <1>1 DEF Route, At
    <2>2. CASE route' = NewWeb /\ Goto("commit", {})
      BY <1>g, <2>2 DEF RouteIsCurrent, Labels
    <2>3. CASE UNCHANGED route /\ Goto("cleanup", d.started)
      BY <1>g, <2>1, <2>3 DEF RouteIsCurrent, RouteTells, Labels
    <2> QED
      BY <1>1, <2>2, <2>3 DEF Route
  <1>2. CASE Commit
    <2>1. /\ UNCHANGED route /\ st'.cur = d.ver
          /\ d.pc \in {"commit", "work"} /\ (d.pc = "work" => ingress # "caddy")
      BY <1>2 DEF Commit, Routed, At
    <2>2. PICK C : Goto("stopold", C)
      BY <1>2 DEF Commit
    <2>3. d'.pc = "stopold"
      BY <1>g, <2>2 DEF Labels
    <2>4. \A c \in route : c.ver = d.ver
      BY <1>i, <1>n, <2>1 DEF CalmDeploy, CurrentServes
    <2> QED
      BY <2>1, <2>3, <2>4 DEF RouteIsCurrent
  <1>3. CASE CommitFails
    <2>1. /\ Routed /\ Spend("faults") /\ UNCHANGED <<ctr, route, st>>
          /\ ingress \in {"caddy", "external"}
      BY <1>3, ServerAssumption DEF CommitFails, Typed, TypeOK, ServerTypeOK
    <2>2. CASE ingress = "caddy"
      <3>1. d.pc = "commit"
        BY <2>1, <2>2 DEF Routed
      <3>2. Goto("restore", {})
        BY <1>3, <2>2 DEF CommitFails
      <3>3. Clean
        BY <2>1 DEF Clean
      <3>4. d'.pc = "restore" /\ d'.cur = d.cur /\ d'.ver = d.ver
        BY <1>g, <3>2 DEF Labels
      <3>5. d.cur.cur = NoVersion \/ PreviousFound
        BY <3>1, <3>3, PreviousIsThere
      <3>6. PreviousFound => PreviousFound'
        BY <2>1, <3>4 DEF PreviousFound, PreviousWeb, AsPrevious, SameVersion, Present
      <3> QED
        BY <2>1, <3>4, <3>5, <3>6 DEF RouteIsCurrent
    <2>3. CASE ingress = "external"
      <3>1. Goto("cleanup", d.started)
        BY <1>3, <2>3 DEF CommitFails
      <3>2. route' = {}
        BY <1>i, <2>1, <2>3 DEF CurrentServes
      <3> QED
        BY <1>g, <3>1, <3>2 DEF RouteIsCurrent, Labels
    <2> QED
      BY <2>1, <2>2, <2>3
  <1>4. CASE RestoreRoute
    <2>1. /\ d.pc = "restore" /\ Goto("cleanup", d.started) /\ UNCHANGED st
          /\ route' = {} \/ (d.cur.cur # NoVersion /\ route' = PreviousWeb)
      BY <1>4 DEF RestoreRoute
    <2>2. d.cur = st /\ ~SameVersion
      BY <1>i, <2>1 DEF CalmDeploy, SameVersion
    <2>3. ASSUME d.cur.cur # NoVersion PROVE \A c \in PreviousWeb : c.ver = st.cur
      <3>1. st.cur \in Versions /\ PreviousWeb = WebNames(st.cur, st.reps)
        BY <1>t, <2>2, <2>3 DEF State, PreviousWeb, AsPrevious
      <3> QED
        BY <3>1, WebNamesAreWeb
    <2> QED
      BY <1>g, <2>1, <2>3 DEF RouteIsCurrent, Labels
  <1>5. CASE RestoreRouteFails
    <2>1. d.pc = "restore" /\ (d.cur.cur = NoVersion \/ PreviousFound => Spend("faults"))
      BY <1>5 DEF RestoreRouteFails
    <2> QED
      BY <1>t, <2>1 DEF RouteTells
  <1>6. CASE d.pc \notin {"commit", "restore"} /\ UNCHANGED <<route, st>> /\ ~CommitFails
    <2>1. RouteIsCurrent'
      BY <1>6 DEF RouteTells, RouteIsCurrent
    <2>2. d'.pc # "restore"
      BY <1>6, DeployLabels DEF DeployNext, StopOld, Prune, Loop
    <2> QED
      BY <2>1, <2>2
  <1> QED
    BY <1>1, <1>2, <1>3, <1>4, <1>5, <1>6, RouteSteps

LEMMA RollbackKeepsTells ==
  ASSUME Typed, CalmInv, CalmInv', CleanInv, RouteTells, ingress # "host", RollbackStep,
         r.pc # "idle", d.pc = "idle", UNCHANGED <<d, ingress>>,
         budget.crashes = MaxCrashes, budget'.faults <= budget.faults,
         budget.faults \in Nat, budget'.faults \in Nat,
         Spend("faults") => budget.faults = MaxFaults /\ budget'.faults < MaxFaults
  PROVE  /\ RouteIsCurrent'
         /\ r'.pc = "restore" => OriginalFound' /\ budget'.faults < MaxFaults
  <1>t. r \in ARollback /\ r.cur \in State /\ st \in State /\ MaxFaults \in Nat
    BY TypedMeans, ServerAssumption DEF ARollback
  <1>i. CalmRollback /\ CurrentServes
    BY DEF CalmInv
  <1>g. ASSUME NEW l \in RLabels, NEW C, RGoto(l, C)
        PROVE  r'.pc = l /\ r'.cur = r.cur /\ r'.live = r.live
    BY <1>t, <1>g, RGotoMeans
  <1>1. CASE RRoute
    <2>1. RGoto("commit", {})
      BY <1>1 DEF RRoute
    <2> QED
      BY <1>g, <2>1 DEF RouteIsCurrent, RLabels
  <1>2. CASE RCommit
    <2>1. /\ r.pc = "commit" /\ UNCHANGED route /\ st'.cur = r.target
          /\ RGoto("stopold", {c \in r.live : c.ver = r.cur.cur})
      BY <1>2 DEF RCommit
    <2> QED
      BY <1>g, <1>i, <2>1 DEF RouteIsCurrent, CalmRollback, RLabels
  <1>3. CASE RCommitFails
    <2>1. r.pc = "commit" /\ Spend("faults") /\ UNCHANGED <<ctr, route, st>>
      BY <1>3 DEF RCommitFails, CommandFails
    <2>2. OriginalFound
      BY <2>1, OriginalIsThere DEF Clean
    <2>3. CASE ingress = "caddy"
      <3>1. RGoto("restore", {})
        BY <1>3, <2>3 DEF RCommitFails
      <3>2. r'.pc = "restore" /\ r'.cur = r.cur /\ r'.live = r.live
        BY <1>g, <3>1 DEF RLabels
      <3>3. OriginalFound'
        BY <2>1, <2>2, <3>2 DEF OriginalFound, OriginalWeb, Present
      <3> QED
        BY <2>1, <3>2, <3>3 DEF RouteIsCurrent
    <2>4. CASE ingress # "caddy"
      <3>1. RGoto("discard", r.started) /\ route' = {}
        BY <1>3, <1>i, <2>1, <2>4 DEF RCommitFails, CurrentServes
      <3> QED
        BY <1>g, <3>1 DEF RouteIsCurrent, RLabels
    <2> QED
      BY <2>3, <2>4
  <1>4. CASE RRestore
    <2>1. r.pc = "restore" /\ route' = OriginalWeb /\ RGoto("discard", r.started) /\ UNCHANGED st
      BY <1>4 DEF RRestore
    <2>2. \A c \in OriginalWeb : c.ver = st.cur
      BY <1>i, <2>1 DEF OriginalWeb, CalmRollback
    <2> QED
      BY <1>g, <2>1, <2>2 DEF RouteIsCurrent, RLabels
  <1>5. CASE RRestoreFails
    <2>1. r.pc = "restore" /\ (OriginalFound => Spend("faults"))
      BY <1>5 DEF RRestoreFails, CommandFails
    <2> QED
      BY <1>t, <2>1 DEF RouteTells
  <1>6. CASE r.pc \notin {"commit", "restore"} /\ r'.pc # "restore" /\ UNCHANGED <<route, st>>
    BY <1>6 DEF RouteTells, RouteIsCurrent
  <1> QED
    BY <1>1, <1>2, <1>3, <1>4, <1>5, <1>6, RRouteSteps

LEMMA NextTells ==
  ASSUME Typed, CalmInv, CalmInv', CleanInv, RouteTells, Calm, [OpsNext]_vars
  PROVE  RouteTells'
  <1> SUFFICES ASSUME budget'.crashes = MaxCrashes
               PROVE  /\ RouteIsCurrent'
                      /\ d'.pc = "restore" => (d'.cur.cur = NoVersion \/ PreviousFound')
                                              /\ budget'.faults < MaxFaults
                      /\ r'.pc = "restore" => OriginalFound' /\ budget'.faults < MaxFaults
    BY DEF RouteTells, RouteIsCurrent
  <1>c. habits = AllHabits /\ ingress # "host"
    BY DEF Calm
  <1>l. /\ budget.crashes = MaxCrashes /\ ~Spend("crashes")
        /\ Spend("faults") => budget.faults = MaxFaults /\ budget'.faults < MaxFaults
        /\ budget'.faults <= budget.faults
        /\ budget.faults \in Nat /\ budget'.faults \in Nat
    BY LuckSteps
  <1>1. CASE UNCHANGED vars
    BY <1>1, <1>l DEF vars, serverVars, RouteTells, RouteIsCurrent, PreviousFound, PreviousWeb,
                      AsPrevious, SameVersion, OriginalFound, OriginalWeb, Present
  <1>2. CASE OpsNext /\ DeployNext /\ UNCHANGED <<r, ingress, habits>>
    <2>1. Alone' /\ Alone
      BY DEF CalmInv
    <2>2. d.pc # "idle" \/ d'.pc # "idle"
      BY <1>2, DeployCommands
    <2>3. r.pc = "idle" /\ r'.pc = "idle"
      BY <1>2, <2>1, <2>2 DEF Alone
    <2>4. CASE DeployStep
      BY <1>2, <1>c, <1>l, <2>3, <2>4, DeployStepRuns, DeployKeepsTells
    <2>5. CASE DeployDies
      BY <1>l, <2>5 DEF DeployDies
    <2>6. ASSUME NEW v \in Versions, NEW n \in Replicas, NEW W \in SUBSET Workers,
                 DeployBegins(v, n, W)
          PROVE  RouteIsCurrent' /\ d'.pc = "read"
      <3>1. d.pc = "idle" /\ UNCHANGED <<route, st>> /\ d'.pc = "read"
        BY <2>6, NoCommandTypes DEF DeployBegins, ADeploy
      <3> QED
        BY <1>l, <2>3, <3>1 DEF RouteTells, RouteIsCurrent
    <2> QED
      BY <1>2, <2>3, <2>4, <2>5, <2>6 DEF DeployNext
  <1>3. CASE OpsNext /\ RollbackNext /\ UNCHANGED <<d, ingress, habits>>
    <2>1. Alone' /\ Alone
      BY DEF CalmInv
    <2>2. r.pc # "idle" \/ r'.pc # "idle"
      BY <1>3, RollbackCommands
    <2>3. d.pc = "idle" /\ d'.pc = "idle"
      BY <1>3, <2>1, <2>2 DEF Alone
    <2>4. CASE RollbackStep
      BY <1>3, <1>c, <1>l, <2>3, <2>4, RollbackStepRuns, RollbackKeepsTells
    <2>5. CASE RollbackDies
      BY <1>l, <2>5 DEF RollbackDies
    <2>6. ASSUME NEW t \in Versions, RollbackBegins(t)
          PROVE  RouteIsCurrent' /\ r'.pc = "list"
      <3>1. r.pc = "idle" /\ UNCHANGED <<route, st>> /\ r'.pc = "list"
        BY <2>6, NoCommandTypes DEF RollbackBegins, ARollback
      <3> QED
        BY <1>l, <2>3, <3>1 DEF RouteTells, RouteIsCurrent
    <2> QED
      BY <1>3, <2>3, <2>4, <2>5, <2>6 DEF RollbackNext
  <1> QED
    BY <1>1, <1>2, <1>3 DEF OpsNext, Next, Rest

\* At rest after commands that did not fail.
LEMMA CleanRest ==
  ASSUME Typed, Calm, CalmInv, CleanInv, Idle, Clean
  PROVE  /\ \A c \in Name : Running(c) => c.ver = st.cur
         /\ CurrentWhole /\ PreviousWhole /\ r.at = {}
         /\ ingress = "caddy" => route = CommittedWeb
  <1>1. CleanState /\ d.pc = "idle" /\ r.pc = "idle"
    BY DEF CleanInv, Idle
  <1>2. \A c : ~Busy(c)
    BY <1>1 DEF Busy
  <1> QED
    BY <1>1, <1>2 DEF CleanState

LEMMA TellsMeans ==
  ASSUME Typed, Calm => CalmInv, Calm => CleanInv, Calm => RouteTells
  PROVE  StateTellsServing
  <1> SUFFICES ASSUME Calm, Idle, st.cur # NoVersion, budget.crashes = MaxCrashes
               PROVE  /\ \A c \in route : c.ver = st.cur
                      /\ Clean => Serving = CommittedWeb
    BY DEF StateTellsServing
  <1>1. \A c \in route : c.ver = st.cur
    BY DEF RouteTells, Idle
  <1>2. ASSUME Clean PROVE Serving = CommittedWeb
    <2>r. /\ \A c \in Name : Running(c) => c.ver = st.cur
          /\ CurrentWhole /\ (ingress = "caddy" => route = CommittedWeb)
      BY <1>2, CleanRest
    <2>1. CASE ingress = "caddy"
      BY <2>1, <2>r DEF Serving
    <2>2. CASE ingress # "caddy"
      <3>1. /\ st.cur \in Versions /\ st.reps \in Replicas
            /\ Have(st.cur) = Full(st.cur, st.reps)
            /\ \A c \in Have(st.cur) : Running(c)
        BY <2>r, TypedMeans DEF CurrentWhole, State
      <3>2. Serving = {c \in RunningWeb : ctr[c] = "healthy"}
        BY <2>2 DEF Serving
      <3>3. ASSUME NEW c \in Serving PROVE c \in CommittedWeb
        <4>1. c \in Name /\ c.proc = "web" /\ Running(c)
          BY <3>2 DEF RunningWeb
        <4>2. c \in Have(st.cur)
          BY <2>r, <4>1 DEF Have, Running, Present
        <4> QED
          BY <3>1, <4>1, <4>2, FullMeans DEF CommittedWeb
      <3>4. ASSUME NEW c \in CommittedWeb PROVE c \in Serving
        <4>1. c \in Have(st.cur) /\ c.proc = "web"
          BY <3>1, WebNamesAreWeb DEF CommittedWeb, Full
        <4>2. ctr[c] = "healthy"
          BY <4>1 DEF CalmInv, CurrentServes, WebOf, Have
        <4> QED
          BY <3>2, <4>1, <4>2 DEF RunningWeb, Have, Running
      <3> QED
        BY <3>3, <3>4
    <2> QED
      BY <2>1, <2>2
  <1> QED
    BY <1>1, <1>2

LEMMA OnlyMeans ==
  ASSUME Typed, Calm => CalmInv, Calm => CleanInv
  PROVE  OnlyCurrentRuns
  <1> SUFFICES ASSUME Calm, Idle, Clean
               PROVE  {c \in Name : Running(c)} =
                        IF st.cur = NoVersion THEN {} ELSE Full(st.cur, st.reps)
    BY DEF OnlyCurrentRuns, CommittedWeb, Full
  <1>1. (\A c \in Name : Running(c) => c.ver = st.cur) /\ CurrentWhole
    BY CleanRest
  <1>2. CASE st.cur = NoVersion
    BY <1>1, <1>2, NameHasVersion, ServerAssumption
  <1>3. CASE st.cur # NoVersion
    <2>1. Have(st.cur) = Full(st.cur, st.reps) /\ \A c \in Have(st.cur) : Running(c)
      BY <1>1, <1>3 DEF CurrentWhole
    <2>2. {c \in Name : Running(c)} = Have(st.cur)
      BY <1>1, <2>1 DEF Have, Present, Running
    <2> QED
      BY <1>3, <2>1, <2>2
  <1> QED
    BY <1>2, <1>3

LEMMA KeptMeans ==
  ASSUME Typed, Calm => CalmInv, Calm => CleanInv
  PROVE  RollbackTargetKept
  <1> SUFFICES ASSUME Calm, Idle, st.prev # NoVersion, Clean
               PROVE  \E c \in Name : c.proc = "web" /\ c.ver = st.prev /\ Present(c)
    BY DEF RollbackTargetKept
  <1>1. PICK n \in Replicas : Full(st.prev, n) = Have(st.prev)
    BY CleanRest DEF PreviousWhole
  <1>2. st.prev \in Versions
    BY TypedMeans DEF State
  <1>3. PICK c \in WebNames(st.prev, n) : TRUE
    BY <1>2, WebNamesExist
  <1>4. c \in Have(st.prev) /\ c.proc = "web"
    BY <1>1, <1>2, <1>3, WebNamesAreWeb DEF Full
  <1> QED
    BY <1>4 DEF Have

\* What careful use keeps.
CarefulInv == Typed /\ (Calm => CalmInv /\ CleanInv /\ RouteTells)

LEMMA InitCareful == Init => CarefulInv
  BY InitTyped, InitCalm, InitClean, InitTells DEF CarefulInv

LEMMA NextCareful == CarefulInv /\ [OpsNext]_vars => CarefulInv'
  <1> SUFFICES ASSUME CarefulInv, [OpsNext]_vars PROVE CarefulInv'
    OBVIOUS
  <1>1. Typed'
    BY NextTyped DEF CarefulInv
  <1>2. ASSUME Calm' PROVE CalmInv' /\ CleanInv' /\ RouteTells'
    <2>1. UNCHANGED <<ingress, habits>>
      BY DEF OpsNext, Next, Rest, vars
    <2>2. Calm /\ Typed /\ CalmInv /\ CleanInv /\ RouteTells
      BY <1>2, <2>1 DEF Calm, CarefulInv
    <2>3. CalmInv'
      BY <2>2, NextCalm
    <2> QED
      BY <2>2, <2>3, NextClean, NextTells
  <1> QED
    BY <1>1, <1>2 DEF CarefulInv

\* In careful use, between two commands and as long as no process has died,
\* the route is that of the version the state file calls current, whatever one
\* command has failed; if none has, all its replicas serve and nothing else.
THEOREM StateAlwaysTells == Spec => []StateTellsServing
  <1>1. CarefulInv => StateTellsServing
    BY TellsMeans DEF CarefulInv
  <1> QED
    BY <1>1, InitCareful, NextCareful, PTL DEF Spec

\* In careful use, commands that do not fail or fail for a health check leave
\* exactly the current version's containers running.
THEOREM OnlyCurrentEverRuns == Spec => []OnlyCurrentRuns
  <1>1. CarefulInv => OnlyCurrentRuns
    BY OnlyMeans DEF CarefulInv
  <1> QED
    BY <1>1, InitCareful, NextCareful, PTL DEF Spec

\* In careful use the version a rollback would go to has a web container.
THEOREM RollbackTargetIsKept == Spec => []RollbackTargetKept
  <1>1. CarefulInv => RollbackTargetKept
    BY KeptMeans DEF CarefulInv
  <1> QED
    BY <1>1, InitCareful, NextCareful, PTL DEF Spec
=============================================================================
