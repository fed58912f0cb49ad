-------------------------- MODULE AutodeployProofs --------------------------
(***************************************************************************)
(* Proofs about Autodeploy, for any numbers of pushes and handlers and any *)
(* budget of mishaps: its type invariant and its four safety invariants.   *)
(***************************************************************************)
EXTENDS Autodeploy, FiniteSetTheorems, TLAPS

-----------------------------------------------------------------------------
(* Types.                                                                  *)

LEMMA MemoryType ==
    /\ Nothing \in Memory
    /\ \A m \in Memory : Pruned(m) \in Memory
    /\ \A m \in Memory, p \in Pushes :
            Aged(m, p) \in Memory /\ [Pruned(m) EXCEPT ![p] = "recent"] \in Memory
    /\ \A m \in Memory : Written(m) \in Memory
  BY DEF Memory, Nothing, Pruned, Aged, Written

LEMMA PushesAreVersions == Pushes \subseteq Versions /\ 0 \in Versions
  BY AutodeployAssumption DEF Pushes, Versions

LEMMA NoJobType == NoJob \in Handler /\ NoOp \in [pc : {"idle"}, ver : Versions]
  BY MemoryType, AutodeployAssumption DEF NoJob, NoOp, Versions, Handler, JobLabels

LEMMA InitTypeOK == Init => TypeOK
  <1> SUFFICES ASSUME Init PROVE TypeOK
    OBVIOUS
  <1>1. 0 \in Versions
    BY AutodeployAssumption DEF Versions
  <1>2. job \in [Jobs -> Handler]
    BY NoJobType DEF Init
  <1> QED
    BY <1>1, <1>2, NoJobType, MemoryType, AutodeployAssumption DEF Init, TypeOK

\* A step of a handler that goes to another label, or ends.
LEMMA MovesType ==
  ASSUME TypeOK, NEW j \in Jobs
  PROVE  /\ \A l \in JobLabels : Goto(j, l) => job' \in [Jobs -> Handler]
         /\ End(j) => job' \in [Jobs -> Handler]
  BY NoJobType DEF TypeOK, Goto, End, Handler

\* What is spent stays in the natural numbers, and is never given back.
LEMMA SpendEachType ==
  ASSUME TypeOK, NEW ks \in SUBSET Chances, SpendEach(ks)
  PROVE  budget' \in [Chances -> Nat] /\ \A x \in Chances : budget'[x] <= budget[x]
  BY DEF TypeOK, SpendEach

LEMMA SpendType ==
  ASSUME TypeOK, NEW k \in Chances, Spend(k)
  PROVE  budget' \in [Chances -> Nat] /\ \A x \in Chances : budget'[x] <= budget[x]
  BY SpendEachType DEF Spend

LEMMA OverlapType ==
  ASSUME TypeOK, NEW here \in BOOLEAN, Overlap(here)
  PROVE  budget' \in [Chances -> Nat] /\ \A x \in Chances : budget'[x] <= budget[x]
  <1>1. \A x \in Chances : budget[x] \in Nat
    BY DEF TypeOK
  <1> QED
    BY <1>1, SpendType DEF TypeOK, Overlap, Chances

LEMMA KilledType ==
  ASSUME TypeOK, Killed
  PROVE  /\ budget' \in [Chances -> Nat] /\ \A x \in Chances : budget'[x] <= budget[x]
         /\ job' \in [Jobs -> Handler]
         /\ lock' \in Jobs \cup {"free", "operator", "abandoned"}
  <1>1. PICK ks \in SUBSET Chances : SpendEach(ks)
    BY DEF Killed, Chances
  <1>2. job' \in [Jobs -> Handler]
    BY NoJobType DEF Killed
  <1> QED
    BY <1>1, <1>2, SpendEachType DEF TypeOK, Killed, Abandoned

LEMMA CountType ==
  ASSUME TypeOK, NEW p
  PROVE  [count EXCEPT ![p] = @ + 1] \in [Pushes -> Nat]
  <1>1. count \in [Pushes -> Nat]
    BY DEF TypeOK
  <1>2. CASE p \in Pushes
    <2>1. count[p] + 1 \in Nat
      BY <1>1, <1>2
    <2> QED
      BY <1>1, <1>2, <2>1
  <1>3. CASE p \notin Pushes
    BY <1>1, <1>3
  <1> QED
    BY <1>2, <1>3

\* The actions of one handler, by what they need for their types.
LEMMA HandleTypeOK ==
  ASSUME TypeOK, NEW j \in Jobs, Handle(j)
  PROVE  TypeOK'
  <1> USE MovesType, SpendType, MemoryType DEF server, dedup, JobLabels, Chances
  <1>1. CASE Snapshot(j)
    BY ZenonT(40), <1>1 DEF Snapshot, TypeOK, Handler
  <1>2. CASE Truncate(j)
    BY <1>2 DEF Truncate, TypeOK
  <1>3. CASE Write(j)
    BY ZenonT(40), <1>3 DEF Write, TypeOK, Handler
  <1>4. CASE Trigger(j)
    <2>1. count' \in [Pushes -> Nat]
      BY <1>4, CountType DEF Trigger
    <2> QED
      BY <1>4, <2>1 DEF Trigger, TypeOK
  <1> QED
    BY <1>1, <1>2, <1>3, <1>4 DEF Handle

LEMMA RunTypeOK ==
  ASSUME TypeOK, NEW j \in Jobs, Run(j) \/ JobFails(j) \/ InnerFails(j)
  PROVE  TypeOK'
  <1> USE MovesType, SpendType DEF server, dedup, JobLabels, Chances
  <1>1. CASE LockWon(j) \/ LockLost(j)
    BY <1>1 DEF LockWon, LockLost, TypeOK
  <1>2. CASE Fetch(j)
    BY <1>2, OverlapType DEF Fetch, TypeOK
  <1>3. CASE ReadVersion(j)
    <2>1. [job[j] EXCEPT !.pc = "build", !.ver = git] \in Handler
      BY ZenonT(40) DEF TypeOK, Handler
    <2>2. job' = [job EXCEPT ![j] = [job[j] EXCEPT !.pc = "build", !.ver = git]]
      BY <1>3 DEF ReadVersion
    <2>3. job' \in [Jobs -> Handler]
      BY <2>1, <2>2 DEF TypeOK
    <2> QED
      BY <1>3, <2>3 DEF ReadVersion, TypeOK
  <1>4. CASE Build(j)
    <2>1. job[j].ver \in Versions
      BY DEF TypeOK, Handler
    <2>2. image' \in [Pushes -> Versions] /\ mixed' \in SUBSET Versions
      BY <1>4, <2>1 DEF Build, BuildImage, TypeOK
    <2> QED
      BY <1>4, <2>2 DEF Build, BuildImage, TypeOK
  <1>5. CASE InnerWon(j) \/ InnerLost(j)
    BY <1>5 DEF InnerWon, InnerLost, TypeOK
  <1>6. CASE Commit(j)
    BY <1>6 DEF Commit, TypeOK, Handler
  <1>7. CASE InnerRelease(j) \/ Release(j)
    BY <1>7 DEF InnerRelease, Release, TypeOK
  <1>8. CASE JobFails(j) \/ InnerFails(j)
    BY <1>8 DEF JobFails, InnerFails, TypeOK
  <1> QED
    BY <1>1, <1>2, <1>3, <1>4, <1>5, <1>6, <1>7, <1>8 DEF Run

LEMMA OperatorTypeOK == TypeOK /\ Operator => TypeOK'
  <1> SUFFICES ASSUME TypeOK, Operator PROVE TypeOK'
    OBVIOUS
  <1> USE SpendType, NoJobType DEF server, dedup, Chances
  <1>1. ASSUME NEW v \in Pushes, OpSync(v) PROVE TypeOK'
    <2>1. v \in Versions
      BY PushesAreVersions
    <2>2. PICK ks \in SUBSET Chances : SpendEach(ks)
      BY <1>1 DEF OpSync, Chances
    <2> QED
      BY <1>1, <2>1, <2>2, SpendEachType DEF OpSync, TypeOK
  <1>2. CASE OpBuild
    <2>1. op.ver \in Versions
      BY DEF TypeOK
    <2>2. image' \in [Pushes -> Versions] /\ mixed' \in SUBSET Versions
      BY <1>2, <2>1 DEF OpBuild, BuildImage, TypeOK
    <2> QED
      BY <1>2, <2>2 DEF OpBuild, BuildImage, TypeOK
  <1>3. CASE OpLock
    BY <1>3 DEF OpLock, TypeOK
  <1>4. CASE OpCommit \/ OpFails \/ OpRelease
    BY <1>4 DEF OpCommit, OpFails, OpRelease, TypeOK
  <1>5. CASE Unlock
    BY <1>5 DEF Unlock, TypeOK
  <1>6. CASE Setup
    BY <1>6, KilledType DEF Setup, TypeOK
  <1> QED
    BY <1>1, <1>2, <1>3, <1>4, <1>5, <1>6 DEF Operator

LEMMA NextTypeOK == TypeOK /\ [Next]_vars => TypeOK'
  <1> SUFFICES ASSUME TypeOK, [Next]_vars PROVE TypeOK'
    OBVIOUS
  <1> USE SpendType, NoJobType, MemoryType DEF server, dedup, Chances
  <1>1. CASE Push
    <2>1. head' \in Versions
      BY <1>1, AutodeployAssumption DEF Push, TypeOK, Versions
    <2> QED
      BY <1>1, <2>1 DEF Push, TypeOK
  <1>2. ASSUME NEW p \in Pushes, Age(p) PROVE TypeOK'
    BY <1>2 DEF Age, TypeOK, Handler
  <1>3. ASSUME NEW p \in Pushes, ReceiveReplay(p) PROVE TypeOK'
    BY <1>3 DEF ReceiveReplay, TypeOK
  <1>4. ASSUME NEW p \in Pushes, NEW j \in Jobs, Receive(j, p) PROVE TypeOK'
    <2>1. p \in Versions
      BY PushesAreVersions
    <2>2. [NoJob EXCEPT !.pc = "snapshot", !.push = p] \in Handler
      BY <2>1 DEF Handler, JobLabels
    <2> QED
      BY <1>4, <2>2, OverlapType DEF Receive, TypeOK
  <1>5. ASSUME NEW j \in Jobs, Handle(j) \/ Run(j) \/ JobFails(j) \/ InnerFails(j) PROVE TypeOK'
    BY <1>5, HandleTypeOK, RunTypeOK
  <1>6. CASE Crash
    BY <1>6, KilledType DEF Crash, TypeOK
  <1>7. CASE Restart \/ Expire \/ RouteLost
    BY <1>7 DEF Restart, Expire, RouteLost, TypeOK
  <1>8. CASE Operator
    BY <1>8, OperatorTypeOK
  <1>9. CASE UNCHANGED vars
    BY <1>9 DEF vars, TypeOK
  <1> QED
    BY <1>1, <1>2, <1>3, <1>4, <1>5, <1>6, <1>7, <1>8, <1>9 DEF Next, Rest

\* Every reachable state has the shape TypeOK says.
THEOREM TypeCorrect == Spec => []TypeOK
  BY InitTypeOK, NextTypeOK, PTL DEF Spec

-----------------------------------------------------------------------------
(* The budget only falls: a kind of mishap that has never happened after a *)
(* step had not before it.                                                 *)

BudgetBounded == \A k \in Chances : budget[k] <= Budget[k]

LEMMA BudgetFalls ==
  ASSUME TypeOK, [Next]_vars
  PROVE  \A k \in Chances : budget'[k] <= budget[k]
  <1> USE SpendType DEF Chances
  <1>0. ASSUME UNCHANGED budget PROVE \A k \in Chances : budget'[k] <= budget[k]
    BY <1>0 DEF TypeOK
  <1>1. ASSUME NEW p \in Pushes, Age(p) \/ ReceiveReplay(p)
        PROVE  \A k \in Chances : budget'[k] <= budget[k]
    BY <1>0, <1>1 DEF Age, ReceiveReplay
  <1>2. ASSUME NEW p \in Pushes, NEW j \in Jobs, Receive(j, p)
        PROVE  \A k \in Chances : budget'[k] <= budget[k]
    BY <1>2, OverlapType DEF Receive
  <1>3. ASSUME NEW j \in Jobs, Handle(j)
        PROVE  \A k \in Chances : budget'[k] <= budget[k]
    BY <1>0, <1>3 DEF Handle, Snapshot, Truncate, Write, Trigger
  <1>4. ASSUME NEW j \in Jobs, Run(j) \/ JobFails(j) \/ InnerFails(j)
        PROVE  \A k \in Chances : budget'[k] <= budget[k]
    <2>1. CASE Fetch(j)
      BY <2>1, OverlapType DEF Fetch
    <2>2. CASE JobFails(j) \/ InnerFails(j)
      BY <2>2 DEF JobFails, InnerFails
    <2>3. CASE Run(j) /\ ~Fetch(j)
      BY <1>0, <2>3 DEF Run, LockWon, LockLost, ReadVersion, Build, InnerWon, InnerLost,
                        Commit, InnerRelease, Release
    <2> QED
      BY <1>4, <2>1, <2>2, <2>3
  <1>5. ASSUME Operator PROVE \A k \in Chances : budget'[k] <= budget[k]
    <2>1. ASSUME NEW v \in Pushes, OpSync(v) PROVE \A k \in Chances : budget'[k] <= budget[k]
      <3>1. PICK ks \in SUBSET Chances : SpendEach(ks)
        BY <2>1 DEF OpSync
      <3> QED
        BY <3>1, SpendEachType
    <2>2. CASE OpBuild \/ OpLock \/ OpCommit \/ OpFails \/ OpRelease \/ Unlock
      BY <1>0, <2>2 DEF OpBuild, OpLock, OpCommit, OpFails, OpRelease, Unlock
    <2>3. CASE Setup
      BY <2>3, KilledType DEF Setup
    <2> QED
      BY <1>5, <2>1, <2>2, <2>3 DEF Operator
  <1>6. CASE Crash
    BY <1>6, KilledType DEF Crash
  <1>7. CASE Push \/ Restart \/ Expire \/ RouteLost
    BY <1>0, <1>7 DEF Push, Restart, Expire, RouteLost
  <1>8. CASE UNCHANGED vars
    BY <1>0, <1>8 DEF vars
  <1> QED
    BY <1>1, <1>2, <1>3, <1>4, <1>5, <1>6, <1>7, <1>8 DEF Next, Rest

LEMMA NextBudgetBounded == TypeOK /\ BudgetBounded /\ [Next]_vars => BudgetBounded'
  <1> SUFFICES ASSUME TypeOK, BudgetBounded, [Next]_vars, NEW k \in Chances
               PROVE  budget'[k] <= Budget[k]
    BY DEF BudgetBounded
  <1>1. budget'[k] \in Nat /\ budget[k] \in Nat /\ Budget[k] \in Nat
    BY NextTypeOK, AutodeployAssumption DEF TypeOK
  <1> QED
    BY <1>1, BudgetFalls DEF BudgetBounded

LEMMA NeverBefore ==
  ASSUME TypeOK, BudgetBounded, [Next]_vars, NEW k \in Chances, Never(k)'
  PROVE  Never(k)
  <1>1. budget'[k] \in Nat /\ budget[k] \in Nat /\ Budget[k] \in Nat
    BY NextTypeOK, AutodeployAssumption DEF TypeOK
  <1> QED
    BY <1>1, BudgetFalls DEF BudgetBounded, Never

\* Who spends of a kind has had it happen.
LEMMA SpentHappened ==
  ASSUME TypeOK, BudgetBounded, NEW ks \in SUBSET Chances, SpendEach(ks), NEW k \in ks
  PROVE  ~Never(k)'
  <1>1. budget[k] \in Nat /\ Budget[k] \in Nat /\ budget[k] <= Budget[k]
    BY AutodeployAssumption DEF TypeOK, BudgetBounded
  <1>2. budget'[k] = budget[k] - 1
    BY DEF SpendEach
  <1> QED
    BY <1>1, <1>2 DEF Never

-----------------------------------------------------------------------------
(* The deploy lock.                                                        *)

LEMMA JobsAreNotStates == \A j \in Jobs : j \notin {"free", "operator", "abandoned"}
  BY AutodeployAssumption

\* The webhook deploy's second lock is never won, since it has the first.
LockInv ==
    /\ LockIsOwn
    /\ Never("unlocks") => \A j \in Jobs : job[j].pc \notin {"commit", "inner release"}

LEMMA InitLock == Init => LockInv
  <1> SUFFICES ASSUME Init PROVE LockInv
    OBVIOUS
  <1>1. lock = "free" /\ op.pc = "idle" /\ \A j \in Jobs : job[j].pc = "idle"
    BY DEF Init, NoJob, NoOp
  <1>2. \A j \in Jobs : lock # j
    BY <1>1, JobsAreNotStates
  <1> QED
    BY <1>1, <1>2 DEF LockInv, LockIsOwn, Locked, At

LEMMA NextLock == TypeOK /\ BudgetBounded /\ LockInv /\ [Next]_vars => LockInv'
  <1> DEFINE Has(pc) == pc \in {"fetch", "version", "build", "inner", "release"}
  <1> SUFFICES ASSUME TypeOK, BudgetBounded, LockInv, [Next]_vars, Never("unlocks")'
               PROVE  /\ \A j \in Jobs : Has(job'[j].pc) <=> lock' = j
                      /\ \A j \in Jobs : job'[j].pc \notin {"commit", "inner release"}
                      /\ op'.pc \in {"commit", "release"} <=> lock' = "operator"
    BY ZenonT(40), NextTypeOK DEF LockInv, LockIsOwn, Locked, Handling, At, TypeOK, Handler, JobLabels
  <1> DEFINE Goal == /\ \A j \in Jobs : Has(job'[j].pc) <=> lock' = j
                     /\ \A j \in Jobs : job'[j].pc \notin {"commit", "inner release"}
                     /\ op'.pc \in {"commit", "release"} <=> lock' = "operator"
  <1>0. /\ \A j \in Jobs : Has(job[j].pc) <=> lock = j
        /\ \A j \in Jobs : job[j].pc \notin {"commit", "inner release"}
        /\ op.pc \in {"commit", "release"} <=> lock = "operator"
    BY NeverBefore DEF LockInv, LockIsOwn, Locked, Handling, At, TypeOK, Handler, JobLabels, Chances
  <1>t. /\ job \in [Jobs -> Handler]
        /\ op \in [pc : {"idle", "build", "lock", "commit", "release"}, ver : Versions]
    BY DEF TypeOK
  <1> USE <1>0, <1>t, JobsAreNotStates DEF At
  <1>1. CASE UNCHANGED <<job, op, lock>>
    BY <1>1
  <1>m. ASSUME NEW j \in Jobs, NEW l, ~Has(l), l \notin {"commit", "inner release"},
               ~Has(job[j].pc), UNCHANGED <<op, lock>>,
               \A i \in Jobs : job'[i].pc = IF i = j THEN l ELSE job[i].pc
        PROVE  Goal
    <2>1. \A i \in Jobs : Has(job'[i].pc) <=> Has(job[i].pc)
      BY <1>m
    <2>2. \A i \in Jobs : job'[i].pc \notin {"commit", "inner release"}
      BY <1>m
    <2> QED
      BY <2>1, <2>2, <1>m
  <1>2. ASSUME NEW p \in Pushes, Age(p) PROVE Goal
    <2>1. \A i \in Jobs : job'[i].pc = job[i].pc
      BY ZenonT(40), <1>2 DEF Age, Handler
    <2>2. UNCHANGED <<op, lock>>
      BY <1>2 DEF Age
    <2> QED
      BY <2>1, <2>2
  <1>3. ASSUME NEW p \in Pushes, NEW j \in Jobs, Receive(j, p) PROVE Goal
    <2>1. \A i \in Jobs : job'[i].pc = IF i = j THEN "snapshot" ELSE job[i].pc
      BY <1>3 DEF Receive, NoJob
    <2>2. job[j].pc = "idle" /\ UNCHANGED <<op, lock>>
      BY <1>3 DEF Receive
    <2> QED
      BY <2>1, <2>2, <1>m
  <1>4. ASSUME NEW j \in Jobs, Handle(j) PROVE Goal
    <2>0. /\ job[j].pc \in {"snapshot", "truncate", "write", "trigger"}
          /\ UNCHANGED <<op, lock>>
      BY <1>4 DEF Handle, Snapshot, Truncate, Write, Trigger
    <2>1. CASE Snapshot(j)
      <3>1. \A i \in Jobs : job'[i].pc = IF i = j THEN "truncate" ELSE job[i].pc
        BY ZenonT(40), <2>1 DEF Snapshot, Handler
      <3> QED
        BY <3>1, <2>0, <1>m
    <2>2. CASE Truncate(j)
      <3>1. PICK l \in {"write", "trigger"} : Goto(j, l)
        BY <2>2 DEF Truncate
      <3>2. \A i \in Jobs : job'[i].pc = IF i = j THEN l ELSE job[i].pc
        BY <3>1 DEF Goto, Handler
      <3> QED
        BY <3>1, <3>2, <2>0, <1>m
    <2>3. CASE Write(j)
      <3>1. \A i \in Jobs : job'[i].pc = IF i = j THEN "trigger" ELSE job[i].pc
        BY <2>3 DEF Write, Handler
      <3> QED
        BY <3>1, <2>0, <1>m
    <2>4. CASE Trigger(j)
      <3>1. \A i \in Jobs : job'[i].pc = IF i = j THEN "lock" ELSE job[i].pc
        BY <2>4 DEF Trigger, Goto, Handler
      <3> QED
        BY <3>1, <2>0, <1>m
    <2> QED
      BY <1>4, <2>1, <2>2, <2>3, <2>4 DEF Handle
  <1>5. ASSUME NEW j \in Jobs, Run(j) \/ JobFails(j) \/ InnerFails(j) PROVE Goal
    <2> USE DEF Goto, End, NoJob, Handler, Has
    <2>1. CASE LockWon(j)
      <3>1. \A i \in Jobs : lock # i
        BY <2>1 DEF LockWon
      <3>2. \A i \in Jobs : ~Has(job[i].pc)
        BY <3>1
      <3>3. \A i \in Jobs : job'[i].pc = IF i = j THEN "fetch" ELSE job[i].pc
        BY <2>1 DEF LockWon
      <3>4. \A i \in Jobs : Has(job'[i].pc) <=> lock' = i
        BY <2>1, <3>2, <3>3 DEF LockWon
      <3>5. \A i \in Jobs : job'[i].pc \notin {"commit", "inner release"}
        BY <3>3
      <3>6. op.pc \notin {"commit", "release"} /\ op' = op /\ lock' = j
        BY <2>1 DEF LockWon
      <3> QED
        BY <3>4, <3>5, <3>6
    <2>2. CASE LockLost(j)
      BY <2>2 DEF LockLost
    <2>3. CASE Fetch(j)
      <3>1. PICK l \in {"version", "release"} : Goto(j, l)
        BY <2>3 DEF Fetch
      <3>2. At(j, "fetch") /\ UNCHANGED <<op, lock>>
        BY <2>3 DEF Fetch
      <3> QED
        BY <3>1, <3>2
    <2>4. CASE ReadVersion(j)
      BY ZenonT(40), <2>4 DEF ReadVersion
    <2>5. CASE Build(j)
      BY ZenonT(40), <2>5 DEF Build
    <2>6. CASE InnerWon(j) \/ InnerLost(j)
      BY ZenonT(40), <2>6 DEF InnerWon, InnerLost
    <2>7. CASE Commit(j) \/ InnerRelease(j) \/ InnerFails(j)
      BY <2>7 DEF Commit, InnerRelease, InnerFails
    <2>8. CASE Release(j)
      BY <2>8 DEF Release
    <2>9. CASE JobFails(j)
      BY ZenonT(40), <2>9 DEF JobFails
    <2> QED
      BY <1>5, <2>1, <2>2, <2>3, <2>4, <2>5, <2>6, <2>7, <2>8, <2>9 DEF Run
  <1>6. CASE Killed /\ UNCHANGED op
    BY <1>6 DEF Killed, Abandoned, NoJob
  <1>7. CASE Operator /\ ~Setup
    <2>1. CASE Unlock
      BY <2>1, SpentHappened DEF Unlock, Spend, Chances
    <2>2. ASSUME NEW v \in Pushes, OpSync(v) PROVE Goal
      BY <2>2 DEF OpSync
    <2>3. CASE OpBuild
      <3>1. op.pc = "build" /\ UNCHANGED <<job, lock>>
        BY <2>3 DEF OpBuild
      <3>2. op' = [op EXCEPT !.pc = "lock"] \/ op' = NoOp
        BY <2>3 DEF OpBuild
      <3>3. CASE op' = [op EXCEPT !.pc = "lock"]
        BY <3>1, <3>3
      <3>4. CASE op' = NoOp
        BY <3>1, <3>4 DEF NoOp
      <3> QED
        BY <3>2, <3>3, <3>4
    <2>4. CASE OpLock
      <3>1. op.pc = "lock" /\ UNCHANGED job
        BY <2>4 DEF OpLock
      <3>2. \/ lock = "free" /\ lock' = "operator" /\ op' = [op EXCEPT !.pc = "commit"]
            \/ UNCHANGED lock /\ op' = NoOp
        BY <2>4 DEF OpLock
      <3>3. CASE lock = "free" /\ lock' = "operator" /\ op' = [op EXCEPT !.pc = "commit"]
        BY <3>1, <3>3
      <3>4. CASE UNCHANGED lock /\ op' = NoOp
        BY <3>1, <3>4 DEF NoOp
      <3> QED
        BY <3>2, <3>3, <3>4
    <2>5. CASE OpCommit \/ OpFails
      BY <2>5 DEF OpCommit, OpFails
    <2>6. CASE OpRelease
      BY <2>6 DEF OpRelease, NoOp
    <2> QED
      BY <1>7, <2>1, <2>2, <2>3, <2>4, <2>5, <2>6 DEF Operator
  <1>8. CASE Expire
    BY <1>8 DEF Expire
  <1> QED
    BY <1>1, <1>2, <1>3, <1>4, <1>5, <1>6, <1>7, <1>8
       DEF Next, vars, Push, ReceiveReplay, Crash, Setup, Restart, RouteLost, Operator, Rest

\* A webhook deploy owns the lock from its first command to its last, and so
\* does an operator's deploy, whatever fails and whoever is killed, as long as
\* nobody unlocks by hand.
THEOREM LockIsAlwaysOwn == Spec => []LockIsOwn
  <1>1. Init => BudgetBounded
    BY AutodeployAssumption DEF Init, BudgetBounded
  <1>2. LockInv => LockIsOwn
    BY DEF LockInv
  <1> QED
    BY <1>1, <1>2, InitTypeOK, NextTypeOK, NextBudgetBounded, InitLock, NextLock, PTL DEF Spec
-----------------------------------------------------------------------------
(* No delivery is lost.                                                    *)

HandlingLabels == {"snapshot", "truncate", "write", "trigger"}

\* Push p has triggered its deploy, or is about to.
Answered(p) == count[p] > 0 \/ \E j \in Jobs : job[j].pc \in HandlingLabels /\ job[j].push = p

\* While the server has never been killed it is up.
LostInv == Never("crashes") => up /\ \A p \in Known(seen) : Answered(p)

LEMMA InitLost == Init => LostInv
  BY DEF Init, LostInv, Known, Nothing

\* The steps of the deploy that a handler has triggered.
LEMMA RunKeepsAnswers ==
  ASSUME TypeOK, NEW j \in Jobs, Run(j) \/ JobFails(j) \/ InnerFails(j)
  PROVE  UNCHANGED <<up, seen>> /\ \A p \in Pushes : Answered(p) => Answered(p)'
  <1>t. job \in [Jobs -> Handler]
    BY DEF TypeOK
  <1>1. UNCHANGED <<up, seen, count>>
    BY DEF Run, JobFails, InnerFails, LockWon, LockLost, Fetch, ReadVersion, Build,
           InnerWon, InnerLost, Commit, InnerRelease, Release, dedup, server
  <1>2. job[j].pc \notin HandlingLabels
    BY DEF Run, JobFails, InnerFails, LockWon, LockLost, Fetch, ReadVersion, Build,
           InnerWon, InnerLost, Commit, InnerRelease, Release, At, HandlingLabels
  <1>3. \A i \in Jobs \ {j} : job'[i] = job[i]
    BY <1>t DEF Run, JobFails, InnerFails, LockWon, LockLost, Fetch, ReadVersion, Build,
           InnerWon, InnerLost, Commit, InnerRelease, Release, Goto, End
  <1> QED
    BY <1>1, <1>2, <1>3 DEF Answered

LEMMA NextLost == TypeOK /\ BudgetBounded /\ LostInv /\ [Next]_vars => LostInv'
  <1> SUFFICES ASSUME TypeOK, BudgetBounded, LostInv, [Next]_vars, Never("crashes")'
               PROVE  up' /\ \A p \in Known(seen)' : Answered(p)'
    BY DEF LostInv
  <1> DEFINE Goal == up' /\ \A p \in Known(seen)' : Answered(p)'
  <1>0. up /\ \A p \in Known(seen) : Answered(p)
    BY NeverBefore DEF LostInv, Chances
  <1>t. /\ job \in [Jobs -> Handler]
        /\ count \in [Pushes -> Nat]
        /\ seen \in Memory
    BY DEF TypeOK
  <1> USE <1>0, <1>t DEF Known
  <1>1. CASE UNCHANGED <<up, seen, job, count>>
    BY <1>1 DEF Answered
  <1>2. ASSUME NEW p \in Pushes, Age(p) PROVE Goal
    <2>1. \A q \in Pushes : seen'[q] # "unknown" => seen[q] # "unknown"
      BY <1>2 DEF Age, Aged, Memory
    <2>2. \A j \in Jobs : job'[j].pc = job[j].pc /\ job'[j].push = job[j].push
      BY <1>2 DEF Age, Handler
    <2> QED
      BY <1>2, <2>1, <2>2 DEF Age, Answered
  <1>3. ASSUME NEW p \in Pushes, ReceiveReplay(p) PROVE Goal
    BY <1>3 DEF ReceiveReplay, Pruned, Memory, Answered
  <1>4. ASSUME NEW p \in Pushes, NEW j \in Jobs, Receive(j, p) PROVE Goal
    <2>1. \A q \in Pushes \ {p} : seen'[q] # "unknown" => seen[q] # "unknown"
      BY <1>4 DEF Receive, Pruned, Memory
    <2>2. \A i \in Jobs \ {j} : job'[i] = job[i]
      BY <1>4 DEF Receive
    <2>3. job[j].pc \notin HandlingLabels
      BY <1>4 DEF Receive, At, HandlingLabels
    <2>4. job'[j].pc = "snapshot" /\ job'[j].push = p
      BY <1>4 DEF Receive, NoJob
    <2>5. UNCHANGED <<up, count>>
      BY <1>4 DEF Receive
    <2>6. \A q \in Pushes : Answered(q) => Answered(q)'
      BY <2>2, <2>3, <2>5 DEF Answered
    <2>7. Answered(p)'
      BY <2>4 DEF Answered, HandlingLabels
    <2> QED
      BY <2>1, <2>5, <2>6, <2>7
  <1>5. ASSUME NEW j \in Jobs, Handle(j) PROVE Goal
    <2>1. UNCHANGED <<up, seen>>
      BY <1>5 DEF Handle, Snapshot, Truncate, Write, Trigger, dedup
    <2>2. CASE Trigger(j)
      <3>1. \A i \in Jobs \ {j} : job'[i] = job[i]
        BY <2>2 DEF Trigger, Goto
      <3>2. \A q \in Pushes : count[q] > 0 => count'[q] > 0
        BY <2>2 DEF Trigger
      <3>3. job[j].push \in Pushes => count'[job[j].push] > 0
        BY <2>2 DEF Trigger
      <3> QED
        BY <2>1, <3>1, <3>2, <3>3 DEF Answered
    <2>3. CASE Snapshot(j) \/ Truncate(j) \/ Write(j)
      <3>1. UNCHANGED count
        BY <2>3 DEF Snapshot, Truncate, Write
      <3>2. \A i \in Jobs \ {j} : job'[i] = job[i]
        <4>1. CASE Truncate(j)
          <5>1. PICK l \in {"write", "trigger"} : Goto(j, l)
            BY <4>1 DEF Truncate
          <5> QED
            BY <5>1 DEF Goto
        <4> QED
          BY <2>3, <4>1 DEF Snapshot, Write
      <3>3. job'[j].pc \in HandlingLabels /\ job'[j].push = job[j].push
        <4>1. CASE Truncate(j)
          <5>1. PICK l \in {"write", "trigger"} : Goto(j, l)
            BY <4>1 DEF Truncate
          <5> QED
            BY <5>1 DEF Goto, Handler, HandlingLabels
        <4> QED
          BY <2>3, <4>1 DEF Snapshot, Write, Handler, HandlingLabels
      <3> QED
        BY <2>1, <3>1, <3>2, <3>3 DEF Answered
    <2> QED
      BY <1>5, <2>2, <2>3 DEF Handle
  <1>6. ASSUME NEW j \in Jobs, Run(j) \/ JobFails(j) \/ InnerFails(j) PROVE Goal
    BY <1>6, RunKeepsAnswers
  <1>7. CASE Crash \/ Setup
    <2>1. PICK ks \in SUBSET Chances : "crashes" \in ks /\ SpendEach(ks)
      BY <1>7 DEF Crash, Setup, Killed, Chances
    <2> QED
      BY <2>1, SpentHappened
  <1>8. CASE Restart
    BY <1>8 DEF Restart
  <1>9. CASE Push \/ Expire \/ RouteLost \/ (Operator /\ ~Setup)
    BY <1>1, <1>9 DEF Push, Expire, RouteLost, Operator, OpSync, OpBuild, OpLock, OpCommit,
                      OpFails, OpRelease, Unlock, dedup, server
  <1> QED
    BY <1>1, <1>2, <1>3, <1>4, <1>5, <1>6, <1>7, <1>8, <1>9 DEF Next, Rest, vars, dedup

\* A delivery that a retry is told has been handled has triggered its deploy or
\* is about to, as long as the server has not been killed.
THEOREM NoneIsLost == Spec => []NoneLost
  <1>1. Init => BudgetBounded
    BY AutodeployAssumption DEF Init, BudgetBounded
  <1>2. LostInv => NoneLost
    BY DEF LostInv, NoneLost, Answered, Handling, HandlingLabels
  <1> QED
    BY <1>1, <1>2, InitTypeOK, NextTypeOK, NextBudgetBounded, InitLost, NextLost, PTL DEF Spec
-----------------------------------------------------------------------------
(* Images and the checkout they are built in.                              *)

\* Between the fetch and the build the checkout is at the version that names
\* the image, because the lock keeps the other webhook deploys out, and no
\* operator's files have been put over it.
ImageInv ==
    Never("unlocks") /\ Never("overlaps") =>
        /\ \A v \in Pushes : image[v] \in {0, v}
        /\ \A j \in Jobs : /\ job[j].pc \in {"version", "build"} => git = tree /\ op.pc # "build"
                           /\ job[j].pc = "build" => job[j].ver = git
        /\ op.pc = "build" => tree = op.ver

LEMMA InitImage == Init => ImageInv
  BY DEF Init, ImageInv, NoJob, NoOp

LEMMA NextImage == TypeOK /\ BudgetBounded /\ LockInv /\ ImageInv /\ [Next]_vars => ImageInv'
  <1> DEFINE Goal ==
        /\ \A v \in Pushes : image'[v] \in {0, v}
        /\ \A j \in Jobs : /\ job'[j].pc \in {"version", "build"} => git' = tree' /\ op'.pc # "build"
                           /\ job'[j].pc = "build" => job'[j].ver = git'
        /\ op'.pc = "build" => tree' = op'.ver
  <1> SUFFICES ASSUME TypeOK, BudgetBounded, LockInv, ImageInv, [Next]_vars,
                      Never("unlocks")', Never("overlaps")'
               PROVE  Goal
    BY DEF ImageInv
  <1>0. /\ \A v \in Pushes : image[v] \in {0, v}
        /\ \A j \in Jobs : /\ job[j].pc \in {"version", "build"} => git = tree /\ op.pc # "build"
                           /\ job[j].pc = "build" => job[j].ver = git
        /\ op.pc = "build" => tree = op.ver
    BY NeverBefore DEF ImageInv, Chances
  <1>t. /\ job \in [Jobs -> Handler]
        /\ op \in [pc : {"idle", "build", "lock", "commit", "release"}, ver : Versions]
        /\ image \in [Pushes -> Versions]
    BY DEF TypeOK
  <1>l. \A j \in Jobs : job[j].pc \in {"fetch", "version", "build"} => lock = j
    BY NeverBefore DEF LockInv, LockIsOwn, Locked, Handling, At, Chances
  <1>o. \A ks \in SUBSET Chances : SpendEach(ks) => "overlaps" \notin ks
    BY SpentHappened
  <1> USE <1>0, <1>t DEF At
  <1>1. CASE /\ UNCHANGED <<git, tree, image, op>>
             /\ \A j \in Jobs : /\ job'[j].pc \in {"version", "build"} => job'[j].pc = job[j].pc
                                /\ job'[j].pc = "build" => job'[j].ver = job[j].ver
    BY <1>1
  <1>2. ASSUME NEW p \in Pushes, Age(p) PROVE Goal
    BY <1>1, <1>2 DEF Age, Handler, server
  <1>3. ASSUME NEW p \in Pushes, NEW j \in Jobs, Receive(j, p) PROVE Goal
    BY <1>1, <1>3 DEF Receive, NoJob, server
  <1>4. ASSUME NEW j \in Jobs, Handle(j) PROVE Goal
    <2>1. UNCHANGED <<git, tree, image, op>>
      BY <1>4 DEF Handle, Snapshot, Truncate, Write, Trigger, server
    <2>2. job'[j].pc \notin {"version", "build"} /\ \A i \in Jobs \ {j} : job'[i] = job[i]
      <3>1. CASE Truncate(j)
        <4>1. PICK l \in {"write", "trigger"} : Goto(j, l)
          BY <3>1 DEF Truncate
        <4> QED
          BY <4>1 DEF Goto, Handler
      <3> QED
        BY <1>4, <3>1 DEF Handle, Snapshot, Write, Trigger, Goto, Handler
    <2> QED
      BY <1>1, <2>1, <2>2
  <1>5. ASSUME NEW j \in Jobs, Run(j) \/ JobFails(j) \/ InnerFails(j) PROVE Goal
    <2>1. CASE Fetch(j)
      <3>1. op.pc # "build" /\ UNCHANGED <<op, image>> /\ git' = tree'
        BY <1>o, <2>1 DEF Fetch, Overlap, Spend, Chances
      <3>2. PICK l \in {"version", "release"} : Goto(j, l)
        BY <2>1 DEF Fetch
      <3>3. job'[j].pc # "build" /\ \A i \in Jobs \ {j} : job'[i] = job[i]
        BY <3>2 DEF Goto, Handler
      <3>4. \A i \in Jobs \ {j} : job[i].pc \notin {"version", "build"}
        BY <1>l, <2>1 DEF Fetch
      <3> QED
        BY <3>1, <3>3, <3>4
    <2>2. CASE ReadVersion(j)
      <3>1. job[j].pc = "version" /\ UNCHANGED <<op, image, git, tree>>
        BY <2>2 DEF ReadVersion, server
      <3>2. job'[j].ver = git /\ \A i \in Jobs \ {j} : job'[i] = job[i]
        BY <2>2 DEF ReadVersion, Handler
      <3> QED
        BY <3>1, <3>2
    <2>3. CASE Build(j)
      <3>1. UNCHANGED <<op, git, tree>>
        BY <2>3 DEF Build, BuildImage
      <3>2. job[j].ver = tree
        BY <2>3 DEF Build
      <3>3. \A v \in Pushes : image'[v] \in {0, v}
        BY <2>3, <3>2 DEF Build, BuildImage
      <3>4. job'[j].pc = "inner" /\ \A i \in Jobs \ {j} : job'[i] = job[i]
        BY <2>3 DEF Build, Goto, Handler
      <3> QED
        BY <3>1, <3>3, <3>4
    <2>4. CASE Commit(j) \/ InnerFails(j) \/ InnerRelease(j)
      BY <2>4, NeverBefore DEF LockInv, Commit, InnerFails, InnerRelease, Chances
    <2>5. CASE \/ LockWon(j) \/ LockLost(j) \/ InnerWon(j) \/ InnerLost(j) \/ Release(j)
               \/ JobFails(j)
      <3>1. UNCHANGED <<git, tree, image, op>>
        BY <2>5 DEF LockWon, LockLost, InnerWon, InnerLost, Release, JobFails, server
      <3>2. job'[j].pc \notin {"version", "build"} /\ \A i \in Jobs \ {j} : job'[i] = job[i]
        BY <2>5 DEF LockWon, LockLost, InnerWon, InnerLost, Release, JobFails, Goto, End, NoJob,
                    Handler
      <3> QED
        BY <1>1, <3>1, <3>2
    <2> QED
      BY <1>5, <2>1, <2>2, <2>3, <2>4, <2>5 DEF Run
  <1>6. CASE Killed /\ UNCHANGED <<op, git, tree, image>>
    BY <1>6 DEF Killed, NoJob
  <1>7. CASE Operator /\ ~Setup
    <2>1. ASSUME NEW v \in Pushes, OpSync(v) PROVE Goal
      <3>1. Building = {} /\ op' = [pc |-> "build", ver |-> v] /\ tree' = v
        BY <1>o, <2>1 DEF OpSync, Chances
      <3> QED
        BY <2>1, <3>1 DEF OpSync, Building
    <2>2. CASE OpBuild
      <3>1. UNCHANGED <<job, git, tree>> /\ op.pc = "build"
        BY <2>2 DEF OpBuild, BuildImage, server
      <3>2. op' = [op EXCEPT !.pc = "lock"] \/ op' = NoOp
        BY <2>2 DEF OpBuild
      <3>3. op'.pc # "build"
        <4>1. CASE op' = [op EXCEPT !.pc = "lock"]
          BY <4>1
        <4>2. CASE op' = NoOp
          BY <4>2 DEF NoOp
        <4> QED
          BY <3>2, <4>1, <4>2
      <3>4. image' = [image EXCEPT ![op.ver] = tree] \/ image' = image
        BY <2>2 DEF OpBuild, BuildImage, server
      <3>5. \A v \in Pushes : image'[v] \in {0, v}
        BY <3>1, <3>4
      <3> QED
        BY <3>1, <3>3, <3>5
    <2>3. CASE OpLock
      <3>1. UNCHANGED <<job, git, tree, image>>
        BY <2>3 DEF OpLock, server
      <3>2. op' = [op EXCEPT !.pc = "commit"] \/ op' = NoOp
        BY <2>3 DEF OpLock
      <3>3. op'.pc # "build"
        <4>1. CASE op' = [op EXCEPT !.pc = "commit"]
          BY <4>1
        <4>2. CASE op' = NoOp
          BY <4>2 DEF NoOp
        <4> QED
          BY <3>2, <4>1, <4>2
      <3> QED
        BY <3>1, <3>3
    <2>4. CASE OpCommit \/ OpFails \/ OpRelease
      <3>1. UNCHANGED <<job, git, tree, image>>
        BY <2>4 DEF OpCommit, OpFails, OpRelease, server
      <3>2. CASE OpRelease
        BY <3>1, <3>2 DEF OpRelease, NoOp
      <3>3. CASE OpCommit \/ OpFails
        <4>1. op' = [op EXCEPT !.pc = "release"]
          BY <3>3 DEF OpCommit, OpFails
        <4> QED
          BY <3>1, <4>1
      <3> QED
        BY <2>4, <3>2, <3>3
    <2>5. CASE Unlock
      BY <1>1, <2>5 DEF Unlock, server
    <2> QED
      BY <1>7, <2>1, <2>2, <2>3, <2>4, <2>5 DEF Operator
  <1>8. CASE UNCHANGED <<job, op, server>>
    BY <1>1, <1>8 DEF server
  <1> QED
    BY <1>2, <1>3, <1>4, <1>5, <1>6, <1>7, <1>8
       DEF Next, Rest, vars, Push, ReceiveReplay, Crash, Setup, Restart, Expire, RouteLost,
           Operator, server

\* Only an operator's sync puts files into the checkout that git does not track.
CleanInv == Never("ops") => strays = FALSE /\ mixed = {}

LEMMA InitClean == Init => CleanInv
  BY DEF Init, CleanInv

LEMMA NextClean == TypeOK /\ BudgetBounded /\ CleanInv /\ [Next]_vars => CleanInv'
  <1> SUFFICES ASSUME TypeOK, BudgetBounded, CleanInv, [Next]_vars, Never("ops")'
               PROVE  strays' = FALSE /\ mixed' = {}
    BY DEF CleanInv
  <1>0. strays = FALSE /\ mixed = {}
    BY NeverBefore DEF CleanInv, Chances
  <1>1. CASE UNCHANGED <<strays, mixed>>
    BY <1>0, <1>1
  <1>2. ASSUME NEW v, BuildImage(v) PROVE strays' = FALSE /\ mixed' = {}
    BY <1>0, <1>2 DEF BuildImage
  <1>3. ASSUME NEW j \in Jobs, Handle(j) \/ Run(j) \/ JobFails(j) \/ InnerFails(j)
        PROVE  strays' = FALSE /\ mixed' = {}
    <2>1. CASE Fetch(j)
      BY <1>0, <2>1 DEF Fetch
    <2>2. CASE Build(j)
      BY <1>2, <2>2 DEF Build
    <2>3. CASE ~Fetch(j) /\ ~Build(j)
      BY <1>1, <1>3, <2>3 DEF Handle, Snapshot, Truncate, Write, Trigger, Run, JobFails,
         InnerFails, LockWon, LockLost, ReadVersion, InnerWon, InnerLost, Commit, InnerRelease,
         Release, server
    <2> QED
      BY <2>1, <2>2, <2>3
  <1>4. CASE Operator
    <2>1. ASSUME NEW v \in Pushes PROVE ~OpSync(v)
      <3>1. \A ks \in SUBSET Chances : SpendEach(ks) => "ops" \notin ks
        BY SpentHappened
      <3> QED
        BY <3>1 DEF OpSync, Chances
    <2>2. CASE OpBuild
      BY <1>1, <1>2, <2>2 DEF OpBuild, server
    <2>3. CASE OpLock \/ OpCommit \/ OpFails \/ OpRelease \/ Unlock \/ Setup
      BY <1>1, <2>3 DEF OpLock, OpCommit, OpFails, OpRelease, Unlock, Setup, server
    <2> QED
      BY <1>4, <2>1, <2>2, <2>3 DEF Operator
  <1>5. CASE UNCHANGED server
    BY <1>1, <1>5 DEF server
  <1> QED
    BY <1>3, <1>4, <1>5
       DEF Next, Rest, vars, Push, Age, Receive, ReceiveReplay, Crash, Restart, Expire,
           RouteLost, server

\* An image has the files of the version it is named after, although webhook
\* deploys and operators build in one directory, as long as no operator's build
\* runs beside a webhook deploy's and nobody unlocks by hand; and it has no
\* others as long as no operator syncs into that directory.
THEOREM ImagesAreVersions == Spec => []ImageIsVersion
  <1>1. Init => BudgetBounded
    BY AutodeployAssumption DEF Init, BudgetBounded
  <1>2. ImageInv /\ CleanInv => ImageIsVersion
    BY DEF ImageInv, CleanInv, ImageIsVersion
  <1> QED
    BY <1>1, <1>2, InitTypeOK, NextTypeOK, NextBudgetBounded, InitLock, NextLock, InitImage,
       NextImage, InitClean, NextClean, PTL DEF Spec
-----------------------------------------------------------------------------
(* Replays.                                                                *)

Ages == Budget["ages"] - budget["ages"]

\* Push p has triggered at most n deploys, with the one that a handler at one of
\* the labels ls is about to trigger.
Within(p, n, ls) ==
    count[p] <= n /\ \A j \in Jobs : job[j].pc \in ls /\ job[j].push = p => count[p] < n

\* A push that the memory, the snapshot to be written or the file does not hold
\* as recent may be triggered once more.  The file lags behind the memory until
\* the handler has written it, so only what is past that counts there; and while
\* it is truncated it holds nothing.
OnceInv ==
    Never("faults") /\ Never("overlaps") =>
        /\ \A i, j \in Jobs : job[i].pc \in HandlingLabels /\ job[j].pc \in HandlingLabels => i = j
        /\ ~up => \A j \in Jobs : job[j].pc \notin HandlingLabels
        /\ \A j \in Jobs : job[j].pc = "write" => disk = Nothing
        /\ \A p \in Pushes :
            /\ Within(p, 1 + Ages, HandlingLabels)
            /\ up /\ seen[p] # "recent" => Within(p, Ages, HandlingLabels)
            /\ \A j \in Jobs : job[j].pc \in {"truncate", "write"} /\ job[j].snap[p] # "recent"
                   => Within(p, Ages, HandlingLabels)
            /\ disk[p] # "recent" /\ (\A j \in Jobs : job[j].pc # "write")
                   => Within(p, Ages, {"trigger"})

LEMMA InitOnce == Init => OnceInv
  BY AutodeployAssumption DEF Init, OnceInv, Within, NoJob, HandlingLabels, Nothing, Ages, Chances

LEMMA AgesType ==
  ASSUME TypeOK, BudgetBounded, [Next]_vars
  PROVE  Ages \in Nat /\ Ages' \in Nat /\ Ages <= Ages'
  <1>1. /\ budget["ages"] \in Nat /\ budget'["ages"] \in Nat /\ Budget["ages"] \in Nat
        /\ budget["ages"] <= Budget["ages"] /\ budget'["ages"] <= budget["ages"]
    BY NextTypeOK, BudgetFalls, AutodeployAssumption DEF TypeOK, BudgetBounded, Chances
  <1> QED
    BY <1>1 DEF Ages

\* Over an empty file a snapshot is written as it is.
LEMMA WrittenOverNothing ==
  ASSUME disk = Nothing, NEW m \in Memory
  PROVE  Written(m) = m
  <1>1. Known(disk) = {} /\ Cardinality(Known(disk)) = 0
    BY FS_EmptySet DEF Known, Nothing
  <1>2. IsFiniteSet(Pushes)
    BY FS_Interval, AutodeployAssumption DEF Pushes
  <1>3. IsFiniteSet(Known(m))
    BY <1>2, FS_Subset DEF Known
  <1>4. Cardinality(Known(m)) \in Nat
    BY <1>3, FS_CardinalityType
  <1> QED
    BY <1>1, <1>4 DEF Written

LEMMA NextOnce == TypeOK /\ BudgetBounded /\ OnceInv /\ [Next]_vars => OnceInv'
  <1> DEFINE Alone == \A i, j \in Jobs : job[i].pc \in HandlingLabels /\ job[j].pc \in HandlingLabels
                                          => i = j
             Down == ~up => \A j \in Jobs : job[j].pc \notin HandlingLabels
             Empty == \A j \in Jobs : job[j].pc = "write" => disk = Nothing
             All(p) == Within(p, 1 + Ages, HandlingLabels)
             Mem(p) == up /\ seen[p] # "recent" => Within(p, Ages, HandlingLabels)
             Snap(p) == \A j \in Jobs :
                           job[j].pc \in {"truncate", "write"} /\ job[j].snap[p] # "recent"
                           => Within(p, Ages, HandlingLabels)
             Disk(p) == disk[p] # "recent" /\ (\A j \in Jobs : job[j].pc # "write")
                           => Within(p, Ages, {"trigger"})
             Each == \A p \in Pushes : All(p) /\ Mem(p) /\ Snap(p) /\ Disk(p)
             Goal == Alone' /\ Down' /\ Empty' /\ Each'
  <1> SUFFICES ASSUME TypeOK, BudgetBounded, OnceInv, [Next]_vars, Never("faults")',
                      Never("overlaps")'
               PROVE  Goal
    BY DEF OnceInv
  <1>0. Alone /\ Down /\ Empty /\ Each
    BY NeverBefore DEF OnceInv, Chances
  <1>t. /\ job \in [Jobs -> Handler]
        /\ count \in [Pushes -> Nat]
        /\ seen \in Memory /\ disk \in Memory
    BY DEF TypeOK
  <1>a. Ages \in Nat /\ Ages' \in Nat /\ Ages <= Ages'
    BY AgesType
  <1>s. \A ks \in SUBSET Chances : SpendEach(ks) => "overlaps" \notin ks /\ "faults" \notin ks
    BY SpentHappened
  <1> USE <1>t, <1>a DEF At
  <1>1. ASSUME UNCHANGED <<up, disk, count>>,
               \A p \in Pushes : seen'[p] # "recent" => seen[p] # "recent",
               \A j \in Jobs : job[j].pc \in HandlingLabels \/ job'[j].pc \in HandlingLabels
                                => job'[j] = job[j]
        PROVE  Goal
    <2>1. Alone' /\ Down' /\ Empty'
      BY <1>0, <1>1 DEF HandlingLabels
    <2>2. ASSUME NEW p \in Pushes PROVE All(p)' /\ Mem(p)' /\ Snap(p)' /\ Disk(p)'
      <3>1. All(p) /\ Mem(p) /\ Snap(p) /\ Disk(p)
        BY <1>0
      <3>2. count[p] \in Nat
        OBVIOUS
      <3>3. All(p)'
        BY <1>1, <3>1, <3>2 DEF Within
      <3>4. Within(p, Ages, HandlingLabels) => Within(p, Ages, HandlingLabels)'
        BY <1>1, <3>2 DEF Within
      <3>5. Within(p, Ages, {"trigger"}) => Within(p, Ages, {"trigger"})'
        BY <1>1, <3>2 DEF Within, HandlingLabels
      <3>6. Mem(p)' /\ Snap(p)'
        BY <1>1, <3>1, <3>4 DEF HandlingLabels
      <3>7. Disk(p)'
        BY <1>1, <3>1, <3>5 DEF HandlingLabels
      <3> QED
        BY <3>3, <3>6, <3>7
    <2> QED
      BY <2>1, <2>2
  <1>2. ASSUME NEW p \in Pushes, Age(p) PROVE Goal
    <2>1. \A j \in Jobs : /\ job'[j].pc = job[j].pc /\ job'[j].push = job[j].push
                          /\ job'[j].snap = Aged(job[j].snap, p)
      BY <1>2 DEF Age, Handler
    <2>2. UNCHANGED <<up, count>> /\ seen' = Aged(seen, p) /\ disk' = Aged(disk, p)
      BY <1>2 DEF Age
    <2>3. Ages' = Ages + 1
      <3>1. budget["ages"] \in Nat /\ Budget["ages"] \in Nat
        BY AutodeployAssumption DEF TypeOK, Chances
      <3> QED
        BY <1>2, <3>1 DEF Age, Spend, SpendEach, Ages, Chances
    <2>4. Alone' /\ Down'
      BY <1>0, <2>1, <2>2
    <2>5. Empty'
      BY <1>0, <2>1, <2>2 DEF Aged, Nothing
    <2>6. ASSUME NEW q \in Pushes PROVE All(q)' /\ Mem(q)' /\ Snap(q)' /\ Disk(q)'
      <3>1. All(q) /\ Mem(q) /\ Snap(q) /\ Disk(q)
        BY <1>0
      <3>2. count[q] \in Nat
        OBVIOUS
      <3>3. All(q)'
        BY <2>1, <2>2, <3>1, <3>2 DEF Within
      <3>4. CASE q = p
        <4>1. Within(q, Ages, HandlingLabels)'
          BY <2>1, <2>2, <2>3, <3>1, <3>2, <3>4 DEF Within
        <4>2. Within(q, Ages, {"trigger"})'
          BY <4>1 DEF Within, HandlingLabels
        <4> QED
          BY <3>3, <4>1, <4>2
      <3>5. CASE q # p
        <4>1. Within(q, Ages, HandlingLabels) => Within(q, Ages, HandlingLabels)'
          BY <2>1, <2>2, <3>2 DEF Within
        <4>2. Within(q, Ages, {"trigger"}) => Within(q, Ages, {"trigger"})'
          BY <2>1, <2>2, <3>2 DEF Within
        <4>3. \A m \in Memory : Aged(m, p)[q] = m[q]
          BY <3>5 DEF Aged, Memory
        <4>4. Mem(q)' /\ Disk(q)'
          BY <2>1, <2>2, <3>1, <4>1, <4>2, <4>3
        <4>5. Snap(q)'
          BY <2>1, <3>1, <4>1, <4>3 DEF Handler
        <4> QED
          BY <3>3, <4>4, <4>5
      <3> QED
        BY <3>4, <3>5
    <2> QED
      BY <2>4, <2>5, <2>6
  <1>3. ASSUME NEW p \in Pushes, ReceiveReplay(p) PROVE Goal
    BY <1>1, <1>3 DEF ReceiveReplay, Pruned
  <1>4. ASSUME NEW p \in Pushes, NEW j \in Jobs, Receive(j, p) PROVE Goal
    <2>1. \A i \in Jobs : job[i].pc \notin HandlingLabels
      BY <1>s, <1>4 DEF Receive, Overlap, Spend, Chances, Handling, HandlingLabels
    <2>2. /\ job' = [job EXCEPT ![j] = [NoJob EXCEPT !.pc = "snapshot", !.push = p]]
          /\ UNCHANGED <<up, disk, count>> /\ up /\ seen[p] # "recent"
          /\ seen' = [Pruned(seen) EXCEPT ![p] = "recent"]
      BY <1>4 DEF Receive
    <2>3. /\ job'[j].pc = "snapshot" /\ job'[j].push = p
          /\ \A i \in Jobs \ {j} : job'[i] = job[i]
      BY <2>2 DEF NoJob
    <2>4. Alone' /\ Down' /\ Empty'
      BY <2>1, <2>2, <2>3 DEF HandlingLabels
    <2>5. ASSUME NEW q \in Pushes PROVE All(q)' /\ Mem(q)' /\ Snap(q)' /\ Disk(q)'
      <3>1. All(q) /\ Mem(q) /\ Disk(q) /\ count[q] \in Nat
        BY <1>0
      <3>2. Snap(q)'
        BY <2>1, <2>3 DEF HandlingLabels
      <3>3. CASE q = p
        <4>1. count[q] <= Ages /\ count'[q] = count[q]
          BY <2>2, <3>1, <3>3 DEF Within
        <4>2. All(q)'
          BY <4>1, <3>1 DEF Within
        <4>3. Mem(q)'
          BY <2>2, <3>3 DEF Pruned
        <4>4. Disk(q)'
          BY <2>1, <2>3, <3>1, <4>1 DEF Within, HandlingLabels
        <4> QED
          BY <3>2, <4>2, <4>3, <4>4
      <3>4. CASE q # p
        <4>1. seen'[q] # "recent" => seen[q] # "recent"
          BY <2>2, <3>4 DEF Pruned
        <4>2. All(q)'
          BY <2>1, <2>2, <2>3, <3>1, <3>4 DEF Within
        <4>3. Mem(q)'
          BY <2>1, <2>2, <2>3, <3>1, <3>4, <4>1 DEF Within
        <4>4. Disk(q)'
          BY <2>1, <2>2, <2>3, <3>1, <3>4 DEF Within, HandlingLabels
        <4> QED
          BY <3>2, <4>2, <4>3, <4>4
      <3> QED
        BY <3>3, <3>4
    <2> QED
      BY <2>4, <2>5
  <1>5. ASSUME NEW j \in Jobs, Handle(j) PROVE Goal
    <2>0. job[j].pc \in HandlingLabels
      BY <1>5 DEF Handle, Snapshot, Truncate, Write, Trigger, HandlingLabels
    <2>1. up /\ \A i \in Jobs \ {j} : job[i].pc \notin HandlingLabels
      BY <1>0, <2>0
    <2>2. UNCHANGED <<up, seen, budget>>
      <3>1. CASE Truncate(j)
        BY <1>s, <3>1 DEF Truncate, Spend, Chances
      <3> QED
        BY <1>5, <3>1 DEF Handle, Snapshot, Truncate, Write, Trigger, dedup
    <2>3. Ages' = Ages
      BY <2>2 DEF Ages
    <2>4. ASSUME \A i \in Jobs \ {j} : job'[i] = job[i]
          PROVE  Alone' /\ Down'
      BY <2>1, <2>2, <2>4
    <2> USE <2>1
    <2>5. CASE Snapshot(j)
      <3>1. /\ job[j].pc = "snapshot" /\ job'[j].pc = "truncate" /\ job'[j].push = job[j].push
            /\ job'[j].snap = seen /\ \A i \in Jobs \ {j} : job'[i] = job[i]
            /\ UNCHANGED <<disk, count>>
        BY <2>5 DEF Snapshot, Handler, dedup
      <3>2. Empty'
        BY <3>1 DEF HandlingLabels
      <3>3. ASSUME NEW q \in Pushes PROVE All(q)' /\ Mem(q)' /\ Snap(q)' /\ Disk(q)'
        <4>1. All(q) /\ Mem(q) /\ Disk(q)
          BY <1>0
        <4>2. All(q)'
          BY <2>3, <3>1, <4>1 DEF Within, HandlingLabels
        <4>3. Within(q, Ages, HandlingLabels) => Within(q, Ages, HandlingLabels)'
          BY <2>3, <3>1 DEF Within, HandlingLabels
        <4>4. Mem(q)' /\ Snap(q)'
          BY <2>2, <3>1, <4>1, <4>3 DEF HandlingLabels
        <4>5. Disk(q)'
          BY <2>3, <3>1, <4>1 DEF Within, HandlingLabels
        <4> QED
          BY <4>2, <4>4, <4>5
      <3> QED
        BY <2>4, <3>1, <3>2, <3>3
    <2>6. CASE Truncate(j)
      <3>1. /\ job[j].pc = "truncate" /\ job'[j].pc = "write" /\ job'[j].push = job[j].push
            /\ job'[j].snap = job[j].snap /\ \A i \in Jobs \ {j} : job'[i] = job[i]
            /\ disk' = Nothing /\ UNCHANGED count
        BY <1>s, <2>6 DEF Truncate, Goto, Handler, Spend, Chances
      <3>2. Empty'
        BY <3>1
      <3>3. ASSUME NEW q \in Pushes PROVE All(q)' /\ Mem(q)' /\ Snap(q)' /\ Disk(q)'
        <4>1. All(q) /\ Mem(q) /\ Snap(q)
          BY <1>0
        <4>2. All(q)'
          BY <2>3, <3>1, <4>1 DEF Within, HandlingLabels
        <4>3. Within(q, Ages, HandlingLabels) => Within(q, Ages, HandlingLabels)'
          BY <2>3, <3>1 DEF Within, HandlingLabels
        <4>4. Mem(q)' /\ Snap(q)'
          BY <2>2, <3>1, <4>1, <4>3 DEF HandlingLabels
        <4>5. Disk(q)'
          BY <3>1
        <4> QED
          BY <4>2, <4>4, <4>5
      <3> QED
        BY <2>4, <3>1, <3>2, <3>3
    <2>7. CASE Write(j)
      <3>1. /\ job[j].pc = "write" /\ job'[j].pc = "trigger" /\ job'[j].push = job[j].push
            /\ \A i \in Jobs \ {j} : job'[i] = job[i]
            /\ UNCHANGED count
        BY <2>7 DEF Write, Handler
      <3>2. disk' = job[j].snap
        <4>1. disk = Nothing /\ job[j].snap \in Memory
          BY <1>0, <3>1 DEF Handler
        <4> QED
          BY <2>7, <4>1, WrittenOverNothing DEF Write
      <3>3. Empty'
        BY <3>1 DEF HandlingLabels
      <3>4. ASSUME NEW q \in Pushes PROVE All(q)' /\ Mem(q)' /\ Snap(q)' /\ Disk(q)'
        <4>1. All(q) /\ Mem(q) /\ Snap(q)
          BY <1>0
        <4>2. All(q)'
          BY <2>3, <3>1, <4>1 DEF Within, HandlingLabels
        <4>3. Within(q, Ages, HandlingLabels) => Within(q, Ages, HandlingLabels)'
          BY <2>3, <3>1 DEF Within, HandlingLabels
        <4>4. Mem(q)'
          BY <2>2, <4>1, <4>3
        <4>5. Snap(q)'
          BY <3>1 DEF HandlingLabels
        <4>6. Within(q, Ages, HandlingLabels)' => Within(q, Ages, {"trigger"})'
          BY DEF Within, HandlingLabels
        <4>7. Disk(q)'
          BY <3>1, <3>2, <4>1, <4>3, <4>6
        <4> QED
          BY <4>2, <4>4, <4>5, <4>7
      <3> QED
        BY <2>4, <3>1, <3>3, <3>4
    <2>8. CASE Trigger(j)
      <3>1. /\ job[j].pc = "trigger" /\ job'[j].pc = "lock"
            /\ \A i \in Jobs \ {j} : job'[i] = job[i]
            /\ UNCHANGED disk
        BY <2>8 DEF Trigger, Goto, Handler, dedup
      <3>2. \A i \in Jobs : job'[i].pc \notin HandlingLabels
        BY <3>1 DEF HandlingLabels
      <3>3. Empty'
        BY <3>2 DEF HandlingLabels
      <3>4. ASSUME NEW q \in Pushes PROVE All(q)' /\ Mem(q)' /\ Snap(q)' /\ Disk(q)'
        <4>1. All(q) /\ Mem(q) /\ Disk(q) /\ count[q] \in Nat
          BY <1>0
        <4>2. count'[q] = IF q = job[j].push THEN count[q] + 1 ELSE count[q]
          BY <2>8 DEF Trigger
        <4>3. All(q)'
          BY <2>3, <3>1, <3>2, <4>1, <4>2 DEF Within, HandlingLabels
        <4>4. Within(q, Ages, HandlingLabels) => Within(q, Ages, HandlingLabels)'
          BY <2>3, <3>1, <3>2, <4>1, <4>2 DEF Within, HandlingLabels
        <4>5. Within(q, Ages, {"trigger"}) => Within(q, Ages, {"trigger"})'
          BY <2>3, <3>1, <3>2, <4>1, <4>2 DEF Within, HandlingLabels
        <4>6. Mem(q)'
          BY <2>2, <4>1, <4>4
        <4>7. Snap(q)'
          BY <3>2 DEF HandlingLabels
        <4>8. \A i \in Jobs : job[i].pc # "write"
          BY <3>1 DEF HandlingLabels
        <4>9. Disk(q)'
          BY <3>1, <4>1, <4>5, <4>8
        <4> QED
          BY <4>3, <4>6, <4>7, <4>9
      <3> QED
        BY <2>4, <3>1, <3>3, <3>4
    <2> QED
      BY <1>5, <2>5, <2>6, <2>7, <2>8 DEF Handle
  <1>6. ASSUME NEW j \in Jobs, Run(j) \/ JobFails(j) \/ InnerFails(j) PROVE Goal
    <2>1. UNCHANGED <<up, seen, disk, count>>
      BY <1>6 DEF Run, JobFails, InnerFails, LockWon, LockLost, Fetch, ReadVersion, Build,
             InnerWon, InnerLost, Commit, InnerRelease, Release, dedup, server
    <2>2. job[j].pc \notin HandlingLabels
      BY <1>6 DEF Run, JobFails, InnerFails, LockWon, LockLost, Fetch, ReadVersion, Build,
             InnerWon, InnerLost, Commit, InnerRelease, Release, HandlingLabels
    <2>3. /\ \A i \in Jobs \ {j} : job'[i] = job[i]
          /\ job'[j].pc \notin HandlingLabels
      <3>1. \/ Goto(j, "fetch") \/ Goto(j, "version") \/ Goto(j, "inner") \/ Goto(j, "commit")
            \/ Goto(j, "inner release") \/ Goto(j, "release") \/ End(j) \/ ReadVersion(j)
        BY <1>6 DEF Run, JobFails, InnerFails, LockWon, LockLost, Fetch, Build, InnerWon,
               InnerLost, Commit, InnerRelease, Release
      <3>2. ASSUME NEW l \in JobLabels \ HandlingLabels, Goto(j, l)
            PROVE  /\ \A i \in Jobs \ {j} : job'[i] = job[i]
                   /\ job'[j].pc \notin HandlingLabels
        BY <3>2 DEF Goto, Handler
      <3>3. CASE End(j) \/ ReadVersion(j)
        BY <3>3 DEF End, ReadVersion, NoJob, Handler, HandlingLabels
      <3> QED
        BY <3>1, <3>2, <3>3 DEF JobLabels, HandlingLabels
    <2> QED
      BY <1>1, <2>1, <2>2, <2>3
  <1>7. CASE Crash \/ Setup
    <2>1. /\ \A j \in Jobs : job[j].pc # "write" /\ job'[j].pc = "idle"
          /\ UNCHANGED <<disk, count>>
      <3>1. ~Writing
        BY <1>s, <1>7 DEF Crash, Setup, Killed, Chances
      <3> QED
        BY <1>7, <3>1 DEF Crash, Setup, Killed, Writing, NoJob
    <2>2. \A j \in Jobs : job'[j].pc \notin HandlingLabels
      BY <2>1 DEF HandlingLabels
    <2>3. Alone' /\ Down' /\ Empty'
      BY <2>2 DEF HandlingLabels
    <2>4. up' => seen' = disk
      BY <1>7 DEF Crash, Setup
    <2>5. ASSUME NEW q \in Pushes PROVE All(q)' /\ Mem(q)' /\ Snap(q)' /\ Disk(q)'
      <3>1. All(q) /\ Disk(q) /\ count[q] \in Nat
        BY <1>0
      <3>2. All(q)'
        BY <2>1, <2>2, <3>1 DEF Within
      <3>3. Snap(q)'
        BY <2>2 DEF HandlingLabels
      <3>4. Mem(q)' /\ Disk(q)'
        BY <2>1, <2>2, <2>4, <3>1 DEF Within, HandlingLabels
      <3> QED
        BY <3>2, <3>3, <3>4
    <2> QED
      BY <2>3, <2>5
  <1>8. CASE Restart
    <2>1. ~up /\ up' /\ seen' = disk /\ UNCHANGED <<disk, job, count, budget>>
      BY <1>8 DEF Restart
    <2>2. \A j \in Jobs : job[j].pc \notin HandlingLabels
      BY <1>0, <2>1
    <2>3. Alone' /\ Down' /\ Empty'
      BY <1>0, <2>1
    <2>4. ASSUME NEW q \in Pushes PROVE All(q)' /\ Mem(q)' /\ Snap(q)' /\ Disk(q)'
      BY <1>0, <2>1, <2>2 DEF Within, HandlingLabels, Ages
    <2> QED
      BY <2>3, <2>4
  <1>9. CASE UNCHANGED <<up, seen, disk, job, count>>
    BY <1>1, <1>9
  <1> QED
    BY <1>2, <1>3, <1>4, <1>5, <1>6, <1>7, <1>8, <1>9
       DEF Next, Rest, vars, Push, Expire, RouteLost, Operator, OpSync, OpBuild, OpLock, OpCommit,
           OpFails, OpRelease, Unlock, dedup, server

\* A delivery triggers one deploy, and one more for each time it has become 24
\* hours old, across any number of crashes, as long as no write of the memory
\* fails or is cut short and no two handlers write at a time.
THEOREM TriggersOnce == Spec => []TriggeredOnce
  <1>1. Init => BudgetBounded
    BY AutodeployAssumption DEF Init, BudgetBounded
  <1>2. ASSUME TypeOK, BudgetBounded, OnceInv PROVE TriggeredOnce
    <2>1. /\ budget["ages"] \in Nat /\ Budget["ages"] \in Nat
          /\ count \in [Pushes -> Nat]
      BY <1>2, AutodeployAssumption DEF TypeOK, Chances
    <2> QED
      BY <1>2, <2>1 DEF OnceInv, TriggeredOnce, Within, Ages
  <1> QED
    BY <1>1, <1>2, InitTypeOK, NextTypeOK, NextBudgetBounded, InitOnce, NextOnce, PTL DEF Spec
=============================================================================
