-------------------------- MODULE DeployLockProofs --------------------------
(***************************************************************************)
(* Proofs about DeployLock, for any numbers of deploys, heal passes and    *)
(* operators: type correctness of every behaviour, and, for the behaviours *)
(* of CalmSpec, mutual exclusion and the refinement of AppLock.            *)
(***************************************************************************)
EXTENDS DeployLock, TLAPS

\* The infos that get written are infos.
LEMMA NoInfoType == NoInfo \in Info
  BY DEF NoInfo, Info

LEMMA NewInfoType ==
  ASSUME NEW p \in Procs
  PROVE  [type |-> LockType(p), old |-> FALSE] \in Info
  <1>1. LockType(p) \in {"none", "auto", "heal", "manual"}
    BY DEF LockType
  <1> QED
    BY <1>1 DEF Info

LEMMA InitTypeOK == Init => TypeOK
  <1> SUFFICES ASSUME Init PROVE TypeOK
    OBVIOUS
  <1>1. info \in Info
    BY NoInfoType DEF Init
  <1> QED
    BY <1>1 DEF Init, TypeOK, NoProcess

LEMMA NextTypeOK == TypeOK /\ [Next]_vars => TypeOK'
  <1> SUFFICES ASSUME TypeOK, [Next]_vars PROVE TypeOK'
    OBVIOUS
  <1> USE DEF TypeOK, Goto
  <1>1. CASE Expire
    BY <1>1 DEF Expire, Info
  <1>2. ASSUME NEW p \in Procs, Step(p) PROVE TypeOK'
    <2>1. CASE MkdirWon(p) \/ RemakeWon(p)
      BY <2>1 DEF MkdirWon, RemakeWon, Mkdir
    <2>2. CASE MkdirLost(p) \/ ReadStale(p) \/ ReadYield(p)
      BY <2>2 DEF MkdirLost, ReadStale, ReadYield
    <2>3. CASE Break(p) \/ Release(p) \/ UnlockRemoves(p)
      BY <2>3, NoInfoType DEF Break, Release, UnlockRemoves, RemoveDir, NoProcess
    <2>4. CASE BreakFails(p) \/ RemakeLost(p) \/ WriteInfoFails(p) \/ UnlockReads(p)
      BY <2>4 DEF BreakFails, RemakeLost, WriteInfoFails, UnlockReads
    <2>5. CASE WriteInfo(p)
      BY <2>5, NewInfoType DEF WriteInfo, NoProcess
    <2>6. CASE Abandon(p)
      BY <2>6 DEF Abandon, DirWithout, NoProcess
    <2> QED
      BY <1>2, <2>1, <2>2, <2>3, <2>4, <2>5, <2>6 DEF Step
  <1>3. CASE UNCHANGED vars
    BY <1>3 DEF vars
  <1> QED
    BY <1>1, <1>2, <1>3 DEF Next

\* Every reachable state has the shape TypeOK says, whatever the processes do:
\* in particular the info file never holds a lock type nobody knows.
THEOREM TypeCorrect == Spec => []TypeOK
  BY InitTypeOK, NextTypeOK, PTL DEF Spec

-----------------------------------------------------------------------------
(* Calm behaviours: the strengthened invariant, one step per action.       *)

LEMMA ProcsAreNotStates ==
    /\ "free" \notin Procs /\ "abandoned" \notin Procs
    /\ "frozen" \notin Procs /\ "nobody" \notin Procs
  BY KindsAssumption DEF NoProcess

LEMMA UnlockersAreProcs ==
    Unlockers \subseteq Procs /\ Unlockers \cap Workers = {} /\ Unlockers \cap Takers = {}
  BY KindsAssumption DEF Procs, Takers

\* Who may break what, and which lock is whose.
LEMMA KindsDiffer ==
    /\ \A h \in Heals : ~(h \in Deploys) /\ ~(h \in Freezers) /\ LockType(h) = "heal"
    /\ \A q \in Deploys : ~(q \in Freezers) /\ LockType(q) = "auto"
    /\ \A p \in Procs : LockType(p) # "none"
    /\ Deploys \cup Heals \cup Freezers \subseteq Procs
  BY KindsAssumption DEF LockType, Workers, Takers, Procs

LEMMA InitCalm == Init => CalmInv
  <1> SUFFICES ASSUME Init PROVE CalmInv
    OBVIOUS
  <1>1. TypeOK
    BY InitTypeOK
  <1>2. dir \notin Procs
    BY ProcsAreNotStates DEF Init
  <1>3. \A p \in Procs : pc[p] = "idle"
    BY DEF Init
  <1>4. \A u \in Unlockers : pc[u] = "idle"
    BY <1>3 DEF Procs
  <1>5. \A q \in Deploys \cup Heals \cup Freezers : q \in Procs
    BY DEF Procs, Takers, Workers
  <1> QED
    BY <1>1, <1>2, <1>3, <1>4, <1>5
       DEF Init, CalmInv, LoneRemover, OverrunsAlone, Removing, HolderOwnsDir, Info

LEMMA NextCalm == CalmInv /\ [CalmNext]_vars => CalmInv'
  <1> SUFFICES ASSUME CalmInv, [CalmNext]_vars PROVE CalmInv'
    OBVIOUS
  <1>1. CASE UNCHANGED vars
    BY <1>1 DEF vars, CalmInv, TypeOK, LoneRemover, OverrunsAlone, Removing, HolderOwnsDir
  <1>2. CASE CalmNext
    <2> USE DEF CalmInv, Goto
    <2>1. TypeOK'
      BY <1>2, NextTypeOK DEF CalmNext
    <2>2. LoneRemover' /\ OverrunsAlone'
      BY <1>2 DEF CalmNext, CalmStep
    <2>3. CASE Expire
      <3>0. info \in Info /\ info.type # "none"
        BY <2>3 DEF Expire, TypeOK
      <3>1. dir \notin Heals
        BY <2>3, <1>2, <3>0 DEF Expire, CalmNext, CalmStep, HealsInTime, Info
      <3>3. dir \notin Freezers
        BY <3>0 DEF NoInfo
      <3>2. info'.type = info.type /\ info # NoInfo
        BY <2>3 DEF Expire, NoInfo, TypeOK, Info
      <3> QED
        BY <2>1, <2>2, <2>3, <3>1, <3>2, <3>3 DEF Expire, HolderOwnsDir
    <2>4. ASSUME NEW p \in Procs, Step(p) PROVE CalmInv'
      <3> USE <2>1, <2>2, ProcsAreNotStates, UnlockersAreProcs DEF TypeOK, HolderOwnsDir
      <3>2. CASE MkdirWon(p) \/ RemakeWon(p)
        BY <3>2 DEF MkdirWon, RemakeWon, Mkdir, NoInfo
      <3>3. CASE MkdirLost(p) \/ ReadYield(p) \/ RemakeLost(p) \/ BreakFails(p)
        BY <3>3 DEF MkdirLost, ReadYield, RemakeLost, BreakFails
      <3>4. CASE ReadStale(p)
        <4>1. dir = "abandoned"
          <5>1. pc[p] = "read" /\ pc'[p] = "break" /\ dir' = dir /\ info' = info
            BY <3>4 DEF ReadStale
          <5>2. info.old /\ info.type \in IF p \in Deploys THEN {"auto", "heal"} ELSE {"heal"}
            BY <3>4 DEF ReadStale, Breakable
          <5>3. dir \notin Heals /\ dir \notin Freezers /\ dir # "free" /\ dir # "frozen"
            BY <5>2 DEF NoInfo
          <5>4. ASSUME dir \in Deploys PROVE FALSE
            <6>1. p \notin Deploys
              BY <5>1, <5>2, <5>4 DEF OverrunsAlone
            <6> QED
              BY <5>2, <5>4, <6>1, KindsDiffer
          <5> QED
            BY <5>3, <5>4 DEF Procs, Takers, Workers, NoProcess
        <4> QED
          BY <3>4, <4>1 DEF ReadStale
      <3>5. CASE Break(p) \/ UnlockRemoves(p)
        <4>1. \A q \in Procs \ {p} : ~Removing(q)
          BY <3>5 DEF Break, UnlockRemoves, LoneRemover, Removing
        <4>2. dir \notin Procs
          BY <3>5, ProcsAreNotStates DEF Break, UnlockRemoves
        <4> QED
          BY <3>5, <4>1, <4>2 DEF Break, UnlockRemoves, RemoveDir, NoInfo, Removing
      <3>6. CASE WriteInfo(p)
        <4>1. dir = p
          BY <3>6 DEF WriteInfo
        <4>2. info'.old = FALSE /\ info'.type = LockType(p)
          BY <3>6 DEF WriteInfo
        <4>3. CASE p \in Freezers
          <5>1. info'.type = "manual"
            BY <4>2, <4>3, KindsAssumption DEF LockType, Workers
          <5> QED
            BY <3>6, <4>1, <4>2, <4>3, <5>1, KindsDiffer DEF WriteInfo
        <4>4. CASE p \notin Freezers
          BY <3>6, <4>1, <4>2, <4>4, KindsDiffer DEF WriteInfo
        <4> QED
          BY <4>3, <4>4
      <3>7. CASE WriteInfoFails(p)
        BY <3>7 DEF WriteInfoFails
      <3>8. CASE Release(p)
        <4>1. dir = p
          BY <3>8 DEF Release
        <4> QED
          BY <3>8, <4>1 DEF Release, RemoveDir, NoInfo
      <3>9. CASE Abandon(p)
        BY <3>9, KindsDiffer DEF Abandon, DirWithout, NoInfo
      <3>10. CASE UnlockReads(p)
        <4>1. dir \notin Procs
          BY <3>10, <1>2 DEF UnlockReads, CalmNext, CalmStep, UnlocksOnlyUnused
        <4> QED
          BY <3>10, <4>1 DEF UnlockReads, NoInfo, NoProcess
      <3> QED
        BY <2>4, <3>2, <3>3, <3>4, <3>5, <3>6, <3>7, <3>8, <3>9, <3>10 DEF Step
    <2> QED
      BY <1>2, <2>3, <2>4 DEF CalmNext, Next
  <1> QED
    BY <1>1, <1>2

THEOREM CalmInvariant == CalmSpec => []CalmInv
  BY InitCalm, NextCalm, PTL DEF CalmSpec

\* No two deploys or heal passes work on one app at the same time, and none
\* works on a frozen one, provided no two removals of a lock overlap, a heal
\* pass ends within its TTL, a deploy that outlives its own is not joined by
\* another deploy, and nobody unlocks a lock in use.
THEOREM CalmMutualExclusion == CalmSpec => []MutualExclusion
  <1>1. CalmInv => MutualExclusion
    BY ProcsAreNotStates DEF CalmInv, HolderOwnsDir, MutualExclusion, Workers, Takers, Procs
  <1> QED
    BY <1>1, CalmInvariant, PTL

\* A freeze set with `teploy lock` ends only with `teploy unlock`, under the
\* same conditions.
THEOREM CalmFreezeIsPermanent == CalmSpec => FreezeIsPermanent
  <1>1. CalmInv /\ [CalmNext]_vars =>
            [dir = "frozen" /\ dir' # "frozen" => \E u \in Unlockers : UnlockRemoves(u)]_vars
    <2> SUFFICES ASSUME CalmInv, CalmNext, dir = "frozen", dir' # "frozen"
                 PROVE  \E u \in Unlockers : UnlockRemoves(u)
      OBVIOUS
    <2> USE ProcsAreNotStates DEF CalmInv, HolderOwnsDir
    <2>1. ~Expire
      BY DEF Expire
    <2>2. PICK p \in Procs : Step(p)
      BY <2>1 DEF CalmNext, Next
    <2>3. ~ Break(p) /\ ~ Release(p) /\ ~ Abandon(p) /\ ~ WriteInfo(p)
      BY DEF Break, Release, Abandon, DirWithout, WriteInfo
    <2>4. UnlockRemoves(p)
      BY <2>2, <2>3 DEF Step, MkdirWon, MkdirLost, Mkdir, ReadStale, ReadYield,
         BreakFails, RemakeWon, RemakeLost, WriteInfoFails, UnlockReads
    <2>5. p \in Unlockers
      BY <2>4 DEF UnlockRemoves
    <2> QED
      BY <2>4, <2>5
  <1> QED
    BY <1>1, CalmInvariant, PTL DEF CalmSpec, FreezeIsPermanent

\* A heal pass never removes the lock directory of a live deploy, however long
\* that deploy takes, under the same conditions.
THEOREM CalmHealNeverBreaksDeploy == CalmSpec => HealNeverBreaksDeploy
  <1>1. CalmInv => [\A h \in Heals : Break(h) => dir \notin Deploys]_vars
    BY ProcsAreNotStates DEF CalmInv, Break, Procs, Takers, Workers
  <1> QED
    BY <1>1, CalmInvariant, PTL DEF HealNeverBreaksDeploy

-----------------------------------------------------------------------------
(* The refinement of AppLock.                                              *)

HolderIsUnique ==
    /\ \A p \in Workers : Holding(p) => Holder = p
    /\ (\A p \in Workers : ~Holding(p)) => Holder = "nobody"

LEMMA CalmHolder == CalmInv => HolderIsUnique
  <1> SUFFICES ASSUME CalmInv PROVE HolderIsUnique
    OBVIOUS
  <1>1. \A p, q \in Workers : Holding(p) /\ Holding(q) => p = q
    BY DEF CalmInv, HolderOwnsDir, Holding, Workers, Takers, Procs
  <1>2. ASSUME NEW p \in Workers, Holding(p) PROVE Holder = p
    <2>1. (CHOOSE q \in Workers : Holding(q)) = p
      BY <1>1, <1>2
    <2> QED
      BY <1>2, <2>1 DEF Holder
  <1>3. (\A p \in Workers : ~Holding(p)) => Holder = "nobody"
    BY DEF Holder
  <1> QED
    BY <1>2, <1>3 DEF HolderIsUnique

LEMMA InitRefines == Init /\ CalmInv => Lock!Init
  <1> SUFFICES ASSUME Init, CalmInv PROVE Lock!Init
    OBVIOUS
  <1>1. \A p \in Workers : ~Holding(p)
    BY DEF Init, Holding, Procs, Takers
  <1>2. Holder = "nobody"
    BY <1>1, CalmHolder DEF HolderIsUnique
  <1> QED
    BY <1>2 DEF Lock!Init

\* One concrete step is an Acquire, a LetGo, a Freeze, an Unfreeze or nothing.
LEMMA NextRefines ==
  CalmInv /\ HolderIsUnique /\ HolderIsUnique' /\ [CalmNext]_vars
      => [Lock!Next]_(Lock!lockVars)
  <1> SUFFICES ASSUME CalmInv, HolderIsUnique, HolderIsUnique', [CalmNext]_vars
               PROVE  [Lock!Next]_(Lock!lockVars)
    OBVIOUS
  <1> USE ProcsAreNotStates DEF HolderIsUnique, Holding
  <1>1. ASSUME \A p \in Workers : pc'[p] = "hold" <=> pc[p] = "hold"
        PROVE  Holder' = Holder
    <2>1. CASE \E p \in Workers : pc[p] = "hold"
      BY <1>1, <2>1
    <2>2. CASE \A p \in Workers : pc[p] # "hold"
      BY <1>1, <2>2
    <2> QED
      BY <2>1, <2>2
  <1>2. CASE UNCHANGED vars
    BY <1>1, <1>2 DEF vars, Lock!lockVars
  <1>3. CASE Expire
    BY <1>1, <1>3 DEF Expire, Lock!lockVars
  <1>4. ASSUME NEW p \in Procs, Step(p) PROVE [Lock!Next]_(Lock!lockVars)
    <2> USE DEF Goto, CalmInv, TypeOK, HolderOwnsDir
    <2>0. p \in Workers \/ p \in Freezers \/ p \in Unlockers
      BY DEF Procs, Takers
    <2>1. CASE \/ MkdirWon(p) \/ RemakeWon(p) \/ MkdirLost(p) \/ ReadStale(p)
               \/ ReadYield(p) \/ BreakFails(p) \/ RemakeLost(p)
               \/ WriteInfoFails(p) \/ UnlockReads(p)
      <3>1. UNCHANGED Holder
        BY <1>1, <2>1 DEF MkdirWon, RemakeWon, Mkdir, MkdirLost, ReadStale, ReadYield,
           BreakFails, RemakeLost, WriteInfoFails, UnlockReads, Workers, Takers, Procs
      <3>2. (dir = "frozen") = (dir' = "frozen")
        BY <2>1 DEF MkdirWon, RemakeWon, Mkdir, MkdirLost, ReadStale, ReadYield,
           BreakFails, RemakeLost, WriteInfoFails, UnlockReads
      <3> QED
        BY <3>1, <3>2 DEF Lock!lockVars
    <2>2. CASE Break(p)
      <3>1. UNCHANGED Holder
        BY <1>1, <2>2 DEF Break, Workers, Takers, Procs
      <3> QED
        BY <2>2, <3>1 DEF Break, RemoveDir, Lock!lockVars
    <2>3. CASE UnlockRemoves(p)
      <3>1. /\ UNCHANGED Holder
            /\ dir \notin Procs
        BY <1>1, <2>3 DEF UnlockRemoves, Workers, Takers, Procs
      <3>2. dir' = "free"
        BY <2>3 DEF UnlockRemoves, RemoveDir
      <3> QED
        BY <3>1, <3>2 DEF Lock!lockVars, Lock!Next, Lock!Unfreeze
    <2>4. CASE WriteInfo(p)
      <3>1. dir = p /\ \A q \in Workers : pc[q] # "hold"
        BY <2>4 DEF WriteInfo, Workers, Takers, Procs
      <3>2. CASE p \in Freezers
        <4>1. dir' = "frozen" /\ UNCHANGED Holder
          BY <1>1, <2>4, <3>1, <3>2 DEF WriteInfo, Workers, Takers, Procs
        <4> QED
          BY <3>1, <4>1 DEF Lock!Next, Lock!Freeze
      <3>3. CASE p \notin Freezers
        <4>1. p \in Workers
          BY <2>4, <3>3, <2>0 DEF WriteInfo, Takers, Procs
        <4>2. Holder = "nobody" /\ Holder' = p /\ dir' = dir
          BY <2>4, <3>1, <3>3, <4>1 DEF WriteInfo
        <4> QED
          BY <3>1, <4>1, <4>2 DEF Lock!Next, Lock!Acquire
      <3> QED
        BY <3>2, <3>3
    <2>5. CASE Release(p) \/ Abandon(p)
      <3>1. /\ pc'[p] = "idle"
            /\ \A q \in Procs \ {p} : pc'[q] = pc[q]
            /\ dir' \in {dir, "free", "abandoned"}
            /\ dir = "frozen" => dir' = "frozen"
        BY <2>5 DEF Release, Abandon, RemoveDir, DirWithout
      <3>2. (dir = "frozen") = (dir' = "frozen")
        BY <3>1
      <3>3. CASE p \in Workers /\ pc[p] = "hold"
        <4>1. \A q \in Workers : pc'[q] # "hold"
          BY <3>1, <3>3 DEF Workers, Takers, Procs
        <4>2. Holder = p /\ Holder' = "nobody"
          BY <3>3, <4>1
        <4> QED
          BY <3>2, <3>3, <4>2 DEF Lock!Next, Lock!LetGo
      <3>4. CASE ~(p \in Workers /\ pc[p] = "hold")
        BY <1>1, <3>1, <3>2, <3>4 DEF Workers, Takers, Procs, Lock!lockVars
      <3> QED
        BY <3>3, <3>4
    <2> QED
      BY <1>4, <2>1, <2>2, <2>3, <2>4, <2>5 DEF Step
  <1> QED
    BY <1>2, <1>3, <1>4 DEF CalmNext, Next

\* The directory-and-file protocol provides the lock AppLock specifies, as
\* long as the conditions of CalmSpec hold.
THEOREM CalmImplementsAppLock == CalmSpec => ImplementsAppLock
  BY InitCalm, InitRefines, NextRefines, CalmHolder, CalmInvariant, PTL
     DEF CalmSpec, ImplementsAppLock, Lock!Spec
==============================================================================
