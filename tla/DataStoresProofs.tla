--------------------------- MODULE DataStoresProofs ---------------------------
(***************************************************************************)
(* What DataParts promises of OpenBao and of the secrets of an app, for    *)
(* every value of its constants.                                           *)
(***************************************************************************)
EXTENDS DataPartsProofs

\* A mishap or a use of a kind that is presupposed never to happen does not.
LEMMA NotOfKind ==
  ASSUME LuckTypeOK, NEW X, NoneOf(X)', NEW k \in MishapKinds \cap X
  PROVE  ~Mishap(k) /\ ~BeginAs({k})
  <1> DEFINE K == {k}
  <1>1. K \in SUBSET MishapKinds /\ ~(K \cap X = {})
    OBVIOUS
  <1> HIDE DEF K
  <1>2. ~(BeginAs(K) \/ MishapAs(K))
    BY <1>1, NoneBefore
  <1> QED
    BY <1>2 DEF K, Mishap

-----------------------------------------------------------------------------
\* OpenBao: types.  A seal key in use is not 0, and a command's steps are those
\* of its operation.
AKeeper == [pc : {"idle", "seal", "store", "nodes", "run", "wait", "init", "root", "kv",
                  "peers", "role", "connect", "dbrole", "grant", "put"},
            op : {"none", "setup", "db", "static", "put"}, key : Keys,
            todo : SUBSET Nodes, said : {"nothing", "ready", "failed"}]

DatabaseSteps == {"connect", "dbrole", "grant"}
SetupSteps    == {"seal", "store", "nodes", "run", "wait", "init", "root", "kv", "peers", "role"}

KeeperTyped(k) ==
    /\ keeper[k].op = "setup" => keeper[k].said = "nothing" /\ keeper[k].pc \in SetupSteps
    /\ keeper[k].pc \in {"store", "nodes", "run"} => keeper[k].key # 0

VaultTyped ==
    /\ LuckTypeOK /\ VaultTypeOK
    /\ \A n \in Nodes : node[n].run # "absent" => node[n].key # 0
    /\ \A k \in Keepers : KeeperTyped(k)

LEMMA NoKeeperType ==
    /\ NoKeeper \in AKeeper
    /\ \A said \in {"nothing", "ready", "failed"} : [NoKeeper EXCEPT !.said = said] \in AKeeper
    /\ 0 \in Keys
  BY MishapsAssumption DEF NoKeeper, AKeeper, Keys

LEMMA InitVaultTyped == VaultInit /\ LuckTypeOK => VaultTyped
  BY NoKeeperType DEF VaultInit, VaultTyped, VaultTypeOK, KeeperTyped, NoKeeper, AKeeper

LEMMA KeeperLuck ==
  ASSUME VaultNext
  PROVE  \/ UNCHANGED luck
         \/ \E K \in SUBSET MishapKinds : BeginAs(K) \/ MishapAs(K)
  <1>1. ASSUME NEW k \in Keepers, KeeperStep(k) PROVE UNCHANGED luck \/ \E x \in MishapKinds : Mishap(x)
    BY <1>1 DEF KeeperStep, EnsureSecret, StoreSeal, NodesRun, NameTaken, NextNode, RunNode, WaitReady,
       Initialize, KeepRoot, EnableKV, WaitForPeers, EnsureAppRole, Connect, CreateRole, GrantDatabase, Put,
       NotReachable, KeeperFails, KeeperDies, MishapKinds
  <1>2. ASSUME NEW k \in Keepers, NEW op, StartKeeper(k, op) PROVE \E K \in SUBSET MishapKinds : BeginAs(K)
    BY <1>2 DEF StartKeeper, MishapKinds
  <1>3. ASSUME NEW n \in Nodes, NodeGoes(n) \/ NodeReturns(n) PROVE \E K \in SUBSET MishapKinds : BeginAs(K)
    BY <1>3 DEF NodeGoes, NodeReturns, Begin, MishapKinds
  <1>4. ASSUME NEW x \in MishapKinds, Mishap(x) PROVE \E K \in SUBSET MishapKinds : MishapAs(K)
    BY <1>4 DEF Mishap
  <1> QED
    BY <1>1, <1>2, <1>3, <1>4 DEF VaultNext

LEMMA VaultBefore ==
  ASSUME LuckTypeOK, VaultNext, NEW X, NoneOf(X)'
  PROVE  NoneOf(X)
  <1>1. CASE UNCHANGED luck
    BY <1>1 DEF NoneOf
  <1>2. CASE \E K \in SUBSET MishapKinds : BeginAs(K) \/ MishapAs(K)
    BY <1>2, NoneBefore
  <1> QED
    BY <1>1, <1>2, KeeperLuck

\* The steps of a command: it ends, goes to another step of its operation, or
\* changes what it has in hand.
LEMMA KeeperStepForms ==
  ASSUME NEW k \in Keepers, KeeperStep(k)
  PROVE  \/ \E said \in {"nothing", "ready", "failed"} : KeeperEnds(k, said)
         \/ \E l \in {"wait", "role", "init", "root", "kv", "peers"} : KeeperGo(k, l) /\ ~KeeperAt(k, "idle")
         \/ KeeperAt(k, "nodes") /\ KeeperGo(k, "run")
         \/ keeper[k].pc \in DatabaseSteps /\ \E l \in {"dbrole", "grant"} : KeeperGo(k, l)
         \/ /\ KeeperAt(k, "seal") /\ kept.seal # 0
            /\ keeper' = [keeper EXCEPT ![k].pc = "nodes", ![k].key = kept.seal, ![k].todo = Nodes]
         \/ /\ KeeperAt(k, "seal") /\ newest < MaxOps /\ newest' = newest + 1
            /\ keeper' = [keeper EXCEPT ![k].pc = "store", ![k].key = newest']
         \/ KeeperAt(k, "store") /\ keeper' = [keeper EXCEPT ![k].pc = "nodes", ![k].todo = Nodes]
         \/ \E n \in Nodes :
                \/ KeeperAt(k, "nodes") /\ keeper' = [keeper EXCEPT ![k].todo = @ \ {n}]
                \/ KeeperAt(k, "run") /\ keeper' = [keeper EXCEPT ![k].pc = "nodes", ![k].todo = @ \ {n}]
  <1>1. CASE EnsureSecret(k)
    BY <1>1 DEF EnsureSecret
  <1>2. CASE StoreSeal(k)
    BY <1>2 DEF StoreSeal
  <1>3. CASE NodesRun(k) \/ WaitReady(k) \/ Initialize(k) \/ KeepRoot(k) \/ EnableKV(k) \/ WaitForPeers(k)
    BY <1>3 DEF NodesRun, WaitReady, Initialize, KeepRoot, EnableKV, WaitForPeers, KeeperAt
  <1>4. ASSUME NEW n \in Nodes, NextNode(k, n) \/ RunNode(k, n)
        PROVE  \/ KeeperAt(k, "nodes") /\ keeper' = [keeper EXCEPT ![k].todo = @ \ {n}]
               \/ KeeperAt(k, "run") /\ keeper' = [keeper EXCEPT ![k].pc = "nodes", ![k].todo = @ \ {n}]
               \/ KeeperAt(k, "nodes") /\ KeeperGo(k, "run")
    BY <1>4 DEF NextNode, RunNode
  <1>5. CASE Connect(k) \/ CreateRole(k)
    BY <1>5 DEF Connect, CreateRole, KeeperAt, DatabaseSteps
  <1>6. CASE NameTaken(k) \/ EnsureAppRole(k) \/ GrantDatabase(k) \/ Put(k) \/ NotReachable(k)
               \/ KeeperFails(k) \/ KeeperDies(k)
    BY <1>6 DEF NameTaken, EnsureAppRole, GrantDatabase, Put, NotReachable, KeeperFails, KeeperDies
  <1> QED
    BY <1>1, <1>2, <1>3, <1>4, <1>5, <1>6 DEF KeeperStep

LEMMA NextVaultTyped == VaultTyped /\ VaultNext => VaultTyped'
  <1> SUFFICES ASSUME VaultTyped, VaultNext PROVE VaultTyped'
    OBVIOUS
  <1> DEFINE Core == [key : Keys, kv : BOOLEAN, joined : SUBSET Nodes,
                      policy : {"none", "kv", "db"}, allowed : {"none", "role", "all"},
                      dynamic : BOOLEAN, static : BOOLEAN]
             Box  == [run : {"absent", "exited", "running"}, key : Keys]
  <1>t. /\ kept \in [seal : Keys, root : BOOLEAN, role : BOOLEAN]
        /\ newest \in Keys /\ MaxOps \in Nat /\ Keys = 0..MaxOps
        /\ node \in [Nodes -> Box]
        /\ core \in Core
        /\ keeper \in [Keepers -> AKeeper]
        /\ \A n \in Nodes : node[n].run # "absent" => node[n].key # 0
        /\ \A k \in Keepers : KeeperTyped(k)
    BY MishapsAssumption DEF VaultTyped, VaultTypeOK, AKeeper, Keys
  <1>l. LuckTypeOK'
    <2>1. CASE UNCHANGED luck
      BY SMTT(40), <2>1 DEF VaultTyped, LuckTypeOK
    <2> QED
      BY <2>1, KeeperLuck, LuckKept DEF VaultTyped
  <1>1. ASSUME NEW k \in Keepers, KeeperStep(k) PROVE VaultTyped'
    <2>t. keeper[k] \in AKeeper /\ KeeperTyped(k)
      BY <1>t
    <2>1. newest' \in Keys
      BY <1>1, <1>t DEF KeeperStep, EnsureSecret, StoreSeal, NodesRun, NameTaken, NextNode, RunNode, WaitReady,
       Initialize, KeepRoot, EnableKV, WaitForPeers, EnsureAppRole, Connect, CreateRole, GrantDatabase, Put,
       NotReachable, KeeperFails, KeeperDies
    <2>2. kept' \in [seal : Keys, root : BOOLEAN, role : BOOLEAN]
      <3>1. CASE StoreSeal(k)
        <4>1. PICK v \in Keys : kept' = kept \/ kept' = [kept EXCEPT !.seal = v]
          BY <3>1, <2>t, NoKeeperType DEF StoreSeal, AKeeper
        <4> QED
          BY <4>1, <1>t
      <3>2. CASE kept' \in {kept, [kept EXCEPT !.root = TRUE], [kept EXCEPT !.role = TRUE]}
        BY <3>2, <1>t
      <3> QED
        BY <1>1, <3>1, <3>2 DEF KeeperStep, EnsureSecret, NodesRun, NameTaken, NextNode, RunNode, WaitReady,
       Initialize, KeepRoot, EnableKV, WaitForPeers, EnsureAppRole, Connect, CreateRole, GrantDatabase, Put,
       NotReachable, KeeperFails, KeeperDies
    <2>3. /\ node' \in [Nodes -> Box]
          /\ \A n \in Nodes : node'[n].run # "absent" => node'[n].key # 0
      <3>1. CASE UNCHANGED node
        BY <3>1, <1>t
      <3>2. ASSUME NEW n \in Nodes, NextNode(k, n)
            PROVE  node' \in [Nodes -> Box] /\ \A x \in Nodes : node'[x].run # "absent" => node'[x].key # 0
        <4>1. UNCHANGED node \/ node' = [node EXCEPT ![n].run = "absent"]
          BY <3>2 DEF NextNode
        <4>2. CASE node' = [node EXCEPT ![n].run = "absent"]
          <5>1. node' = [node EXCEPT ![n] = [node[n] EXCEPT !.run = "absent"]]
            BY <4>2
          <5>2. [node[n] EXCEPT !.run = "absent"] \in Box
            BY <1>t
          <5>3. node'[n].run = "absent" /\ \A x \in Nodes \ {n} : node'[x] = node[x]
            BY <5>1, <1>t
          <5> QED
            BY <5>1, <5>2, <5>3, <1>t
        <4> QED
          BY <4>1, <4>2, <1>t
      <3>3. ASSUME NEW n \in Nodes, RunNode(k, n)
            PROVE  node' \in [Nodes -> Box] /\ \A x \in Nodes : node'[x].run # "absent" => node'[x].key # 0
        <4>1. keeper[k].key # 0 /\ keeper[k].key \in Keys
          BY <3>3, <2>t DEF RunNode, KeeperAt, KeeperTyped, AKeeper
        <4> QED
          BY <4>1, <3>3, <1>t DEF RunNode
      <3> QED
        BY <1>1, <3>1, <3>2, <3>3 DEF KeeperStep, EnsureSecret, StoreSeal, NodesRun, NameTaken, WaitReady,
       Initialize, KeepRoot, EnableKV, WaitForPeers, EnsureAppRole, Connect, CreateRole, GrantDatabase, Put,
       NotReachable, KeeperFails, KeeperDies
    <2>4. core' \in Core
      <3>1. CASE UNCHANGED core
        BY <3>1, <1>t
      <3>2. CASE Initialize(k)
        <4>1. node[Primary].key \in Keys
          BY <1>t, NodesAssumption
        <4> QED
          BY <3>1, <3>2, <4>1, <1>t DEF Initialize
      <3>3. CASE EnableKV(k) \/ EnsureAppRole(k) \/ Connect(k) \/ GrantDatabase(k)
        BY ZenonT(40), <3>3, <1>t DEF EnableKV, EnsureAppRole, Connect, GrantDatabase
      <3>4. CASE WaitForPeers(k)
        BY <3>4, <1>t DEF WaitForPeers, Joined
      <3>5. CASE CreateRole(k)
        <4>1. /\ (core.dynamic \/ keeper[k].op = "db") \in BOOLEAN
              /\ (core.static \/ keeper[k].op = "static") \in BOOLEAN
          OBVIOUS
        <4>2. ASSUME NEW x \in BOOLEAN, NEW y \in BOOLEAN
              PROVE  [core EXCEPT !.dynamic = x, !.static = y] \in Core
          BY <1>t
        <4>3. core' = [core EXCEPT !.dynamic = core.dynamic \/ keeper[k].op = "db",
                                   !.static = core.static \/ keeper[k].op = "static"]
          BY <3>5 DEF CreateRole
        <4> QED
          BY <4>1, <4>2, <4>3, Zenon
      <3> QED
        BY <1>1, <3>1, <3>2, <3>3, <3>4, <3>5 DEF KeeperStep, EnsureSecret, StoreSeal, NodesRun, NameTaken,
           NextNode, RunNode, WaitReady, KeepRoot, Put, NotReachable, KeeperFails, KeeperDies
    <2>m. ASSUME NEW x \in AKeeper, keeper' = [keeper EXCEPT ![k] = x],
                 x.op = "setup" => x.said = "nothing" /\ x.pc \in SetupSteps,
                 x.pc \in {"store", "nodes", "run"} => x.key # 0
          PROVE  VaultTyped'
      <3>1. keeper' \in [Keepers -> AKeeper] /\ keeper'[k] = x /\ \A y \in Keepers \ {k} : keeper'[y] = keeper[y]
        BY <2>m, <1>t
      <3>2. VaultTypeOK'
        BY <3>1, <2>1, <2>2, <2>3, <2>4 DEF VaultTypeOK, AKeeper
      <3>3. \A y \in Keepers : KeeperTyped(y)'
        BY <3>1, <2>m, <1>t DEF KeeperTyped
      <3> QED
        BY <3>2, <3>3, <2>3, <1>l DEF VaultTyped
    <2>5. ASSUME NEW said \in {"nothing", "ready", "failed"}, KeeperEnds(k, said) PROVE VaultTyped'
      <3> DEFINE x == [NoKeeper EXCEPT !.said = said]
      <3>1. x \in AKeeper /\ x.op = "none" /\ x.pc = "idle"
        BY NoKeeperType DEF NoKeeper
      <3>2. keeper' = [keeper EXCEPT ![k] = x]
        BY <2>5 DEF KeeperEnds
      <3> HIDE DEF x
      <3> QED
        BY <3>1, <3>2, <2>m
    <2>6. ASSUME NEW l \in {"wait", "role", "init", "root", "kv", "peers", "run", "dbrole", "grant"},
                 KeeperGo(k, l), l = "run" => KeeperAt(k, "nodes"),
                 l \in {"dbrole", "grant"} => keeper[k].pc \in DatabaseSteps
          PROVE  VaultTyped'
      <3> DEFINE x == [keeper[k] EXCEPT !.pc = l]
      <3>1. /\ x \in AKeeper /\ x.op = keeper[k].op /\ x.pc = l /\ x.said = keeper[k].said /\ x.key = keeper[k].key
            /\ keeper' = [keeper EXCEPT ![k] = x]
        BY <2>6, <2>t DEF KeeperGo, AKeeper
      <3>2. l \in {"dbrole", "grant"} => keeper[k].op # "setup"
        BY <2>6, <2>t DEF KeeperTyped, DatabaseSteps, SetupSteps
      <3>3. l = "run" => keeper[k].key # 0
        BY <2>6, <2>t DEF KeeperTyped, KeeperAt
      <3> HIDE DEF x
      <3> QED
        BY <3>1, <3>2, <3>3, <2>6, <2>t, <2>m DEF KeeperTyped, SetupSteps
    <2>7. CASE /\ KeeperAt(k, "seal") /\ kept.seal # 0
               /\ keeper' = [keeper EXCEPT ![k].pc = "nodes", ![k].key = kept.seal, ![k].todo = Nodes]
      <3> DEFINE x == [keeper[k] EXCEPT !.pc = "nodes", !.key = kept.seal, !.todo = Nodes]
      <3>1. /\ x \in AKeeper /\ x.op = keeper[k].op /\ x.pc = "nodes" /\ x.said = keeper[k].said /\ x.key = kept.seal
            /\ keeper' = [keeper EXCEPT ![k] = x]
        BY <2>7, <2>t, <1>t DEF AKeeper
      <3> HIDE DEF x
      <3> QED
        BY <3>1, <2>7, <2>t, <2>m DEF KeeperTyped, SetupSteps
    <2>8. CASE /\ KeeperAt(k, "seal") /\ newest < MaxOps /\ newest' = newest + 1
               /\ keeper' = [keeper EXCEPT ![k].pc = "store", ![k].key = newest']
      <3> DEFINE x == [keeper[k] EXCEPT !.pc = "store", !.key = newest']
      <3>1. newest' \in Keys /\ newest' # 0
        BY <2>8, <1>t
      <3>2. /\ x \in AKeeper /\ x.op = keeper[k].op /\ x.pc = "store" /\ x.said = keeper[k].said /\ x.key = newest'
            /\ keeper' = [keeper EXCEPT ![k] = x]
        BY <2>8, <2>t, <1>t, <3>1 DEF AKeeper
      <3> HIDE DEF x
      <3> QED
        BY <3>1, <3>2, <2>8, <2>t, <2>m DEF KeeperTyped, SetupSteps
    <2>9. CASE KeeperAt(k, "store") /\ keeper' = [keeper EXCEPT ![k].pc = "nodes", ![k].todo = Nodes]
      <3> DEFINE x == [keeper[k] EXCEPT !.pc = "nodes", !.todo = Nodes]
      <3>1. /\ x \in AKeeper /\ x.op = keeper[k].op /\ x.pc = "nodes" /\ x.said = keeper[k].said /\ x.key = keeper[k].key
            /\ keeper' = [keeper EXCEPT ![k] = x]
        BY <2>9, <2>t, <1>t DEF AKeeper
      <3> HIDE DEF x
      <3> QED
        BY <3>1, <2>9, <2>t, <2>m DEF KeeperTyped, SetupSteps, KeeperAt
    <2>10. ASSUME NEW n \in Nodes,
                  \/ KeeperAt(k, "nodes") /\ keeper' = [keeper EXCEPT ![k].todo = @ \ {n}]
                  \/ KeeperAt(k, "run") /\ keeper' = [keeper EXCEPT ![k].pc = "nodes", ![k].todo = @ \ {n}]
           PROVE  VaultTyped'
      <3>1. CASE KeeperAt(k, "nodes") /\ keeper' = [keeper EXCEPT ![k].todo = @ \ {n}]
        <4> DEFINE x == [keeper[k] EXCEPT !.todo = @ \ {n}]
        <4>1. /\ x \in AKeeper /\ x.op = keeper[k].op /\ x.pc = "nodes" /\ x.said = keeper[k].said
              /\ x.key = keeper[k].key /\ keeper' = [keeper EXCEPT ![k] = x]
          BY <3>1, <2>t, <1>t DEF AKeeper, KeeperAt
        <4> HIDE DEF x
        <4> QED
          BY <4>1, <3>1, <2>t, <2>m DEF KeeperTyped, SetupSteps, KeeperAt
      <3>2. CASE KeeperAt(k, "run") /\ keeper' = [keeper EXCEPT ![k].pc = "nodes", ![k].todo = @ \ {n}]
        <4> DEFINE todo == keeper[k].todo \ {n}
                   x == [keeper[k] EXCEPT !.pc = "nodes", !.todo = todo]
        <4>1. todo \in SUBSET Nodes
          BY <2>t DEF AKeeper
        <4>2. keeper' = [keeper EXCEPT ![k] = x]
          BY <3>2, <1>t
        <4> HIDE DEF todo
        <4>3. /\ x \in AKeeper /\ x.op = keeper[k].op /\ x.pc = "nodes" /\ x.said = keeper[k].said
              /\ x.key = keeper[k].key
          BY <4>1, <2>t DEF AKeeper
        <4> HIDE DEF x
        <4> QED
          BY <4>2, <4>3, <3>2, <2>t, <2>m DEF KeeperTyped, SetupSteps, KeeperAt
      <3> QED
        BY <2>10, <3>1, <3>2
    <2> QED
      BY ZenonT(40), <1>1, KeeperStepForms, <2>5, <2>6, <2>7, <2>8, <2>9, <2>10
  <1>2. ASSUME NEW k \in Keepers, NEW op \in {"setup", "db", "static", "put"}, StartKeeper(k, op)
        PROVE  VaultTyped'
    <2>1. PICK l \in {"seal", "put", "connect"} : /\ op = "setup" => l = "seal"
             /\ keeper' = [keeper EXCEPT ![k] = [NoKeeper EXCEPT !.op = op, !.pc = l]]
      BY <1>2 DEF StartKeeper
    <2> DEFINE x == [NoKeeper EXCEPT !.op = op, !.pc = l]
    <2>2. x \in AKeeper /\ x.op = op /\ x.pc = l /\ x.said = "nothing"
      BY ZenonT(40), NoKeeperType DEF AKeeper, NoKeeper
    <2> HIDE DEF x
    <2>3. keeper' \in [Keepers -> AKeeper] /\ keeper'[k] = x /\ \A y \in Keepers \ {k} : keeper'[y] = keeper[y]
      BY <2>1, <2>2, <1>t DEF x
    <2>4. \A y \in Keepers : KeeperTyped(y)'
      BY <2>1, <2>2, <2>3, <1>t DEF KeeperTyped, SetupSteps
    <2> QED
      BY <2>3, <2>4, <1>2, <1>l, <1>t DEF StartKeeper, VaultTyped, VaultTypeOK, AKeeper
  <1>3. ASSUME NEW n \in Nodes, NodeGoes(n) \/ NodeReturns(n) PROVE VaultTyped'
    <2>1. PICK r \in {"absent", "exited", "running"} :
             node' = [node EXCEPT ![n].run = r] /\ (r # "absent" => node[n].run # "absent")
      BY <1>3 DEF NodeGoes, NodeReturns
    <2>2. node' \in [Nodes -> Box] /\ \A x \in Nodes : node'[x].run # "absent" => node'[x].key # 0
      BY <2>1, <1>t
    <2>3. UNCHANGED <<kept, newest, core, keeper>>
      BY <1>3 DEF NodeGoes, NodeReturns
    <2> QED
      BY <2>2, <2>3, <1>l, <1>t DEF VaultTyped, VaultTypeOK, KeeperTyped, AKeeper
  <1> QED
    BY <1>1, <1>2, <1>3 DEF VaultNext

\* Commands follow one another unless some ran at the same time, and then
\* nobody stops a node under one.
OneKeeper == NoneOf({"race"}) =>
    \A k \in Keepers : ~KeeperAt(k, "idle") => \A x \in Keepers \ {k} : KeeperAt(x, "idle")

\* The seal key that is kept is that of every node that was started and of the
\* barrier; one is made only as long as none is kept.
SealInv == NoneOf({"read", "race"}) =>
    /\ core.key \in {0, kept.seal}
    /\ \A n \in Nodes : node[n].run # "absent" => kept.seal # 0 /\ node[n].key = kept.seal
    /\ \A k \in Keepers :
          /\ KeeperAt(k, "store") => kept.seal = 0 /\ keeper[k].key # 0
          /\ keeper[k].pc \in {"nodes", "run"} => kept.seal # 0 /\ keeper[k].key = kept.seal

\* The primary stays open between its initialisation and the use of what that
\* returned, and while the database is granted.
OpenInv == NoneOf({"race"}) =>
    /\ kept.root => Initialized
    /\ \A k \in Keepers : keeper[k].pc \in {"root", "kv"} => Unsealed
    /\ \A k \in Keepers : KeeperAt(k, "grant") => Reachable

GrantInv == NoneOf({"read", "crash", "fault", "race"}) /\ core.dynamic /\ core.policy # "db" =>
    \E k \in Keepers : KeeperAt(k, "grant")

EngineInv == NoneOf({"crash", "fault", "race"}) /\ kept.root =>
    core.kv \/ \E k \in Keepers : KeeperAt(k, "kv")

VaultInv == VaultTyped /\ OneKeeper /\ SealInv /\ OpenInv /\ GrantInv /\ EngineInv

LEMMA InitVault == VaultInit /\ LuckTypeOK => VaultInv
  <1>1. VaultInit => OneKeeper /\ SealInv /\ OpenInv /\ GrantInv /\ EngineInv
    BY DEF VaultInit, NoKeeper, OneKeeper, SealInv, OpenInv, GrantInv, EngineInv, KeeperAt, Reachable
  <1> QED
    BY <1>1, InitVaultTyped DEF VaultInv

\* A command's step is that of a command that runs, and leaves the others alone.
LEMMA KeeperMoves ==
  ASSUME VaultTyped, NEW k \in Keepers, KeeperStep(k)
  PROVE  ~KeeperAt(k, "idle") /\ \A y \in Keepers \ {k} : keeper'[y] = keeper[y]
  <1>1. ~KeeperAt(k, "idle")
    BY DEF KeeperAt, KeeperStep, EnsureSecret, StoreSeal, NodesRun, NameTaken, NextNode, RunNode, WaitReady,
       Initialize, KeepRoot, EnableKV, WaitForPeers, EnsureAppRole, Connect, CreateRole, GrantDatabase, Put,
       NotReachable, KeeperFails, KeeperDies
  <1>2. keeper \in [Keepers -> AKeeper]
    BY SMTT(40) DEF VaultTyped, VaultTypeOK, AKeeper
  <1>3. \A y \in Keepers \ {k} : keeper'[y] = keeper[y]
    BY <1>2, KeeperStepForms DEF KeeperEnds, KeeperGo
  <1> QED
    BY <1>1, <1>3

LEMMA NextOneKeeper ==
  ASSUME VaultTyped, OneKeeper, VaultNext
  PROVE  OneKeeper'
  <1> SUFFICES ASSUME NoneOf({"race"})' PROVE OneKeeper'
    BY DEF OneKeeper
  <1>b. NoneOf({"race"})
    BY VaultBefore DEF VaultTyped
  <1>1. ASSUME NEW k \in Keepers, KeeperStep(k) PROVE OneKeeper'
    BY <1>1, <1>b, KeeperMoves DEF OneKeeper, KeeperAt
  <1>2. ASSUME NEW k \in Keepers, NEW op, StartKeeper(k, op) PROVE OneKeeper'
    <2>1. ~BeginAs({"race"})
      BY NotOfKind DEF VaultTyped, MishapKinds
    <2>2. Resting
      BY <1>2, <2>1 DEF StartKeeper
    <2>3. keeper \in [Keepers -> AKeeper]
      BY DEF VaultTyped, VaultTypeOK, AKeeper
    <2>4. \A y \in Keepers \ {k} : keeper'[y] = keeper[y]
      BY <1>2, <2>3 DEF StartKeeper
    <2> QED
      BY <2>2, <2>4 DEF OneKeeper, Resting, KeeperAt
  <1>3. ASSUME NEW n \in Nodes, NodeGoes(n) \/ NodeReturns(n) PROVE OneKeeper'
    BY <1>3, <1>b DEF NodeGoes, NodeReturns, OneKeeper, KeeperAt
  <1> QED
    BY <1>1, <1>2, <1>3 DEF VaultNext

\* Unless commands ran at the same time, someone stops a node only at rest; and
\* a node that comes back was not running.
LEMMA NodesMove ==
  ASSUME VaultTyped, NEW n \in Nodes, NodeGoes(n) \/ NodeReturns(n)
  PROVE  /\ UNCHANGED <<kept, newest, core, keeper>>
         /\ \A x \in Nodes : node'[x].key = node[x].key
         /\ \A x \in Nodes : node'[x].run # "absent" => node[x].run # "absent"
         /\ NoneOf({"race"})' => Resting \/ \A x \in Nodes : node[x].run = "running" => node'[x] = node[x]
  <1>t. node \in [Nodes -> [run : {"absent", "exited", "running"}, key : Keys]]
    BY DEF VaultTyped, VaultTypeOK
  <1>1. PICK r : node' = [node EXCEPT ![n].run = r] /\ node[n].run # "absent"
    BY DEF NodeGoes, NodeReturns
  <1>2. \A x \in Nodes : node'[x].key = node[x].key /\ (x # n => node'[x] = node[x])
    BY <1>1, <1>t
  <1>3. NoneOf({"race"})' => Resting \/ node[n].run = "exited"
    <2>1. NoneOf({"race"})' => ~BeginAs({"race"})
      BY NotOfKind DEF VaultTyped, MishapKinds
    <2> QED
      BY <2>1 DEF NodeGoes, NodeReturns
  <1> QED
    BY <1>1, <1>2, <1>3 DEF NodeGoes, NodeReturns

LEMMA NextSeal ==
  ASSUME VaultTyped, OneKeeper, SealInv, VaultNext
  PROVE  SealInv'
  <1> SUFFICES ASSUME NoneOf({"read", "race"})' PROVE SealInv'
    BY DEF SealInv
  <1>b. NoneOf({"read", "race"})
    BY VaultBefore DEF VaultTyped
  <1>r. ~Mishap("read")
    <2>1. "read" \in MishapKinds \cap {"read", "race"}
      BY DEF MishapKinds
    <2> QED
      BY <2>1, NotOfKind DEF VaultTyped
  <1>t. /\ kept \in [seal : Keys, root : BOOLEAN, role : BOOLEAN]
        /\ DOMAIN core = {"key", "kv", "joined", "policy", "allowed", "dynamic", "static"}
        /\ node \in [Nodes -> [run : {"absent", "exited", "running"}, key : Keys]]
        /\ keeper \in [Keepers -> AKeeper]
        /\ newest \in 0..MaxOps /\ MaxOps \in Nat
    BY MishapsAssumption DEF VaultTyped, VaultTypeOK, AKeeper, Keys
  <1>i. /\ core.key \in {0, kept.seal}
        /\ \A n \in Nodes : node[n].run # "absent" => kept.seal # 0 /\ node[n].key = kept.seal
        /\ \A k \in Keepers :
              /\ keeper[k].pc = "store" => kept.seal = 0 /\ keeper[k].key # 0
              /\ keeper[k].pc \in {"nodes", "run"} => kept.seal # 0 /\ keeper[k].key = kept.seal
    BY <1>b DEF SealInv, KeeperAt
  <1>1. ASSUME NEW k \in Keepers, KeeperStep(k) PROVE SealInv'
    <2>o. \A y \in Keepers \ {k} : keeper'[y].pc = "idle"
      <3>1. \A y \in Keepers \ {k} : keeper[y].pc = "idle"
        BY <1>1, <1>b, KeeperMoves DEF OneKeeper, KeeperAt, NoneOf
      <3> QED
        BY <3>1, <1>1, KeeperMoves
    <2>m. ASSUME core'.key \in {0, kept'.seal},
                 \A n \in Nodes : node'[n].run # "absent" => kept'.seal # 0 /\ node'[n].key = kept'.seal,
                 keeper'[k].pc = "store" => kept'.seal = 0 /\ keeper'[k].key # 0,
                 keeper'[k].pc \in {"nodes", "run"} => kept'.seal # 0 /\ keeper'[k].key = kept'.seal
          PROVE  SealInv'
      BY <2>m, <2>o DEF SealInv, KeeperAt
    <2>k. keeper[k] \in AKeeper /\ k \in DOMAIN keeper
      BY <1>t
    <2>1. CASE EnsureSecret(k)
      <3>3. UNCHANGED <<kept, node, core>>
        BY <2>1 DEF EnsureSecret
      <3>1. CASE kept.seal # 0 /\ keeper' = [keeper EXCEPT ![k].pc = "nodes", ![k].key = kept.seal, ![k].todo = Nodes]
        <4>1. keeper'[k].pc = "nodes" /\ keeper'[k].key = kept.seal
          BY <3>1, <2>k, <1>t DEF AKeeper
        <4> QED
          BY <4>1, <3>3, <3>1, <1>i, <2>m
      <3>2. CASE /\ kept.seal = 0 /\ newest' = newest + 1
                 /\ keeper' = [keeper EXCEPT ![k].pc = "store", ![k].key = newest']
        <4>1. newest' # 0
          BY <3>2, <1>t
        <4>2. keeper'[k].pc = "store" /\ keeper'[k].key = newest'
          <5> DEFINE new == newest'
          <5>1. keeper' = [keeper EXCEPT ![k].pc = "store", ![k].key = new]
            BY <3>2
          <5> HIDE DEF new
          <5>2. keeper'[k].pc = "store" /\ keeper'[k].key = new
            BY <5>1, <2>k, <1>t DEF AKeeper
          <5> QED
            BY <5>2 DEF new
        <4> QED
          BY <4>1, <4>2, <3>3, <3>2, <1>i, <2>m
      <3> QED
        BY <2>1, <1>r, <3>1, <3>2 DEF EnsureSecret
    <2>2. CASE StoreSeal(k)
      <3>1. kept.seal = 0 /\ keeper[k].key # 0 /\ core.key = 0 /\ UNCHANGED <<node, core>>
        BY <2>2, <1>i DEF StoreSeal, KeeperAt
      <3>2. CASE /\ kept' = [kept EXCEPT !.seal = keeper[k].key]
                 /\ keeper' = [keeper EXCEPT ![k].pc = "nodes", ![k].todo = Nodes]
        <4>1. kept'.seal = keeper[k].key /\ keeper'[k].pc = "nodes" /\ keeper'[k].key = keeper[k].key
          BY <3>2, <2>k, <1>t DEF AKeeper
        <4> QED
          BY <4>1, <3>1, <1>i, <2>m
      <3>3. CASE kept' \in {kept, [kept EXCEPT !.seal = 0]} /\ KeeperEnds(k, "failed")
        <4>1. kept'.seal = 0 /\ keeper'[k].pc = "idle"
          BY <3>1, <3>3, <2>k, <1>t DEF KeeperEnds, NoKeeper
        <4> QED
          BY <4>1, <3>1, <1>i, <2>m
      <3> QED
        BY <2>2, <3>2, <3>3 DEF StoreSeal
    <2>3. ASSUME NEW n \in Nodes, NextNode(k, n) PROVE SealInv'
      <3>1. kept.seal # 0 /\ keeper[k].key = kept.seal /\ UNCHANGED <<kept, core>>
        BY <2>3, <1>i DEF NextNode, KeeperAt
      <3>2. keeper'[k].key = keeper[k].key /\ keeper'[k].pc \in {"nodes", "run"}
        BY <2>3, <2>k, <1>t DEF NextNode, KeeperGo, KeeperAt, AKeeper
      <3>3. \A x \in Nodes : node'[x] = node[x] \/ node'[x].run = "absent"
        BY <2>3, <1>t DEF NextNode
      <3> QED
        BY <3>1, <3>2, <3>3, <1>i, <2>m
    <2>4. ASSUME NEW n \in Nodes, RunNode(k, n) PROVE SealInv'
      <3>1. kept.seal # 0 /\ keeper[k].key = kept.seal /\ UNCHANGED <<kept, core>>
        BY <2>4, <1>i DEF RunNode, KeeperAt
      <3>2. keeper'[k].key = keeper[k].key /\ keeper'[k].pc = "nodes"
        BY <2>4, <2>k, <1>t DEF RunNode, KeeperAt, AKeeper
      <3>3. \A x \in Nodes : node'[x] = node[x] \/ node'[x].key = keeper[k].key
        BY <2>4, <1>t DEF RunNode
      <3> QED
        BY <3>1, <3>2, <3>3, <1>i, <2>m
    <2>5. CASE Initialize(k)
      <3>1. keeper'[k].pc \in {"root", "idle"} /\ UNCHANGED <<kept, node>>
        BY <2>5, <2>k, <1>t DEF Initialize, KeeperGo, KeeperEnds, NoKeeper, AKeeper
      <3>2. core'.key \in {core.key, kept.seal}
        <4>1. node[Primary].run = "running" => node[Primary].key = kept.seal
          BY <1>i, NodesAssumption
        <4> QED
          BY <4>1, <2>5, <1>t DEF Initialize
      <3> QED
        BY <3>1, <3>2, <1>i, <2>m
    <2>6. CASE \/ NodesRun(k) \/ NameTaken(k) \/ WaitReady(k) \/ KeepRoot(k) \/ EnableKV(k) \/ WaitForPeers(k)
               \/ EnsureAppRole(k) \/ Connect(k) \/ CreateRole(k) \/ GrantDatabase(k) \/ Put(k)
               \/ NotReachable(k) \/ KeeperFails(k) \/ KeeperDies(k)
      <3>1. \/ \E said : KeeperEnds(k, said)
            \/ \E l \in {"wait", "role", "init", "kv", "peers", "dbrole", "grant"} : KeeperGo(k, l)
        BY <2>6 DEF NodesRun, NameTaken, WaitReady, KeepRoot, EnableKV, WaitForPeers, EnsureAppRole, Connect,
           CreateRole, GrantDatabase, Put, NotReachable, KeeperFails, KeeperDies
      <3>2. keeper'[k].pc \notin {"store", "nodes", "run"}
        BY <3>1, <2>k DEF KeeperEnds, KeeperGo, NoKeeper, AKeeper
      <3>3. kept'.seal = kept.seal /\ core'.key = core.key /\ UNCHANGED node
        BY <2>6, <1>t DEF NodesRun, NameTaken, WaitReady, KeepRoot, EnableKV, WaitForPeers, EnsureAppRole, Connect,
           CreateRole, GrantDatabase, Put, NotReachable, KeeperFails, KeeperDies
      <3> QED
        BY <3>2, <3>3, <1>i, <2>m
    <2> QED
      BY <1>1, <2>1, <2>2, <2>3, <2>4, <2>5, <2>6 DEF KeeperStep
  <1>2. ASSUME NEW k \in Keepers, NEW op, StartKeeper(k, op) PROVE SealInv'
    <2>1. keeper'[k].pc \in {"seal", "put", "connect"} /\ \A y \in Keepers \ {k} : keeper'[y] = keeper[y]
      BY <1>2, <1>t DEF StartKeeper, NoKeeper
    <2> QED
      BY <2>1, <1>2, <1>i DEF StartKeeper, SealInv, KeeperAt
  <1>3. ASSUME NEW n \in Nodes, NodeGoes(n) \/ NodeReturns(n) PROVE SealInv'
    BY <1>3, NodesMove, <1>i DEF SealInv, KeeperAt
  <1> QED
    BY <1>1, <1>2, <1>3 DEF VaultNext

\* What the other steps of a command have in common: the ids of the root token
\* and of the barrier, and the grant, stay; but for a node that is replaced, the
\* nodes stay.
LEMMA OtherSteps ==
  ASSUME VaultTyped, NEW k \in Keepers,
         \/ EnsureSecret(k) \/ StoreSeal(k) \/ NodesRun(k) \/ NameTaken(k)
         \/ \E n \in Nodes : NextNode(k, n) \/ RunNode(k, n)
         \/ WaitReady(k) \/ WaitForPeers(k) \/ Connect(k) \/ Put(k) \/ NotReachable(k)
         \/ KeeperFails(k) \/ KeeperDies(k)
  PROVE  /\ kept'.root = kept.root /\ core'.key = core.key /\ core'.kv = core.kv
         /\ core'.dynamic = core.dynamic /\ core'.policy = core.policy
         /\ keeper'[k].pc \notin {"root", "kv", "grant"}
         /\ keeper'[k].said = "ready" => keeper[k].said = "ready" \/ KeeperAt(k, "put")
  <1>t. /\ kept \in [seal : Keys, root : BOOLEAN, role : BOOLEAN]
        /\ DOMAIN core = {"key", "kv", "joined", "policy", "allowed", "dynamic", "static"}
        /\ keeper \in [Keepers -> AKeeper] /\ keeper[k] \in AKeeper
    BY DEF VaultTyped, VaultTypeOK, AKeeper
  <1>1. CASE EnsureSecret(k)
    <2>1. \/ keeper' = [keeper EXCEPT ![k].pc = "nodes", ![k].key = kept.seal, ![k].todo = Nodes]
          \/ keeper' = [keeper EXCEPT ![k].pc = "store", ![k].key = newest']
      BY <1>1 DEF EnsureSecret
    <2>2. keeper'[k].pc \in {"nodes", "store"} /\ keeper'[k].said = keeper[k].said
      BY <2>1, <1>t DEF AKeeper
    <2> QED
      BY <2>2, <1>1 DEF EnsureSecret
  <1>2. CASE StoreSeal(k)
    <2>1. kept'.root = kept.root /\ UNCHANGED core
      BY <1>2, <1>t DEF StoreSeal
    <2>2. \/ keeper' = [keeper EXCEPT ![k].pc = "nodes", ![k].todo = Nodes]
          \/ KeeperEnds(k, "failed")
      BY <1>2 DEF StoreSeal
    <2>3. /\ keeper'[k].pc \in {"nodes", "idle"}
          /\ keeper'[k].said \in {keeper[k].said, "failed"}
      BY <2>2, <1>t DEF KeeperEnds, NoKeeper, AKeeper
    <2> QED
      BY <2>1, <2>3
  <1>3. ASSUME NEW n \in Nodes, NextNode(k, n) \/ RunNode(k, n)
        PROVE  /\ UNCHANGED <<kept, core>> /\ keeper'[k].said = keeper[k].said
               /\ keeper'[k].pc \in {"nodes", "run"}
    BY <1>3, <1>t DEF NextNode, RunNode, KeeperAt, KeeperGo, AKeeper
  <1>4. CASE WaitForPeers(k) \/ Connect(k)
    <2>1. kept' = kept /\ core'.key = core.key /\ core'.kv = core.kv /\ core'.dynamic = core.dynamic
          /\ core'.policy = core.policy
      BY <1>4, <1>t DEF WaitForPeers, Connect
    <2>2. KeeperEnds(k, "failed") \/ KeeperGo(k, "role") \/ KeeperGo(k, "dbrole")
      BY <1>4 DEF WaitForPeers, Connect
    <2>3. /\ keeper'[k].pc \in {"idle", "role", "dbrole"}
          /\ keeper'[k].said \in {keeper[k].said, "failed"}
      BY <2>2, <1>t DEF KeeperEnds, KeeperGo, NoKeeper, AKeeper
    <2> QED
      BY <2>1, <2>3
  <1>5. CASE \/ NodesRun(k) \/ NameTaken(k) \/ WaitReady(k) \/ Put(k) \/ NotReachable(k)
             \/ KeeperFails(k) \/ KeeperDies(k)
    <2>1. UNCHANGED <<kept, core>>
      BY <1>5 DEF NodesRun, NameTaken, WaitReady, Put, NotReachable, KeeperFails, KeeperDies
    <2>2. \/ \E said \in {"nothing", "ready", "failed"} :
                KeeperEnds(k, said) /\ (said = "ready" => KeeperAt(k, "put"))
          \/ \E l \in {"wait", "role", "init"} : KeeperGo(k, l)
      BY <1>5 DEF NodesRun, NameTaken, WaitReady, Put, NotReachable, KeeperFails, KeeperDies
    <2>3. /\ keeper'[k].pc \in {"idle", "wait", "role", "init"}
          /\ keeper'[k].said = "ready" => keeper[k].said = "ready" \/ KeeperAt(k, "put")
      BY <2>2, <1>t DEF KeeperEnds, KeeperGo, NoKeeper, AKeeper
    <2> QED
      BY <2>1, <2>3
  <1> QED
    BY <1>1, <1>2, <1>3, <1>4, <1>5

LEMMA NextOpen ==
  ASSUME VaultTyped, OneKeeper, OpenInv, VaultNext
  PROVE  OpenInv'
  <1> SUFFICES ASSUME NoneOf({"race"})' PROVE OpenInv'
    BY DEF OpenInv
  <1>b. NoneOf({"race"})
    BY VaultBefore DEF VaultTyped
  <1>t. /\ kept \in [seal : Keys, root : BOOLEAN, role : BOOLEAN]
        /\ DOMAIN core = {"key", "kv", "joined", "policy", "allowed", "dynamic", "static"}
        /\ node \in [Nodes -> [run : {"absent", "exited", "running"}, key : Keys]]
        /\ keeper \in [Keepers -> AKeeper]
        /\ \A n \in Nodes : node[n].run # "absent" => node[n].key # 0
    BY DEF VaultTyped, VaultTypeOK, AKeeper
  <1>i. /\ kept.root => core.key # 0
        /\ \A k \in Keepers : keeper[k].pc \in {"root", "kv"} => Unsealed
        /\ \A k \in Keepers : keeper[k].pc = "grant" => Reachable
    BY <1>b DEF OpenInv, Initialized, KeeperAt
  <1>1. ASSUME NEW k \in Keepers, KeeperStep(k) PROVE OpenInv'
    <2>o. \A y \in Keepers \ {k} : keeper'[y].pc = "idle"
      <3>1. \A y \in Keepers \ {k} : keeper[y].pc = "idle"
        BY <1>1, <1>b, KeeperMoves DEF OneKeeper, KeeperAt
      <3> QED
        BY <3>1, <1>1, KeeperMoves
    <2>m. ASSUME kept'.root => core'.key # 0,
                 keeper'[k].pc \in {"root", "kv"} => Unsealed',
                 keeper'[k].pc = "grant" => Reachable'
          PROVE  OpenInv'
      BY <2>m, <2>o DEF OpenInv, Initialized, KeeperAt
    <2>k. keeper[k] \in AKeeper /\ k \in DOMAIN keeper
      BY <1>t
    <2>1. CASE \/ EnsureSecret(k) \/ StoreSeal(k) \/ NodesRun(k) \/ NameTaken(k)
               \/ \E n \in Nodes : NextNode(k, n) \/ RunNode(k, n)
               \/ WaitReady(k) \/ WaitForPeers(k) \/ Connect(k) \/ Put(k) \/ NotReachable(k)
               \/ KeeperFails(k) \/ KeeperDies(k)
      BY <2>1, OtherSteps, <1>i, <2>m
    <2>2. CASE Initialize(k)
      <3>1. CASE node[Primary].run = "running" /\ ~Initialized
        <4>1. /\ core'.key = node[Primary].key /\ node' = node /\ kept' = kept
              /\ keeper'[k].pc = "root"
          BY <2>2, <3>1, <1>t, <2>k DEF Initialize, KeeperGo, AKeeper
        <4>2. node[Primary] = [run |-> "running", key |-> node[Primary].key] /\ node[Primary].key # 0
          BY <3>1, <1>t, NodesAssumption
        <4>3. Unsealed'
          BY <4>1, <4>2 DEF Unsealed, Initialized
        <4> QED
          BY <4>1, <4>2, <4>3, <2>m
      <3>2. CASE ~(node[Primary].run = "running" /\ ~Initialized)
        <4>1. UNCHANGED <<kept, core>> /\ keeper'[k].pc = "idle"
          BY <2>2, <3>2, <2>k DEF Initialize, KeeperEnds, NoKeeper
        <4> QED
          BY <4>1, <1>i, <2>m
      <3> QED
        BY <3>1, <3>2
    <2>3. CASE KeepRoot(k)
      <3>1. Unsealed /\ UNCHANGED <<node, core>>
        BY <2>3, <1>i DEF KeepRoot, KeeperAt
      <3>2. Unsealed' /\ core'.key # 0
        BY <3>1 DEF Unsealed, Initialized
      <3>3. keeper'[k].pc \in {"kv", "idle"}
        BY <2>3, <2>k DEF KeepRoot, KeeperGo, KeeperEnds, NoKeeper, AKeeper
      <3> QED
        BY <3>2, <3>3, <2>m
    <2>4. CASE EnableKV(k)
      <3>1. keeper'[k].pc \in {"peers", "idle"} /\ kept' = kept /\ core'.key = core.key
        BY <2>4, <2>k, <1>t DEF EnableKV, KeeperGo, KeeperEnds, NoKeeper, AKeeper
      <3> QED
        BY <3>1, <1>i, <2>m
    <2>5. CASE EnsureAppRole(k) \/ GrantDatabase(k)
      <3>1. keeper'[k].pc = "idle" /\ kept'.root = kept.root /\ core'.key = core.key
        BY <2>5, <2>k, <1>t DEF EnsureAppRole, GrantDatabase, KeeperEnds, NoKeeper
      <3> QED
        BY <3>1, <1>i, <2>m
    <2>6. CASE CreateRole(k)
      <3>1. keeper'[k].pc = "grant" /\ kept' = kept /\ core'.key = core.key /\ node' = node /\ Reachable
        BY <2>6, <2>k, <1>t DEF CreateRole, KeeperGo, AKeeper
      <3>2. Reachable'
        BY <3>1 DEF Reachable, Unsealed, Initialized
      <3> QED
        BY <3>1, <3>2, <1>i, <2>m
    <2> QED
      BY <1>1, <2>1, <2>2, <2>3, <2>4, <2>5, <2>6 DEF KeeperStep
  <1>2. ASSUME NEW k \in Keepers, NEW op, StartKeeper(k, op) PROVE OpenInv'
    <2>1. keeper'[k].pc \in {"seal", "put", "connect"} /\ \A y \in Keepers \ {k} : keeper'[y] = keeper[y]
      BY <1>2, <1>t DEF StartKeeper, NoKeeper
    <2> QED
      BY <2>1, <1>2, <1>i DEF StartKeeper, OpenInv, KeeperAt, Reachable, Unsealed, Initialized
  <1>3. ASSUME NEW n \in Nodes, NodeGoes(n) \/ NodeReturns(n) PROVE OpenInv'
    <2>1. UNCHANGED <<kept, core, keeper>>
      BY <1>3, NodesMove
    <2>2. CASE Resting
      BY <2>1, <2>2, <1>i DEF Resting, OpenInv, KeeperAt, Initialized
    <2>3. CASE \A x \in Nodes : node[x].run = "running" => node'[x] = node[x]
      <3>1. Unsealed => Unsealed'
        BY <2>1, <2>3, NodesAssumption DEF Unsealed, Initialized
      <3> QED
        BY <2>1, <3>1, <1>i DEF OpenInv, KeeperAt, Initialized, Reachable
    <2> QED
      BY <1>3, NodesMove, <2>2, <2>3
  <1> QED
    BY <1>1, <1>2, <1>3 DEF VaultNext

LEMMA NextGrant ==
  ASSUME VaultTyped, OneKeeper, OpenInv, GrantInv, VaultNext
  PROVE  GrantInv'
  <1> SUFFICES ASSUME NoneOf({"read", "crash", "fault", "race"})', core'.dynamic, core'.policy # "db"
               PROVE  \E k \in Keepers : keeper'[k].pc = "grant"
    BY DEF GrantInv, KeeperAt
  <1>b. NoneOf({"read", "crash", "fault", "race"}) /\ NoneOf({"race"})
    BY VaultBefore DEF VaultTyped, NoneOf
  <1>r. ~Mishap("read") /\ ~Mishap("crash") /\ ~Mishap("fault")
    <2>1. {"read", "crash", "fault"} \subseteq MishapKinds \cap {"read", "crash", "fault", "race"}
      BY DEF MishapKinds
    <2> QED
      BY <2>1, NotOfKind DEF VaultTyped
  <1>t. /\ DOMAIN core = {"key", "kv", "joined", "policy", "allowed", "dynamic", "static"}
        /\ keeper \in [Keepers -> AKeeper]
    BY DEF VaultTyped, VaultTypeOK, AKeeper
  <1>i. core.dynamic /\ core.policy # "db" => \E k \in Keepers : keeper[k].pc = "grant"
    BY <1>b DEF GrantInv, KeeperAt
  <1>1. ASSUME NEW k \in Keepers, KeeperStep(k) PROVE \E y \in Keepers : keeper'[y].pc = "grant"
    <2>k. keeper[k] \in AKeeper /\ k \in DOMAIN keeper
      BY <1>t
    <2>o. \A y \in Keepers : keeper[y].pc = "grant" => y = k
      BY <1>1, <1>b, KeeperMoves DEF OneKeeper, KeeperAt
    <2>1. CASE CreateRole(k)
      BY <2>1, <2>k DEF CreateRole, KeeperGo, AKeeper
    <2>2. CASE GrantDatabase(k)
      BY <2>2, <1>t DEF GrantDatabase
    <2>3. CASE EnsureAppRole(k)
      BY <2>3, <1>r, <1>t DEF EnsureAppRole
    <2>4. CASE ~(CreateRole(k) \/ GrantDatabase(k) \/ EnsureAppRole(k))
      <3>1. core'.dynamic = core.dynamic /\ core'.policy = core.policy
        <4>1. CASE Initialize(k) \/ EnableKV(k) \/ KeepRoot(k)
          BY <4>1, <1>t DEF Initialize, EnableKV, KeepRoot
        <4> QED
          BY <1>1, <2>4, <4>1, OtherSteps DEF KeeperStep
      <3>2. keeper[k].pc = "grant"
        BY <3>1, <1>i, <2>o
      <3>3. Reachable
        BY <3>2, <1>b DEF OpenInv, KeeperAt
      <3>4. FALSE
        BY <1>1, <2>4, <3>2, <3>3, <1>r DEF KeeperStep, EnsureSecret, StoreSeal, NodesRun, NameTaken, NextNode,
           RunNode, WaitReady, Initialize, KeepRoot, EnableKV, WaitForPeers, Connect, Put, NotReachable,
           KeeperFails, KeeperDies, KeeperAt
      <3> QED
        BY <3>4
    <2> QED
      BY <2>1, <2>2, <2>3, <2>4
  <1>2. ASSUME NEW k \in Keepers, NEW op, StartKeeper(k, op) PROVE \E y \in Keepers : keeper'[y].pc = "grant"
    BY <1>2, <1>t, <1>i DEF StartKeeper, KeeperAt
  <1>3. ASSUME NEW n \in Nodes, NodeGoes(n) \/ NodeReturns(n) PROVE \E y \in Keepers : keeper'[y].pc = "grant"
    BY <1>3, NodesMove, <1>i
  <1> QED
    BY <1>1, <1>2, <1>3 DEF VaultNext

LEMMA NextEngine ==
  ASSUME VaultTyped, OneKeeper, OpenInv, EngineInv, VaultNext
  PROVE  EngineInv'
  <1> SUFFICES ASSUME NoneOf({"crash", "fault", "race"})', kept'.root, ~core'.kv
               PROVE  \E k \in Keepers : keeper'[k].pc = "kv"
    BY DEF EngineInv, KeeperAt
  <1>b. NoneOf({"crash", "fault", "race"}) /\ NoneOf({"race"})
    BY VaultBefore DEF VaultTyped, NoneOf
  <1>r. ~Mishap("crash") /\ ~Mishap("fault")
    <2>1. {"crash", "fault"} \subseteq MishapKinds \cap {"crash", "fault", "race"}
      BY DEF MishapKinds
    <2> QED
      BY <2>1, NotOfKind DEF VaultTyped
  <1>t. /\ DOMAIN core = {"key", "kv", "joined", "policy", "allowed", "dynamic", "static"}
        /\ DOMAIN kept = {"seal", "root", "role"}
        /\ keeper \in [Keepers -> AKeeper]
    BY DEF VaultTyped, VaultTypeOK, AKeeper
  <1>i. kept.root /\ ~core.kv => \E k \in Keepers : keeper[k].pc = "kv"
    BY <1>b DEF EngineInv, KeeperAt
  <1>1. ASSUME NEW k \in Keepers, KeeperStep(k) PROVE \E y \in Keepers : keeper'[y].pc = "kv"
    <2>k. keeper[k] \in AKeeper /\ k \in DOMAIN keeper
      BY <1>t
    <2>o. \A y \in Keepers : keeper[y].pc = "kv" => y = k
      BY <1>1, <1>b, KeeperMoves DEF OneKeeper, KeeperAt
    <2>1. CASE KeepRoot(k) /\ KeeperGo(k, "kv")
      BY <2>1, <2>k DEF KeeperGo, AKeeper
    <2>2. CASE EnableKV(k)
      <3>1. Unsealed
        BY <2>2, <1>b DEF EnableKV, OpenInv, KeeperAt
      <3> QED
        BY <2>2, <3>1, <1>t DEF EnableKV
    <2>3. CASE ~EnableKV(k) /\ ~(KeepRoot(k) /\ KeeperGo(k, "kv"))
      <3>1. core'.kv = core.kv /\ kept'.root = kept.root
        <4>1. CASE Initialize(k) \/ KeepRoot(k) \/ EnsureAppRole(k) \/ GrantDatabase(k) \/ CreateRole(k)
          BY <4>1, <2>3, <1>t DEF Initialize, KeepRoot, EnsureAppRole, GrantDatabase, CreateRole
        <4> QED
          BY <1>1, <2>3, <4>1, OtherSteps DEF KeeperStep
      <3>2. keeper[k].pc = "kv"
        BY <3>1, <1>i, <2>o
      <3>3. FALSE
        BY <1>1, <2>3, <3>2, <1>r DEF KeeperStep, EnsureSecret, StoreSeal, NodesRun, NameTaken, NextNode,
           RunNode, WaitReady, Initialize, KeepRoot, WaitForPeers, EnsureAppRole, GrantDatabase, CreateRole,
           Connect, Put, NotReachable, KeeperFails, KeeperDies, KeeperAt
      <3> QED
        BY <3>3
    <2> QED
      BY <2>1, <2>2, <2>3
  <1>2. ASSUME NEW k \in Keepers, NEW op, StartKeeper(k, op) PROVE \E y \in Keepers : keeper'[y].pc = "kv"
    BY <1>2, <1>t, <1>i DEF StartKeeper, KeeperAt
  <1>3. ASSUME NEW n \in Nodes, NodeGoes(n) \/ NodeReturns(n) PROVE \E y \in Keepers : keeper'[y].pc = "kv"
    BY <1>3, NodesMove, <1>i
  <1> QED
    BY <1>1, <1>2, <1>3 DEF VaultNext

\* A setup says that it is ready only when the store is open, with its engine
\* and its root token.
LEMMA ReadyIsTrue ==
  ASSUME VaultInv, VaultNext
  PROVE  ReadyWhenSaid
  <1> SUFFICES ASSUME NoneOf({"crash", "fault", "race"}), NEW k \in Keepers, keeper[k].op = "setup",
                      keeper'[k].said = "ready"
               PROVE  Reachable' /\ core'.kv
    BY DEF ReadyWhenSaid
  <1>t. /\ DOMAIN core = {"key", "kv", "joined", "policy", "allowed", "dynamic", "static"}
        /\ DOMAIN kept = {"seal", "root", "role"}
        /\ keeper \in [Keepers -> AKeeper] /\ keeper[k] \in AKeeper
        /\ keeper[k].said = "nothing" /\ keeper[k].pc \in SetupSteps
    BY DEF VaultInv, VaultTyped, VaultTypeOK, KeeperTyped, AKeeper
  <1>1. KeeperStep(k)
    <2>1. ASSUME NEW y \in Keepers, NEW op, StartKeeper(y, op) PROVE keeper'[k].said = "nothing"
      BY <2>1, <1>t DEF StartKeeper, NoKeeper
    <2>2. ASSUME NEW n \in Nodes, NodeGoes(n) \/ NodeReturns(n) PROVE FALSE
      BY <2>2, <1>t, NodesMove DEF VaultInv
    <2>3. ASSUME NEW y \in Keepers \ {k}, KeeperStep(y) PROVE FALSE
      BY <2>3, <1>t, KeeperMoves DEF VaultInv
    <2> QED
      BY <2>1, <2>2, <2>3 DEF VaultNext
  <1>2. EnsureAppRole(k)
    <2>1. CASE Initialize(k) \/ KeepRoot(k) \/ EnableKV(k) \/ CreateRole(k) \/ GrantDatabase(k)
      <3>1. KeeperEnds(k, "failed") \/ \E l : KeeperGo(k, l)
        BY <2>1, <1>t DEF Initialize, KeepRoot, EnableKV, CreateRole, GrantDatabase, KeeperAt, SetupSteps
      <3> QED
        BY <3>1, <1>t DEF KeeperEnds, KeeperGo, NoKeeper, AKeeper
    <2> QED
      BY <1>1, <1>t, <2>1, OtherSteps DEF KeeperStep, VaultInv, KeeperAt, SetupSteps
  <1>3. kept.root /\ core.kv
    <2>1. kept.root
      BY <1>2 DEF EnsureAppRole, Reachable
    <2>2. \A y \in Keepers : ~KeeperAt(y, "kv")
      BY <1>2 DEF EnsureAppRole, VaultInv, OneKeeper, NoneOf, KeeperAt
    <2> QED
      BY <2>1, <2>2 DEF VaultInv, EngineInv
  <1> QED
    BY <1>2, <1>3, <1>t DEF EnsureAppRole, Reachable, Unsealed, Initialized

VaultKept == /\ part = "vault" => VaultInv
             /\ part # "vault" => VaultInit

LEMMA NextVault == VaultKept /\ [Next]_allVars => VaultKept'
  <1> SUFFICES ASSUME VaultKept, [Next]_allVars PROVE VaultKept'
    OBVIOUS
  <1>1. CASE Vault_
    BY <1>1, NextVaultTyped, NextOneKeeper, NextSeal, NextOpen, NextGrant, NextEngine
       DEF Vault_, VaultKept, VaultInv
  <1>2. CASE UNCHANGED allVars
    BY <1>2 DEF allVars, vaultVars, VaultKept, VaultInv, VaultTyped, VaultTypeOK, LuckTypeOK, KeeperTyped,
       OneKeeper, SealInv, OpenInv, GrantInv, EngineInv, NoneOf, KeeperAt, Reachable, Unsealed, Initialized, VaultInit
  <1>3. CASE part # "vault" /\ UNCHANGED <<part, vaultVars>>
    BY <1>3 DEF vaultVars, VaultKept, VaultInit
  <1> QED
    BY <1>1, <1>2, <1>3 DEF Next, Env, Audit, Backup, Secret, Conf, Rest

\* Through commands that fail, processes that die and setups that are run again:
\* the seal key that is kept opens the barrier, the database's grant stays, and
\* a setup that says it is ready has left an open store with its engine.
THEOREM VaultAlwaysHolds == Spec => VaultHolds
  <1>1. Init => VaultKept
    BY LuckAtFirst, InitVault DEF Init, VaultKept
  <1>2. VaultKept => SealKeyKept /\ GrantKept
    <2>1. CASE part = "vault"
      BY <2>1 DEF VaultKept, VaultInv, SealInv, GrantInv, SealKeyKept, GrantKept, Initialized, Resting, KeeperAt
    <2>2. CASE part # "vault"
      BY <2>2 DEF VaultKept, VaultInit, SealKeyKept, GrantKept, Initialized
    <2> QED
      BY <2>1, <2>2
  <1>3. VaultKept' => (SealKeyKept /\ GrantKept)'
    BY <1>2, PTL
  <1>4. VaultKept /\ VaultKept' /\ [Next]_allVars => [SealKeyKept' /\ GrantKept' /\ ReadyWhenSaid]_vaultVars
    <2> SUFFICES ASSUME VaultKept, VaultKept', [Next]_allVars, ~UNCHANGED vaultVars
                 PROVE  SealKeyKept' /\ GrantKept' /\ ReadyWhenSaid
      OBVIOUS
    <2>1. VaultNext /\ part = "vault"
      BY DEF Next, Env, Audit, Backup, Vault_, Secret, Conf, Rest, allVars
    <2> QED
      BY <2>1, <1>3, ReadyIsTrue DEF VaultKept
  <1> QED
    BY <1>1, <1>4, NextVault, PTL DEF Spec, VaultHolds

-----------------------------------------------------------------------------
\* Secrets: types.  A command that is on its way to set a value sets one, so the
\* values set, those commands and the operations left are together at most MaxOps.
AHand == [pc : {"idle", "exists", "key", "encrypt", "put", "rm",
                "list", "get", "resolve", "upload", "run"},
          op : {"none", "set", "rotate", "put", "rm", "deploy"},
          left : SUBSET SecretKeys, got : [SecretKeys -> EnvValue], file : BOOLEAN]

MintSteps == {"exists", "key", "encrypt", "put"}
Minting   == {h \in Hands : hand[h].pc \in MintSteps}

SecretTyped ==
    /\ LuckTypeOK /\ SecretTypeOK
    /\ IsFiniteSet(Minting)
    /\ minted + Cardinality(Minting) + luck.ops <= MaxOps

LEMMA EnvValueHas ==
    /\ {None, Yml, DotEnv, Ruined} \subseteq EnvValue /\ Stored \subseteq EnvValue
    /\ NoneSet \in [SecretKeys -> EnvValue] /\ NoneSet \in [SecretKeys -> {None} \cup Stored]
    /\ NoneSet \in [SecretKeys -> {None, DotEnv}]
    /\ Yml # None
  BY MishapsAssumption DEF None, Yml, DotEnv, Ruined, Stored, EnvValue, NoneSet

LEMMA FreeHandType == FreeHand \in AHand
  BY EnvValueHas DEF FreeHand, AHand

LEMMA InitSecretTyped == SecretInit /\ LuckTypeOK => SecretTyped
  <1> SUFFICES ASSUME SecretInit, LuckTypeOK PROVE SecretTyped
    OBVIOUS
  <1>1. Minting = {}
    BY DEF SecretInit, Minting, MintSteps, FreeHand
  <1>2. IsFiniteSet(Minting) /\ Cardinality(Minting) = 0
    BY <1>1, FS_EmptySet
  <1>3. minted + Cardinality(Minting) + luck.ops <= MaxOps
    BY <1>2, MishapsAssumption DEF SecretInit, LuckTypeOK
  <1>4. minted \in 0..MaxOps /\ hand \in [Hands -> AHand]
    BY FreeHandType, MishapsAssumption DEF SecretInit
  <1>5. SecretTypeOK
    BY <1>4, EnvValueHas DEF SecretInit, SecretTypeOK, AHand
  <1> QED
    BY <1>2, <1>3, <1>5 DEF SecretTyped

HandStep(h) ==
    \/ RotateExisting(h) \/ EnsureKey(h) \/ Encrypt(h) \/ PutBao(h) \/ Remove(h)
    \/ ListSecrets(h) \/ ListUnread(h) \/ GetSecret(h) \/ ResolveRefs(h) \/ UploadEnv(h)
    \/ RunContainer(h) \/ LoseLock(h) \/ HandFails(h)

GoesOn(h) == \E l \in {"key", "encrypt", "upload"} : HandGo(h, l) /\ (l \in MintSteps => h \in Minting)
Collects(h) ==
    \E l \in {"get", "resolve", "upload"}, L \in SUBSET SecretKeys, g \in [SecretKeys -> EnvValue] :
        hand' = [hand EXCEPT ![h] = [@ EXCEPT !.pc = l, !.left = L, !.got = g]]
IsReady(h) == \E file \in BOOLEAN : hand' = [hand EXCEPT ![h] = [@ EXCEPT !.pc = "run", !.file = file]]

\* The steps of a command, told apart by what they do to the commands.
LEMMA HandStepForms ==
  ASSUME SecretTyped, NEW h \in Hands, HandStep(h)
  PROVE  \/ HandDone(h) /\ (minted' = minted \/ (minted' = minted + 1 /\ h \in Minting))
         \/ minted' = minted /\ (GoesOn(h) \/ Collects(h) \/ IsReady(h))
  <1>t. hand[h] \in AHand /\ hand[h].left \subseteq SecretKeys /\ hand[h].got \in [SecretKeys -> EnvValue]
        /\ store \in [SecretKeys -> EnvValue] /\ bao \in [SecretKeys -> EnvValue]
        /\ hand \in [Hands -> AHand]
    BY EnvValueHas DEF SecretTyped, SecretTypeOK, AHand
  <1>1. CASE RotateExisting(h) \/ EnsureKey(h) \/ ListUnread(h)
    BY <1>1 DEF RotateExisting, EnsureKey, ListUnread, GoesOn, HandAt, Minting, MintSteps
  <1>2. CASE Encrypt(h) \/ PutBao(h)
    BY <1>2 DEF Encrypt, PutBao, HandAt, Minting, MintSteps
  <1>3. CASE Remove(h) \/ RunContainer(h) \/ LoseLock(h) \/ HandFails(h)
    BY <1>3 DEF Remove, RunContainer, LoseLock, HandFails
  <1>4. CASE ListSecrets(h)
    <2> DEFINE seen == {k \in SecretKeys : store[k] # None}
    <2>1. PICK l \in {"get", "resolve"} : hand' = [hand EXCEPT ![h].pc = l, ![h].left = seen]
      BY <1>4 DEF ListSecrets
    <2>2. hand' = [hand EXCEPT ![h] = [@ EXCEPT !.pc = l, !.left = seen, !.got = hand[h].got]]
      BY <2>1, <1>t DEF AHand
    <2>3. seen \in SUBSET SecretKeys
      OBVIOUS
    <2> HIDE DEF seen
    <2>4. Collects(h)
      <3> DEFINE g == hand[h].got
      <3>1. g \in [SecretKeys -> EnvValue]
        BY <1>t
      <3>2. hand' = [hand EXCEPT ![h] = [@ EXCEPT !.pc = l, !.left = seen, !.got = g]]
        BY <2>2
      <3> HIDE DEF g
      <3> QED
        BY <2>3, <3>1, <3>2 DEF Collects
    <2> QED
      BY <2>4, <1>4 DEF ListSecrets
  <1>5. CASE GetSecret(h)
    <2>1. PICK k \in hand[h].left :
             IF store[k] \in {None, Ruined}
             THEN HandDone(h)
             ELSE hand' = [hand EXCEPT ![h].got[k] = store[k],
                                  ![h].left = @ \ {k},
                                  ![h].pc = IF hand[h].left = {k} THEN "resolve" ELSE "get"]
      BY <1>5 DEF GetSecret
    <2>2. CASE HandDone(h)
      BY <2>2, <1>5 DEF GetSecret
    <2>3. CASE hand' = [hand EXCEPT ![h].got[k] = store[k],
                                  ![h].left = @ \ {k},
                                  ![h].pc = IF hand[h].left = {k} THEN "resolve" ELSE "get"]
      <3> DEFINE g == [hand[h].got EXCEPT ![k] = store[k]]
                 L == hand[h].left \ {k}
      <3>1. g \in [SecretKeys -> EnvValue] /\ L \in SUBSET SecretKeys
        BY <1>t
      <3>2. PICK l \in {"get", "resolve"} : hand' = [hand EXCEPT ![h] = [@ EXCEPT !.pc = l, !.left = L, !.got = g]]
        BY <2>3, <1>t DEF AHand
      <3> HIDE DEF g, L
      <3> QED
        BY <3>1, <3>2, <1>5 DEF GetSecret, Collects
    <2> QED
      BY SMTT(40), <2>1, <2>2, <2>3
  <1>6. CASE ResolveRefs(h)
    <2> DEFINE g == [k \in SecretKeys |-> IF k \in Refs THEN bao[k] ELSE hand[h].got[k]]
    <2>1. g \in [SecretKeys -> EnvValue]
      BY <1>t
    <2>2. HandDone(h) \/ hand' = [hand EXCEPT ![h] = [@ EXCEPT !.pc = "upload", !.left = hand[h].left, !.got = g]]
      BY <1>6, <1>t DEF ResolveRefs, AHand
    <2> HIDE DEF g
    <2> QED
      BY <2>1, <2>2, <1>6, <1>t DEF ResolveRefs, Collects
  <1>7. CASE UploadEnv(h)
    <2>1. hand' = [hand EXCEPT ![h] = [@ EXCEPT !.pc = "run", !.file = Merged(h) # NoneSet]]
      BY <1>7, <1>t DEF UploadEnv, AHand
    <2> QED
      BY <2>1, <1>7 DEF UploadEnv, IsReady
  <1> QED
    BY <1>1, <1>2, <1>3, <1>4, <1>5, <1>6, <1>7 DEF HandStep

LEMMA HandLuck ==
  ASSUME SecretNext
  PROVE  \/ UNCHANGED luck
         \/ \E K \in SUBSET MishapKinds : BeginAs(K) \/ MishapAs(K)
  <1>1. ASSUME NEW h \in Hands, HandStep(h) PROVE UNCHANGED luck \/ \E x \in MishapKinds : Mishap(x)
    BY <1>1 DEF HandStep, RotateExisting, EnsureKey, Encrypt, PutBao, Remove, ListSecrets, ListUnread,
       GetSecret, ResolveRefs, UploadEnv, RunContainer, LoseLock, HandFails, MishapKinds
  <1>2. ASSUME NEW h \in Hands, NEW op, NEW k, Take(h, op, k) PROVE \E K \in SUBSET MishapKinds : BeginAs(K)
    BY <1>2 DEF Take, MishapKinds
  <1>3. ASSUME NEW x \in MishapKinds, Mishap(x) PROVE \E K \in SUBSET MishapKinds : MishapAs(K)
    BY <1>3 DEF Mishap
  <1> QED
    BY SMTT(40), <1>1, <1>2, <1>3 DEF SecretNext, HandStep

LEMMA NextSecretTyped == SecretTyped /\ SecretNext => SecretTyped'
  <1> SUFFICES ASSUME SecretTyped, SecretNext PROVE SecretTyped'
    OBVIOUS
  <1>t. /\ store \in [SecretKeys -> EnvValue] /\ bao \in [SecretKeys -> {None} \cup Stored]
        /\ deployEnv \in [SecretKeys -> EnvValue] /\ container \in [SecretKeys -> EnvValue]
        /\ envBlock \in [SecretKeys -> {"none", "plain", "secret:"}]
        /\ dotEnv \in [SecretKeys -> {None, DotEnv}] /\ ageKey \in BOOLEAN
        /\ minted \in Nat /\ MaxOps \in Nat /\ luck.ops \in Nat
        /\ hand \in [Hands -> AHand]
        /\ IsFiniteSet(Minting) /\ Cardinality(Minting) \in Nat
        /\ minted + Cardinality(Minting) + luck.ops <= MaxOps
    BY MishapsAssumption, FS_CardinalityType DEF SecretTyped, SecretTypeOK, AHand, LuckTypeOK
  <1>l. LuckTypeOK' /\ luck'.ops \in Nat /\ luck'.ops <= luck.ops
    <2>1. CASE UNCHANGED luck
      BY <2>1, <1>t DEF SecretTyped, LuckTypeOK
    <2>2. CASE \E K \in SUBSET MishapKinds : BeginAs(K) \/ MishapAs(K)
      <3>1. PICK K \in SUBSET MishapKinds : BeginAs(K) \/ MishapAs(K)
        BY <2>2
      <3>2. LuckTypeOK'
        BY <3>1, LuckKept DEF SecretTyped
      <3>3. luck'.ops \in Nat
        BY <3>2, MishapsAssumption DEF LuckTypeOK
      <3> QED
        BY <3>1, <3>2, <3>3, OpsSpent, <1>t DEF SecretTyped
    <2> QED
      BY <2>1, <2>2, HandLuck
  <1>e. ASSUME NEW h \in Hands, NEW x \in AHand, hand' = [hand EXCEPT ![h] = x],
               store' \in [SecretKeys -> EnvValue], bao' \in [SecretKeys -> {None} \cup Stored],
               deployEnv' \in [SecretKeys -> EnvValue], container' \in [SecretKeys -> EnvValue],
               UNCHANGED <<envBlock, dotEnv>>, ageKey' \in BOOLEAN,
               minted' \in Nat, IsFiniteSet(Minting'), minted' + Cardinality(Minting') + luck'.ops <= MaxOps
        PROVE  SecretTyped'
    <2>1. hand' \in [Hands -> AHand]
      BY <1>e, <1>t
    <2>2. minted' \in 0..MaxOps
      <3> DEFINE n == Cardinality(Minting')
      <3>1. n \in Nat /\ minted' + n + luck'.ops <= MaxOps
        BY <1>e, FS_CardinalityType
      <3> HIDE DEF n
      <3> QED
        BY <3>1, <1>e, <1>l, <1>t
    <2>3. SecretTypeOK'
      BY SMTT(40), <1>e, <1>t, <2>1, <2>2 DEF SecretTypeOK, AHand
    <2> QED
      BY <1>e, <1>l, <2>3 DEF SecretTyped
  <1>1. ASSUME NEW h \in Hands, HandStep(h) PROVE SecretTyped'
    <2>t. hand[h] \in AHand
      BY <1>t
    <2>n. /\ IsFiniteSet(Minting \ {h}) /\ Cardinality(Minting \ {h}) \in Nat
          /\ Cardinality(Minting \ {h}) =
               IF h \in Minting THEN Cardinality(Minting) - 1 ELSE Cardinality(Minting)
      BY <1>t, FS_RemoveElement, FS_CardinalityType
    <2>o. h \in Minting => minted + 1 \in Stored
      <3>1. Minting # {} => Cardinality(Minting) # 0
        BY <1>t, FS_EmptySet
      <3> DEFINE n == Cardinality(Minting)
      <3>2. n \in Nat /\ (h \in Minting => n # 0) /\ minted + n + luck.ops <= MaxOps
        BY <3>1, <1>t
      <3> HIDE DEF n
      <3> QED
        BY <3>2, <1>t DEF Stored
    <2>s. store' \in [SecretKeys -> EnvValue]
      <3>1. CASE Encrypt(h)
        <4>1. minted + 1 \in EnvValue /\ Ruined \in EnvValue
          BY <2>o, <3>1, EnvValueHas DEF Encrypt, HandAt, Minting, MintSteps
        <4> QED
          BY <4>1, <3>1, <1>t DEF Encrypt
      <3>2. CASE Remove(h)
        BY <3>2, <1>t, EnvValueHas DEF Remove
      <3>3. CASE UNCHANGED store
        BY <3>3, <1>t
      <3> QED
        BY <1>1, <3>1, <3>2, <3>3 DEF HandStep, RotateExisting, EnsureKey, PutBao, ListSecrets, ListUnread,
           GetSecret, ResolveRefs, UploadEnv, RunContainer, LoseLock, HandFails
    <2>b. bao' \in [SecretKeys -> {None} \cup Stored]
      <3>1. CASE PutBao(h)
        <4>1. minted + 1 \in Stored
          BY <2>o, <3>1 DEF PutBao, HandAt, Minting, MintSteps
        <4> QED
          BY <4>1, <3>1, <1>t DEF PutBao
      <3>2. CASE UNCHANGED bao
        BY <3>2, <1>t
      <3> QED
        BY <1>1, <3>1, <3>2 DEF HandStep, RotateExisting, EnsureKey, Encrypt, Remove, ListSecrets, ListUnread,
           GetSecret, ResolveRefs, UploadEnv, RunContainer, LoseLock, HandFails
    <2>d. deployEnv' \in [SecretKeys -> EnvValue] /\ container' \in [SecretKeys -> EnvValue]
      <3>1. CASE UploadEnv(h)
        <4>1. Merged(h) \in [SecretKeys -> EnvValue]
          BY <2>t, EnvValueHas DEF Merged, AHand
        <4> QED
          BY <4>1, <3>1, <1>t DEF UploadEnv
      <3>2. CASE RunContainer(h)
        <4>1. PICK plain \in {dotEnv, NoneSet} :
                 container' = [k \in SecretKeys |->
                        IF hand[h].file /\ deployEnv[k] # None THEN deployEnv[k] ELSE plain[k]]
          BY <3>2 DEF RunContainer
        <4>2. \A k \in SecretKeys : plain[k] \in EnvValue
          BY <1>t, EnvValueHas DEF NoneSet
        <4>3. container' \in [SecretKeys -> EnvValue] /\ UNCHANGED deployEnv
          BY <4>1, <4>2, <3>2, <1>t DEF RunContainer
        <4> QED
          BY <4>3, <1>t
      <3>3. CASE UNCHANGED <<deployEnv, container>>
        BY SMTT(40), <3>3, <1>t
      <3> QED
        BY <1>1, <3>1, <3>2, <3>3 DEF HandStep, RotateExisting, EnsureKey, Encrypt, PutBao, Remove, ListSecrets,
           ListUnread, GetSecret, ResolveRefs, LoseLock, HandFails
    <2>k. ageKey' \in BOOLEAN /\ UNCHANGED <<envBlock, dotEnv>>
      BY <1>1, <1>t DEF HandStep, RotateExisting, EnsureKey, Encrypt, PutBao, Remove, ListSecrets,
           ListUnread, GetSecret, ResolveRefs, UploadEnv, RunContainer, LoseLock, HandFails
    <2>m. ASSUME NEW x \in AHand, hand' = [hand EXCEPT ![h] = x],
                 x.pc \in MintSteps => h \in Minting,
                 minted' = minted \/ (minted' = minted + 1 /\ h \in Minting /\ x.pc \notin MintSteps)
          PROVE  SecretTyped'
      <3>1. hand'[h] = x /\ \A y \in Hands \ {h} : hand'[y] = hand[y]
        BY <2>m, <1>t
      <3>2. Minting' = IF x.pc \in MintSteps THEN Minting ELSE Minting \ {h}
        BY <2>m, <3>1 DEF Minting
      <3>3. IsFiniteSet(Minting')
        BY <3>2, <2>n, <1>t
      <3>4. minted' \in Nat /\ minted' + Cardinality(Minting') + luck'.ops <= MaxOps
        <4> DEFINE n == Cardinality(Minting)
                   m == Cardinality(Minting')
        <4>1. n \in Nat /\ m \in Nat /\ m <= n /\ minted + n + luck.ops <= MaxOps
          BY <3>2, <2>n, <1>t
        <4>2. minted' = minted \/ (minted' = minted + 1 /\ m = n - 1)
          BY <2>m, <3>2, <2>n
        <4> HIDE DEF n, m
        <4>3. minted' \in Nat /\ minted' + m + luck'.ops <= MaxOps
          BY <4>1, <4>2, <1>l, <1>t
        <4> QED
          BY <4>3 DEF m
      <3> QED
        BY <1>e, <2>m, <2>s, <2>b, <2>d, <2>k, <3>3, <3>4
    <2>1. CASE HandDone(h) /\ (minted' = minted \/ (minted' = minted + 1 /\ h \in Minting))
      BY <2>1, <2>m, FreeHandType DEF HandDone, FreeHand, MintSteps
    <2>2. ASSUME NEW l \in {"key", "encrypt", "upload"},
                 HandGo(h, l), minted' = minted, l \in MintSteps => h \in Minting
          PROVE  SecretTyped'
      <3> DEFINE x == [hand[h] EXCEPT !.pc = l]
      <3>1. x \in AHand /\ x.pc = l
        BY <2>t DEF AHand
      <3>2. hand' = [hand EXCEPT ![h] = x]
        BY <2>2 DEF HandGo
      <3> HIDE DEF x
      <3> QED
        BY <2>2, <2>m, <3>1, <3>2
    <2>3. ASSUME NEW l \in {"get", "resolve", "upload"}, NEW L \in SUBSET SecretKeys, NEW g \in [SecretKeys -> EnvValue],
                 minted' = minted, hand' = [hand EXCEPT ![h] = [@ EXCEPT !.pc = l, !.left = L, !.got = g]]
          PROVE  SecretTyped'
      <3> DEFINE x == [hand[h] EXCEPT !.pc = l, !.left = L, !.got = g]
      <3>1. x \in AHand /\ x.pc = l
        BY <2>t DEF AHand
      <3>2. hand' = [hand EXCEPT ![h] = x]
        BY <2>3
      <3> HIDE DEF x
      <3> QED
        BY <2>3, <2>m, <3>1, <3>2 DEF MintSteps
    <2>4. ASSUME NEW file \in BOOLEAN, minted' = minted,
                 hand' = [hand EXCEPT ![h] = [@ EXCEPT !.pc = "run", !.file = file]]
          PROVE  SecretTyped'
      <3> DEFINE x == [hand[h] EXCEPT !.pc = "run", !.file = file]
      <3>1. x \in AHand /\ x.pc = "run"
        BY <2>t DEF AHand
      <3>2. hand' = [hand EXCEPT ![h] = x]
        BY <2>4
      <3> HIDE DEF x
      <3> QED
        BY <2>4, <2>m, <3>1, <3>2 DEF MintSteps
    <2> QED
      BY ZenonT(40), <1>1, HandStepForms, <2>1, <2>2, <2>3, <2>4 DEF GoesOn, Collects, IsReady
  <1>2. ASSUME NEW h \in Hands, NEW op \in {"set", "rotate", "put", "rm", "deploy"}, NEW k,
               op # "deploy" => k \in SecretKeys, Take(h, op, k)
        PROVE  SecretTyped'
    <2>1. PICK l \in {"key", "exists", "list", "put", "rm"} :
             hand' = [hand EXCEPT ![h] = [FreeHand EXCEPT
                    !.op = op, !.left = IF op = "deploy" THEN {} ELSE {k}, !.pc = l]]
      BY <1>2 DEF Take
    <2> DEFINE x == [FreeHand EXCEPT !.op = op, !.left = IF op = "deploy" THEN {} ELSE {k}, !.pc = l]
    <2>2. x \in AHand
      BY <1>2, FreeHandType DEF AHand
    <2>3. hand' = [hand EXCEPT ![h] = x]
      BY <2>1
    <2> HIDE DEF x
    <2>4. hand'[h] = x /\ \A y \in Hands \ {h} : hand'[y] = hand[y]
      BY <1>t, <2>2, <2>3
    <2>5. h \notin Minting /\ Minting' \in {Minting, Minting \cup {h}}
      BY <2>4, <1>2 DEF Minting, MintSteps, Take, HandAt
    <2>6. /\ IsFiniteSet(Minting \cup {h})
          /\ Cardinality(Minting \cup {h}) = Cardinality(Minting) + 1
      BY <2>5, <1>t, FS_AddElement
    <2>7. luck'.ops = luck.ops - 1
      BY <1>2, OpsSpent DEF Take, SecretTyped
    <2>8. IsFiniteSet(Minting') /\ minted + Cardinality(Minting') + luck'.ops <= MaxOps
      <3> DEFINE n == Cardinality(Minting)
                 m == Cardinality(Minting')
      <3>1. n \in Nat /\ m \in {n, n + 1} /\ minted + n + luck.ops <= MaxOps
        BY <2>5, <2>6, <1>t
      <3> HIDE DEF n, m
      <3>2. minted + m + luck'.ops <= MaxOps
        BY <3>1, <2>7, <1>t
      <3> QED
        BY <3>2, <2>5, <2>6, <1>t DEF m
    <2>9. UNCHANGED <<envBlock, dotEnv, ageKey, store, bao, deployEnv, container, minted>>
      BY <1>2 DEF Take
    <2> QED
      BY <1>e, <1>t, <2>2, <2>3, <2>8, <2>9
  <1> QED
    BY <1>1, <1>2 DEF SecretNext, HandStep

\* As long as commands follow one another and every list is read: one command
\* runs, what a deploy has gathered so far is what is stored, and what it is
\* about to start the container with is what each variable should be.
Intact == NoneOf({"race", "read"})

EnvOf(h, k) == IF hand[h].file /\ deployEnv[k] # None THEN deployEnv[k] ELSE dotEnv[k]

Gathers(h) ==
    /\ HandAt(h, "list") => hand[h].got = NoneSet
    /\ HandAt(h, "get") => \A k \in SecretKeys :
          IF k \in hand[h].left THEN store[k] # None ELSE hand[h].got[k] = store[k]
    /\ HandAt(h, "resolve") => \A k \in SecretKeys : hand[h].got[k] = store[k]
    /\ HandAt(h, "upload") => \A k \in SecretKeys :
          IF k \in Refs THEN bao[k] # None /\ hand[h].got[k] = bao[k] ELSE hand[h].got[k] = store[k]
    /\ HandAt(h, "run") => \A k \in SecretKeys : EnvOf(h, k) = Wanted(k)

SecretInv == Intact =>
    /\ \A g, h \in Hands : HandAt(g, "idle") \/ HandAt(h, "idle") \/ g = h
    /\ \A h \in Hands : Gathers(h)

LEMMA InitSecret == SecretInit => SecretInv
  BY DEF SecretInit, SecretInv, HandAt, FreeHand, Gathers

LEMMA IntactBefore ==
  ASSUME LuckTypeOK, SecretNext, Intact'
  PROVE  Intact
  <1>1. CASE UNCHANGED luck
    BY <1>1 DEF Intact, NoneOf
  <1>2. CASE \E K \in SUBSET MishapKinds : BeginAs(K) \/ MishapAs(K)
    BY <1>2, NoneBefore DEF Intact
  <1> QED
    BY <1>1, <1>2, HandLuck

LEMMA NextSecretInv == SecretTyped /\ SecretInv /\ SecretNext => SecretInv'
  <1> SUFFICES ASSUME SecretTyped, SecretInv, SecretNext, Intact' PROVE SecretInv'
    BY DEF SecretInv
  <1>i. /\ \A g, h \in Hands : hand[g].pc = "idle" \/ hand[h].pc = "idle" \/ g = h
        /\ \A h \in Hands : Gathers(h)
    BY IntactBefore DEF SecretTyped, SecretInv, HandAt
  <1>t. /\ store \in [SecretKeys -> EnvValue] /\ bao \in [SecretKeys -> EnvValue]
        /\ deployEnv \in [SecretKeys -> EnvValue]
        /\ envBlock \in [SecretKeys -> {"none", "plain", "secret:"}]
        /\ dotEnv \in [SecretKeys -> {None, DotEnv}]
        /\ hand \in [Hands -> AHand]
    BY EnvValueHas DEF SecretTyped, SecretTypeOK, AHand
  <1>1. ASSUME NEW h \in Hands, HandStep(h) PROVE SecretInv'
    <2>a. hand[h].pc # "idle" /\ hand[h] \in AHand
      BY <1>1, <1>t DEF HandStep, RotateExisting, EnsureKey, Encrypt, PutBao, Remove, ListSecrets,
         ListUnread, GetSecret, ResolveRefs, UploadEnv, RunContainer, LoseLock, HandFails, HandAt
    <2>b. \A x \in Hands \ {h} : hand[x].pc = "idle"
      BY <2>a, <1>i
    <2>m. ASSUME NEW x, hand' = [hand EXCEPT ![h] = x], Gathers(h)' PROVE SecretInv'
      <3>1. \A y \in Hands \ {h} : hand'[y].pc = "idle"
        BY <2>m, <2>b, <1>t
      <3>2. \A y \in Hands \ {h} : Gathers(y)'
        BY <3>1 DEF Gathers, HandAt
      <3> QED
        BY <3>1, <3>2, <2>m DEF SecretInv, HandAt
    <2>d. ASSUME HandDone(h) PROVE SecretInv'
      <3>1. hand'[h].pc = "idle"
        BY <2>d, <1>t DEF HandDone, FreeHand
      <3>2. Gathers(h)'
        BY <3>1 DEF Gathers, HandAt
      <3> QED
        BY <3>2, <2>d, <2>m DEF HandDone
    <2>g. ASSUME NEW l \in {"key", "encrypt"}, HandGo(h, l) PROVE SecretInv'
      <3> DEFINE x == [hand[h] EXCEPT !.pc = l]
      <3>1. hand' = [hand EXCEPT ![h] = x] /\ x.pc = l
        BY <2>g, <2>a DEF HandGo, AHand
      <3> HIDE DEF x
      <3>2. hand'[h].pc = l
        BY <3>1, <1>t
      <3>3. Gathers(h)'
        BY <3>2 DEF Gathers, HandAt
      <3> QED
        BY <3>1, <3>3, <2>m
    <2>1. CASE RotateExisting(h) \/ EnsureKey(h)
      BY <2>1, <2>d, <2>g DEF RotateExisting, EnsureKey
    <2>2. CASE Encrypt(h) \/ PutBao(h) \/ Remove(h) \/ RunContainer(h) \/ LoseLock(h) \/ HandFails(h)
      BY <2>2, <2>d DEF Encrypt, PutBao, Remove, RunContainer, LoseLock, HandFails
    <2>3. CASE ListSecrets(h)
      <3> DEFINE seen == {k \in SecretKeys : store[k] # None}
                 l == IF seen = {} THEN "resolve" ELSE "get"
                 x == [hand[h] EXCEPT !.pc = l, !.left = seen]
      <3>1. hand' = [hand EXCEPT ![h] = x]
        BY <2>3, <1>t DEF ListSecrets, AHand
      <3>2. x.pc = l /\ x.left = seen /\ x.got = NoneSet
        BY <2>3, <2>a, <1>i DEF ListSecrets, Gathers, HandAt, AHand
      <3> HIDE DEF x
      <3>3. hand'[h] = x /\ store' = store
        BY <3>1, <1>t, <2>3 DEF ListSecrets
      <3>4. Gathers(h)'
        BY <3>2, <3>3 DEF Gathers, HandAt, NoneSet
      <3> QED
        BY <3>1, <3>4, <2>m
    <2>4. CASE ListUnread(h)
      <3>1. Mishap("read")
        BY <2>4 DEF ListUnread
      <3> DEFINE X == {"race", "read"}
      <3>2. "read" \in MishapKinds \cap X /\ NoneOf(X)'
        BY DEF MishapKinds, Intact
      <3> HIDE DEF X
      <3> QED
        BY <3>1, <3>2, NotOfKind DEF SecretTyped
    <2>5. CASE GetSecret(h)
      <3>1. PICK k \in hand[h].left :
             IF store[k] \in {None, Ruined}
             THEN HandDone(h)
             ELSE hand' = [hand EXCEPT ![h].got[k] = store[k],
                                  ![h].left = @ \ {k},
                                  ![h].pc = IF hand[h].left = {k} THEN "resolve" ELSE "get"]
        BY <2>5 DEF GetSecret
      <3>2. CASE hand' = [hand EXCEPT ![h].got[k] = store[k],
                                  ![h].left = @ \ {k},
                                  ![h].pc = IF hand[h].left = {k} THEN "resolve" ELSE "get"]
        <4> DEFINE g == [hand[h].got EXCEPT ![k] = store[k]]
                   L == hand[h].left \ {k}
                   l == IF hand[h].left = {k} THEN "resolve" ELSE "get"
                   x == [hand[h] EXCEPT !.pc = l, !.left = L, !.got = g]
        <4>1. hand' = [hand EXCEPT ![h] = x]
          BY <3>2, <1>t DEF AHand
        <4>2. x.pc = l /\ x.left = L /\ x.got = g
          BY <2>a DEF AHand
        <4> HIDE DEF x
        <4>3. hand'[h] = x /\ store' = store
          BY <4>1, <1>t, <2>5 DEF GetSecret
        <4>4. \A j \in SecretKeys :
                 IF j \in hand[h].left THEN store[j] # None ELSE hand[h].got[j] = store[j]
          BY <2>5, <1>i DEF GetSecret, Gathers, HandAt
        <4>5. hand[h].got \in [SecretKeys -> EnvValue]
          BY <2>a DEF AHand
        <4>6. \A j \in SecretKeys : IF j \in L THEN store[j] # None ELSE g[j] = store[j]
          BY <4>4, <4>5
        <4>7. l = "resolve" => L = {}
          OBVIOUS
        <4>8. l \in {"resolve", "get"}
          OBVIOUS
        <4> HIDE DEF l, g, L
        <4>9. Gathers(h)'
          BY <4>2, <4>3, <4>6, <4>7, <4>8 DEF Gathers, HandAt
        <4> QED
          BY <4>1, <4>9, <2>m
      <3> QED
        BY SMTT(40), <3>1, <3>2, <2>d
    <2>6. CASE ResolveRefs(h)
      <3> DEFINE g == [k \in SecretKeys |-> IF k \in Refs THEN bao[k] ELSE hand[h].got[k]]
                 x == [hand[h] EXCEPT !.pc = "upload", !.got = g]
      <3>1. CASE HandDone(h)
        BY <3>1, <2>d
      <3>2. CASE ~(\E k \in Refs : bao[k] = None)
        <4>1. hand' = [hand EXCEPT ![h] = x]
          BY <3>2, <2>6, <1>t DEF ResolveRefs, AHand
        <4>2. x.pc = "upload" /\ x.got = g
          BY <2>a DEF AHand
        <4> HIDE DEF x
        <4>3. hand'[h] = x /\ store' = store /\ bao' = bao /\ Refs' = Refs
          BY <4>1, <1>t, <2>6 DEF ResolveRefs, Refs
        <4>4. \A k \in SecretKeys : IF k \in Refs THEN bao[k] # None /\ g[k] = bao[k] ELSE g[k] = store[k]
          BY <3>2, <2>6, <1>i DEF ResolveRefs, Gathers, HandAt
        <4> HIDE DEF g
        <4>5. Gathers(h)'
          BY <4>2, <4>3, <4>4 DEF Gathers, HandAt
        <4> QED
          BY <4>1, <4>5, <2>m
      <3> QED
        BY <2>6, <3>1, <3>2 DEF ResolveRefs
    <2>7. CASE UploadEnv(h)
      <3> DEFINE M == Merged(h)
                 x == [hand[h] EXCEPT !.pc = "run", !.file = M # NoneSet]
      <3>1. hand' = [hand EXCEPT ![h] = x]
        BY <2>7, <1>t DEF UploadEnv, AHand
      <3>2. x.pc = "run" /\ x.file = (M # NoneSet)
        BY <2>a DEF AHand
      <3> HIDE DEF x
      <3>3. hand'[h] = x /\ store' = store /\ bao' = bao /\ envBlock' = envBlock /\ dotEnv' = dotEnv
        BY <3>1, <1>t, <2>7 DEF UploadEnv
      <3>4. \A k \in SecretKeys : M[k] = IF k \in Refs THEN bao[k] ELSE IF store[k] # None THEN store[k]
                                         ELSE IF envBlock[k] = "plain" THEN Yml ELSE None
        BY <2>7, <1>i DEF UploadEnv, Gathers, HandAt, Merged
      <3>5. \A k \in Refs : bao[k] # None
        BY <2>7, <1>i DEF UploadEnv, Gathers, HandAt, Refs
      <3>6. \A k \in SecretKeys : Wanted(k) = IF M[k] # None THEN M[k] ELSE dotEnv[k]
        BY <3>4, <3>5, EnvValueHas DEF Wanted
      <3>7. \A k \in SecretKeys : Wanted(k)' = Wanted(k)
        BY <3>3 DEF Wanted, Refs
      <3>8. (M = NoneSet => \A k \in SecretKeys : M[k] = None) /\ (M # NoneSet => deployEnv' = M)
        BY <2>7 DEF NoneSet, UploadEnv
      <3> HIDE DEF M
      <3>9. \A k \in SecretKeys : EnvOf(h, k)' = Wanted(k)'
        BY <3>2, <3>3, <3>6, <3>7, <3>8 DEF EnvOf
      <3>10. Gathers(h)'
        BY <3>2, <3>3, <3>9 DEF Gathers, HandAt
      <3> QED
        BY <3>1, <3>10, <2>m
    <2> QED
      BY SMTT(40), <1>1, <2>1, <2>2, <2>3, <2>4, <2>5, <2>6, <2>7 DEF HandStep
  <1>2. ASSUME NEW h \in Hands, NEW op \in {"set", "rotate", "put", "rm", "deploy"}, NEW k, Take(h, op, k)
        PROVE  SecretInv'
    <2>1. \A x \in Hands : hand[x].pc = "idle"
      <3>1. CASE \E x \in Hands : ~HandAt(x, "idle")
        <4>1. BeginAs({"race"})
          BY <3>1, <1>2 DEF Take
        <4> DEFINE X == {"race", "read"}
        <4>2. "race" \in MishapKinds \cap X /\ NoneOf(X)'
          BY DEF MishapKinds, Intact
        <4> HIDE DEF X
        <4> QED
          BY <4>1, <4>2, NotOfKind DEF SecretTyped
      <3> QED
        BY <3>1 DEF HandAt
    <2>2. PICK l \in {"key", "exists", "list", "put", "rm"} :
             hand' = [hand EXCEPT ![h] = [FreeHand EXCEPT
                    !.op = op, !.left = IF op = "deploy" THEN {} ELSE {k}, !.pc = l]]
      BY <1>2 DEF Take
    <2> DEFINE x == [FreeHand EXCEPT !.op = op, !.left = IF op = "deploy" THEN {} ELSE {k}, !.pc = l]
    <2>3. x.pc = l /\ x.got = NoneSet
      BY DEF FreeHand
    <2>4. hand' = [hand EXCEPT ![h] = x]
      BY <2>2
    <2> HIDE DEF x
    <2>5. hand'[h] = x /\ \A y \in Hands \ {h} : hand'[y].pc = "idle"
      BY <1>t, <2>1, <2>4
    <2>6. \A y \in Hands : Gathers(y)'
      BY <2>3, <2>5 DEF Gathers, HandAt
    <2> QED
      BY <2>5, <2>6 DEF SecretInv, HandAt
  <1> QED
    BY <1>1, <1>2 DEF SecretNext, HandStep

SecretKept == /\ part = "secrets" => SecretTyped /\ SecretInv
              /\ part # "secrets" => SecretInit

LEMMA NextSecretKept == SecretKept /\ [Next]_allVars => SecretKept'
  <1> SUFFICES ASSUME SecretKept, [Next]_allVars PROVE SecretKept'
    OBVIOUS
  <1>1. CASE Secret
    BY <1>1, NextSecretTyped, NextSecretInv DEF Secret, SecretKept
  <1>2. CASE UNCHANGED allVars
    BY <1>2 DEF allVars, secretVars, SecretKept, SecretTyped, SecretTypeOK, LuckTypeOK, Minting, SecretInv,
       Intact, NoneOf, HandAt, Gathers, EnvOf, Wanted, Refs, SecretInit
  <1>3. CASE part # "secrets" /\ UNCHANGED <<part, secretVars>>
    BY <1>3 DEF secretVars, SecretKept, SecretInit
  <1> QED
    BY <1>1, <1>2, <1>3 DEF Next, Env, Audit, Backup, Vault_, Conf, Rest

\* A container starts with the value each variable should have, unless commands
\* ran at the same time or the list of the secrets could not be read.
THEOREM SecretsAlwaysArrive == Spec => SecretsArrive
  <1>1. Init => SecretKept
    BY LuckAtFirst, InitSecretTyped, InitSecret DEF Init, SecretKept
  <1>2. SecretKept /\ [Next]_allVars =>
          [container' # container /\ luck'.had \cap {"race", "read"} = {}
             => \A k \in SecretKeys : container'[k] = Wanted(k)]_secretVars
    <2> SUFFICES ASSUME SecretKept, [Next]_allVars, ~UNCHANGED secretVars,
                        container' # container, luck'.had \cap {"race", "read"} = {},
                        NEW k \in SecretKeys
                 PROVE  container'[k] = Wanted(k)
      OBVIOUS
    <2>1. SecretNext /\ part = "secrets"
      BY DEF Next, Env, Audit, Backup, Vault_, Secret, Conf, Rest, allVars
    <2>2. SecretTyped /\ SecretInv /\ Intact
      BY <2>1, IntactBefore DEF SecretKept, SecretTyped, Intact, NoneOf
    <2>3. PICK h \in Hands : RunContainer(h)
      BY <2>1 DEF SecretNext, RotateExisting, EnsureKey, Encrypt, PutBao, Remove, ListSecrets,
         ListUnread, GetSecret, ResolveRefs, UploadEnv, LoseLock, HandFails, Take
    <2>4. EnvOf(h, k) = Wanted(k)
      BY <2>2, <2>3 DEF SecretInv, Gathers, RunContainer
    <2>5. ~Mishap("read")
      BY <2>2 DEF Mishap, MishapAs, SecretTyped, LuckTypeOK
    <2>6. container' = [x \in SecretKeys |->
                          IF hand[h].file /\ deployEnv[x] # None THEN deployEnv[x] ELSE dotEnv[x]]
      BY <2>3, <2>5 DEF RunContainer
    <2> QED
      BY <2>4, <2>6 DEF EnvOf
  <1> QED
    BY <1>1, <1>2, NextSecretKept, PTL DEF Spec, SecretsArrive
=============================================================================
