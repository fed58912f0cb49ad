-------------------------------- MODULE Vault --------------------------------
(***************************************************************************)
(* OpenBao as an app's secret store: `teploy secret setup` generates the   *)
(* seal key, starts the nodes, initialises the first and keeps what it     *)
(* returns in the local encrypted store; `secret db setup` and `secret db  *)
(* static-role` add credentials for a database.  Each says that it is safe *)
(* to run again, after whatever became of it the last time.                *)
(***************************************************************************)
EXTENDS Mishaps, FiniteSets

CONSTANTS
    Nodes, Primary,   \* one node, or a Raft quorum; the one that is initialised
    Keepers           \* operators

ASSUME NodesAssumption == Primary \in Nodes

Keys == 0..MaxOps   \* seal keys generated; 0 is none

VARIABLES
    kept,    \* the local store: the seal key, the root token, the AppRole's id
    newest,  \* the last seal key generated
    node,    \* each node's container, and the seal key in its environment
    core,    \* what the primary's data volume holds
    keeper   \* the running commands

vaultVars == <<kept, newest, node, core, keeper>>

NoKeeper == [pc |-> "idle", op |-> "none", key |-> 0, todo |-> {}, said |-> "nothing"]

VaultTypeOK ==
    /\ kept \in [seal : Keys, root : BOOLEAN, role : BOOLEAN]
    /\ newest \in Keys
    /\ node \in [Nodes -> [run : {"absent", "exited", "running"}, key : Keys]]
    /\ core \in [key : Keys, kv : BOOLEAN, joined : SUBSET Nodes,
                 policy : {"none", "kv", "db"}, allowed : {"none", "role", "all"},
                 dynamic : BOOLEAN, static : BOOLEAN]
    /\ keeper \in [Keepers ->
            [pc : {"idle", "seal", "store", "nodes", "run", "wait", "init", "root", "kv",
                   "peers", "role", "connect", "dbrole", "grant", "put"},
             op : {"none", "setup", "db", "static", "put"}, key : Keys,
             todo : SUBSET Nodes, said : {"nothing", "ready", "failed"}]]

VaultInit ==
    /\ kept = [seal |-> 0, root |-> FALSE, role |-> FALSE]
    /\ newest = 0
    /\ node = [n \in Nodes |-> [run |-> "absent", key |-> 0]]
    /\ core = [key |-> 0, kv |-> FALSE, joined |-> {}, policy |-> "none",
               allowed |-> "none", dynamic |-> FALSE, static |-> FALSE]
    /\ keeper = [k \in Keepers |-> NoKeeper]

\* The barrier opens by itself for a node that was started with its seal key.
Initialized == core.key # 0
Unsealed    == Initialized /\ node[Primary] = [run |-> "running", key |-> core.key]

KeeperAt(k, label) == keeper[k].pc = label
KeeperGo(k, label) == keeper' = [keeper EXCEPT ![k].pc = label]
KeeperEnds(k, said) == keeper' = [keeper EXCEPT ![k] = [NoKeeper EXCEPT !.said = said]]

Resting == \A k \in Keepers : KeeperAt(k, "idle")

-----------------------------------------------------------------------------
StartKeeper(k, op) ==
    /\ KeeperAt(k, "idle")
    /\ BeginAs(IF Resting THEN {} ELSE {"race"})
    /\ keeper' = [keeper EXCEPT ![k] = [NoKeeper EXCEPT !.op = op,
                    !.pc = CASE op = "setup" -> "seal" [] op = "put" -> "put" [] OTHER -> "connect"]]
    /\ UNCHANGED <<kept, newest, node, core>>

\* A command of the server fails, and the operation with it.
KeeperFails(k) ==
    /\ keeper[k].pc \in {"run", "wait", "init", "kv", "role", "connect", "dbrole", "grant", "put"}
    /\ Mishap("fault")
    /\ KeeperEnds(k, "failed")
    /\ UNCHANGED <<kept, newest, node, core>>

KeeperDies(k) ==
    /\ ~KeeperAt(k, "idle")
    /\ Mishap("crash")
    /\ KeeperEnds(k, "nothing")
    /\ UNCHANGED <<kept, newest, node, core>>

\* Someone stops or removes a node's container; its volume stays.
NodeGoes(n) ==
    /\ node[n].run # "absent"
    /\ BeginAs(IF Resting THEN {} ELSE {"race"})
    /\ node' \in {[node EXCEPT ![n].run = "absent"], [node EXCEPT ![n].run = "exited"]}
    /\ UNCHANGED <<kept, newest, core, keeper>>

\* accessory start
NodeReturns(n) ==
    /\ node[n].run = "exited" /\ Begin
    /\ node' = [node EXCEPT ![n].run = "running"]
    /\ UNCHANGED <<kept, newest, core, keeper>>

\* ensureSecret: the stored key, or a new one.  A key that cannot be read
\* passes for one that is not there.
EnsureSecret(k) ==
    /\ KeeperAt(k, "seal")
    /\ \/ /\ kept.seal # 0
          /\ keeper' = [keeper EXCEPT ![k].pc = "nodes", ![k].key = kept.seal, ![k].todo = Nodes]
          /\ UNCHANGED <<newest, luck>>
       \/ /\ IF kept.seal = 0 THEN UNCHANGED luck ELSE Mishap("read")
          /\ newest < MaxOps
          /\ newest' = newest + 1
          /\ keeper' = [keeper EXCEPT ![k].pc = "store", ![k].key = newest']
    /\ UNCHANGED <<kept, node, core>>

\* Mutant: nodes are started with a key that could not be kept.
StoreSealOrNot(k) ==
    /\ KeeperAt(k, "store")
    /\ keeper' = [keeper EXCEPT ![k].pc = "nodes", ![k].todo = Nodes]
    /\ \/ kept' = [kept EXCEPT !.seal = keeper[k].key] /\ UNCHANGED luck
       \/ UNCHANGED kept /\ Mishap("save")
    /\ UNCHANGED <<newest, node, core>>

\* Set encrypts into the file; what it held is gone if that breaks off.
StoreSeal(k) ==
    /\ KeeperAt(k, "store")
    /\ \/ /\ kept' = [kept EXCEPT !.seal = keeper[k].key]
          /\ keeper' = [keeper EXCEPT ![k].pc = "nodes", ![k].todo = Nodes]
          /\ UNCHANGED luck
       \/ /\ kept' \in {kept, [kept EXCEPT !.seal = 0]}
          /\ KeeperEnds(k, "failed")
          /\ Mishap("save")
    /\ UNCHANGED <<newest, node, core>>

\* ensureContainer of each node: one that runs is left as it is, what remains
\* of another is removed.  One whose state cannot be read passes for another.
NextNode(k, n) ==
    /\ KeeperAt(k, "nodes") /\ n \in keeper[k].todo
    /\ \/ /\ node[n].run = "running"
          /\ keeper' = [keeper EXCEPT ![k].todo = @ \ {n}]
          /\ UNCHANGED <<node, luck>>
       \/ /\ IF node[n].run = "running" THEN Mishap("read") ELSE UNCHANGED luck
          /\ node' = [node EXCEPT ![n].run = "absent"]
          /\ KeeperGo(k, "run")
    /\ UNCHANGED <<kept, newest, core>>

RunNode(k, n) ==
    /\ KeeperAt(k, "run") /\ n \in keeper[k].todo
    /\ node[n].run = "absent"
    /\ node' = [node EXCEPT ![n] = [run |-> "running", key |-> keeper[k].key]]
    /\ keeper' = [keeper EXCEPT ![k].pc = "nodes", ![k].todo = @ \ {n}]
    /\ UNCHANGED <<kept, newest, core, luck>>

\* The name was taken meanwhile.
NameTaken(k) ==
    /\ KeeperAt(k, "run")
    /\ \A n \in keeper[k].todo : node[n].run # "absent"
    /\ KeeperEnds(k, "failed")
    /\ UNCHANGED <<kept, newest, node, core, luck>>

NodesRun(k) ==
    /\ KeeperAt(k, "nodes") /\ keeper[k].todo = {}
    /\ KeeperGo(k, "wait")
    /\ UNCHANGED <<kept, newest, node, core, luck>>

\* waitReady, and what Setup makes of the status.
WaitReady(k) ==
    /\ KeeperAt(k, "wait")
    /\ IF node[Primary].run # "running" \/ (Initialized /\ ~Unsealed)
       THEN KeeperEnds(k, "failed")
       ELSE KeeperGo(k, IF Initialized THEN "role" ELSE "init")
    /\ UNCHANGED <<kept, newest, node, core, luck>>

\* operator init returns the root token and the recovery keys, this once.
Initialize(k) ==
    /\ KeeperAt(k, "init")
    /\ IF node[Primary].run = "running" /\ ~Initialized
       THEN core' = [core EXCEPT !.key = node[Primary].key] /\ KeeperGo(k, "root")
       ELSE UNCHANGED core /\ KeeperEnds(k, "failed")
    /\ UNCHANGED <<kept, newest, node, luck>>

KeepRoot(k) ==
    /\ KeeperAt(k, "root")
    /\ \/ kept' = [kept EXCEPT !.root = TRUE] /\ KeeperGo(k, "kv") /\ UNCHANGED luck
       \/ UNCHANGED kept /\ KeeperEnds(k, "failed") /\ Mishap("save")
    /\ UNCHANGED <<newest, node, core>>

\* Followers join the leader by themselves once it is initialised.
Joined == {n \in Nodes : node[n] = [run |-> "running", key |-> core.key]}

EnableKV(k) ==
    /\ KeeperAt(k, "kv")
    /\ IF Unsealed
       THEN core' = [core EXCEPT !.kv = TRUE] /\ KeeperGo(k, "peers")
       ELSE UNCHANGED core /\ KeeperEnds(k, "failed")
    /\ UNCHANGED <<kept, newest, node, luck>>

WaitForPeers(k) ==
    /\ KeeperAt(k, "peers")
    /\ core' = [core EXCEPT !.joined = @ \cup (IF Unsealed THEN Joined ELSE {})]
    /\ IF core'.joined = Nodes THEN KeeperGo(k, "role") ELSE KeeperEnds(k, "failed")
    /\ UNCHANGED <<kept, newest, node, luck>>

-----------------------------------------------------------------------------
\* What the root token can do.
Reachable == kept.root /\ Unsealed

\* EnsureAppRole: the policy is written anew, with the grant for the database
\* if there is a dynamic role (a role that cannot be read passes for none).
\* Failures to keep the ids are ignored.
EnsureAppRole(k) ==
    /\ KeeperAt(k, "role") /\ Reachable
    /\ \/ core' = [core EXCEPT !.policy = IF core.dynamic THEN "db" ELSE "kv"] /\ UNCHANGED luck
       \/ core.dynamic /\ core' = [core EXCEPT !.policy = "kv"] /\ Mishap("read")
    /\ kept' = [kept EXCEPT !.role = TRUE]
    /\ KeeperEnds(k, "ready")
    /\ UNCHANGED <<newest, node>>

\* EnableDatabaseSecrets and EnableStaticRole both write the one connection of
\* the app: the first allows its own role, the second any.
Connect(k) ==
    /\ KeeperAt(k, "connect") /\ Reachable
    /\ core' = [core EXCEPT !.allowed = IF keeper[k].op = "db" THEN "role" ELSE "all"]
    /\ KeeperGo(k, "dbrole")
    /\ UNCHANGED <<kept, newest, node, luck>>

CreateRole(k) ==
    /\ KeeperAt(k, "dbrole") /\ Reachable
    /\ core' = [core EXCEPT !.dynamic = @ \/ keeper[k].op = "db",
                            !.static = @ \/ keeper[k].op = "static"]
    /\ KeeperGo(k, "grant")
    /\ UNCHANGED <<kept, newest, node, luck>>

GrantDatabase(k) ==
    /\ KeeperAt(k, "grant") /\ Reachable
    /\ core' = [core EXCEPT !.policy = "db"]
    /\ KeeperEnds(k, "ready")
    /\ UNCHANGED <<kept, newest, node, luck>>

\* Put, Get and List need the engine.
Put(k) ==
    /\ KeeperAt(k, "put") /\ Reachable
    /\ KeeperEnds(k, IF core.kv THEN "ready" ELSE "failed")
    /\ UNCHANGED <<kept, newest, node, core, luck>>

NotReachable(k) ==
    /\ keeper[k].pc \in {"role", "connect", "dbrole", "grant", "put"} /\ ~Reachable
    /\ KeeperEnds(k, "failed")
    /\ UNCHANGED <<kept, newest, node, core, luck>>

KeeperStep(k) ==
    \/ EnsureSecret(k) \/ StoreSeal(k) \/ NodesRun(k) \/ NameTaken(k)
    \/ \E n \in Nodes : NextNode(k, n) \/ RunNode(k, n)
    \/ WaitReady(k) \/ Initialize(k) \/ KeepRoot(k) \/ EnableKV(k) \/ WaitForPeers(k)
    \/ EnsureAppRole(k) \/ Connect(k) \/ CreateRole(k) \/ GrantDatabase(k) \/ Put(k)
    \/ NotReachable(k) \/ KeeperFails(k) \/ KeeperDies(k)

VaultNext ==
    \/ \E k \in Keepers : KeeperStep(k)
    \/ \E k \in Keepers, op \in {"setup", "db", "static", "put"} : StartKeeper(k, op)
    \/ \E n \in Nodes : NodeGoes(n) \/ NodeReturns(n)

-----------------------------------------------------------------------------
\* The seal key that is kept is the one that opens the barrier, so that a node
\* whose container is gone can be started again by another setup: through
\* commands and writes that fail and processes that die, though not if the key
\* could not be read or two setups ran at once.
SealKeyKept == NoneOf({"read", "race"}) /\ Initialized => kept.seal = core.key

\* Setup again, after the database was set up, keeps the app's grant for it.
GrantKept ==
    NoneOf({"read", "crash", "fault", "race"}) /\ Resting /\ core.dynamic => core.policy = "db"

\* A setup that says that it is ready has left a store that is open, with its
\* engine enabled and its root token kept.
ReadyWhenSaid ==
    NoneOf({"crash", "fault", "race"})
        => \A k \in Keepers : keeper[k].op = "setup" /\ keeper'[k].said = "ready"
            => Reachable' /\ core'.kv

\* The three together, of every step.
VaultHolds == [][SealKeyKept' /\ GrantKept' /\ ReadyWhenSaid]_vaultVars
=============================================================================
