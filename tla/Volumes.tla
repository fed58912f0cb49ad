------------------------------- MODULE Volumes -------------------------------
(***************************************************************************)
(* What becomes of an app's data when its volumes move to another path of  *)
(* the host: a deploy looks where its newest container has them mounted,   *)
(* refuses to go on, or stops that container and copies the data over.     *)
(* All of this happens before the deploy takes the lock.                   *)
(***************************************************************************)
EXTENDS Mishaps, Sequences, FiniteSets

CONSTANTS Mounts,    \* the volumes of the app
          Replicas,  \* web containers of a version: 1..Replicas
          MaxItems   \* bound: how many things the app writes

ASSUME VolumesAssumption == Replicas \in Nat \ {0} /\ MaxItems \in Nat

Paths == {"foreign", "teploy"}   \* of the mounts before, and as teploy.yml now has them
Batch == [path : Paths, up : SUBSET (1..Replicas)]

VARIABLES
    disk,      \* what each path holds of each volume
    batches,   \* the containers by version, in the order of their creation
    live,      \* the version that is routed
    items,     \* number of things written
    migration  \* the running deploy

volumeVars == <<disk, batches, live, items, migration>>

NoMigration == [pc |-> "idle", flag |-> FALSE, left |-> {}]

VolumeTypeOK ==
    /\ disk \in [Paths -> [Mounts -> SUBSET (1..MaxItems)]]
    /\ batches \in Seq(Batch) /\ Len(batches) <= MaxOps + 1
    /\ live \in DOMAIN batches
    /\ items \in 0..MaxItems
    /\ migration \in [pc : {"idle", "detect", "stop", "copy", "start", "swap"},
                      flag : BOOLEAN, left : SUBSET Mounts]

\* An app that was launched with other mounts is running.
VolumeInit ==
    /\ disk = [p \in Paths |-> [v \in Mounts |-> {}]]
    /\ batches = <<[path |-> "foreign", up |-> 1..Replicas]>>
    /\ live = 1
    /\ items = 0
    /\ migration = NoMigration

MigrationAt(label) == migration.pc = label
MigrationEnds      == migration' = NoMigration
Newest             == Len(batches)

\* docker ps -aq of the app's web containers | head -1: the container created
\* last, whether it runs or not.
Seen == Replicas

-----------------------------------------------------------------------------
\* The app writes to its volumes.
WriteItem(r) ==
    /\ r \in batches[live].up
    /\ items < MaxItems
    /\ items' = items + 1
    /\ disk' = [disk EXCEPT ![batches[live].path] = [v \in Mounts |-> @[v] \cup {items + 1}]]
    /\ IF MigrationAt("idle") \/ (live = Newest /\ r = Seen) THEN UNCHANGED luck ELSE Used({"race"})
    /\ UNCHANGED <<batches, live, migration>>

\* teploy deploy, with or without --migrate-volumes
BeginDeploy(flag) ==
    /\ MigrationAt("idle")
    /\ Begin
    /\ migration' = [NoMigration EXCEPT !.pc = "detect", !.flag = flag]
    /\ UNCHANGED <<disk, batches, live, items>>

\* teploy rollback: the other version's containers start, the live ones stop.
RollBack ==
    /\ MigrationAt("idle")
    /\ \E b \in DOMAIN batches \ {live} :
        /\ live' = b
        /\ batches' = [batches EXCEPT ![b].up = 1..Replicas, ![live].up = {}]
    /\ BeginAs({"reuse"})
    /\ UNCHANGED <<disk, items, migration>>

\* teploy start
StartApp ==
    /\ MigrationAt("idle")
    /\ batches[live].up # 1..Replicas
    /\ Begin
    /\ batches' = [batches EXCEPT ![live].up = 1..Replicas]
    /\ UNCHANGED <<disk, live, items, migration>>

\* A command fails, or the deploy dies, before the new version has a container:
\* nothing is undone.
MigrationFails ==
    /\ migration.pc \in {"detect", "stop", "copy", "start"}
    /\ Mishap("fault")
    /\ MigrationEnds
    /\ UNCHANGED <<disk, batches, live, items>>

-----------------------------------------------------------------------------
\* DetectVolumeMismatches, and what the deploy makes of the answer
DetectVolumeMismatches ==
    /\ MigrationAt("detect")
    /\ IF batches[Newest].path = "teploy"
       THEN migration' = [migration EXCEPT !.pc = "start"]
       ELSE IF migration.flag
            THEN migration' = [migration EXCEPT !.pc = "stop", !.left = Mounts]
            ELSE MigrationEnds
    /\ UNCHANGED <<disk, batches, live, items, luck>>

\* Mutant: the data is copied while the container runs.
CopyRunning ==
    /\ MigrationAt("stop")
    /\ migration' = [migration EXCEPT !.pc = "copy"]
    /\ UNCHANGED <<disk, batches, live, items, luck>>

\* MigrateVolumes stops the one container it looked at ...
StopSeen ==
    /\ MigrationAt("stop")
    /\ batches' = [batches EXCEPT ![Newest].up = @ \ {Seen}]
    /\ migration' = [migration EXCEPT !.pc = "copy"]
    /\ UNCHANGED <<disk, live, items, luck>>

\* ... and copies volume after volume (cp -a): what the target has stays.
CopyVolume(v) ==
    /\ MigrationAt("copy") /\ v \in migration.left
    /\ disk' = [disk EXCEPT !["teploy"][v] = @ \cup disk["foreign"][v]]
    /\ migration' = [migration EXCEPT !.left = @ \ {v},
                                      !.pc = IF migration.left = {v} THEN "start" ELSE "copy"]
    /\ UNCHANGED <<batches, live, items, luck>>

\* The new version starts on teploy's paths, becomes the live one, the old stops.
StartVersion ==
    /\ MigrationAt("start")
    /\ batches' = Append(batches, [path |-> "teploy", up |-> 1..Replicas])
    /\ migration' = [migration EXCEPT !.pc = "swap"]
    /\ UNCHANGED <<disk, live, items, luck>>

\* Mutant: traffic moves to a version that is unhealthy and removed.
SwapUnchecked ==
    /\ MigrationAt("swap")
    /\ live' = Newest
    /\ \/ batches' = [batches EXCEPT ![live].up = {}] /\ UNCHANGED luck
       \/ batches' = SubSeq(batches, 1, Newest - 1) /\ Mishap("fault")
    /\ MigrationEnds
    /\ UNCHANGED <<disk, items>>

SwapVersion ==
    /\ MigrationAt("swap")
    /\ \/ /\ live' = Newest
          /\ batches' = [batches EXCEPT ![live].up = {}]
          /\ UNCHANGED luck
       \/ /\ batches' = SubSeq(batches, 1, Newest - 1)   \* unhealthy: removed again
          /\ Mishap("fault")
          /\ UNCHANGED live
    /\ MigrationEnds
    /\ UNCHANGED <<disk, items>>

\* The start of a replica fails, which does not remove the replicas before it; or
\* the deploy is killed before it routes the new version, or cancelled, which
\* cancels the commands of its clean-up too.  A version that was never live is
\* the newest then.
LeaveVersion ==
    /\ \E s \in SUBSET (1..Replicas) :
        \/ /\ MigrationAt("start")
           /\ batches' = Append(batches, [path |-> "teploy", up |-> s])
        \/ /\ MigrationAt("swap")
           /\ batches' = [batches EXCEPT ![Newest].up = s]
    /\ Mishap("leftover")
    /\ MigrationEnds
    /\ UNCHANGED <<disk, live, items>>

\* It dies after: the old version has not been stopped, or not all of it.
DiesRouted ==
    /\ MigrationAt("swap")
    /\ live' = Newest
    /\ \E s \in SUBSET batches[live].up : batches' = [batches EXCEPT ![live].up = s]
    /\ Mishap("crash")
    /\ MigrationEnds
    /\ UNCHANGED <<disk, items>>

VolumeNext ==
    \/ \E r \in 1..Replicas : WriteItem(r)
    \/ \E flag \in BOOLEAN : BeginDeploy(flag)
    \/ RollBack \/ StartApp \/ MigrationFails \/ DetectVolumeMismatches \/ StopSeen
    \/ \E v \in Mounts : CopyVolume(v)
    \/ StartVersion \/ SwapVersion \/ LeaveVersion \/ DiesRouted

-----------------------------------------------------------------------------
Held(b) == [v \in Mounts |-> disk[batches[b].path][v]]

\* "An empty result means the upcoming deploy will not orphan any data": the
\* version that a deploy makes live sees all that the one before it had.
CarriesOver ==
    live' # live /\ Len(batches') = Len(batches) /\ ~MigrationAt("idle")
        => \A v \in Mounts : Held(live)[v] \subseteq Held(live')[v]

\* It does, whatever else fails or dies, unless the container looked at, the
\* newest, is not a live one: the version before had been rolled back to, or an
\* earlier deploy left containers that never became live; or another replica
\* than the one stopped writes during the copy.
DataFollows == [][luck'.had \cap {"race", "reuse", "leftover"} = {} => CarriesOver]_volumeVars
=============================================================================
