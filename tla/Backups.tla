------------------------------- MODULE Backups -------------------------------
(***************************************************************************)
(* Backups of an app's volumes and databases: dump, upload and prune;      *)
(* restore, through a staging directory or through a pipe; verification in *)
(* a scratch container; and the cron entries that are to take backups by   *)
(* themselves.  Commands of several clients interleave on one server.      *)
(***************************************************************************)
EXTENDS Mishaps, FiniteSets

CONSTANTS
    Stores,      \* what is backed up: the volumes or an accessory of an app
    Style,       \* of each: "volumes", "tar" (other accessories) or "sql" (a pipe)
    Clerks,      \* clients
    KeepLast, MaxAge,   \* retention
    Older        \* backups of each store to begin with

ASSUME BackupsAssumption ==
    /\ Style \in [Stores -> {"volumes", "tar", "sql"}]
    /\ "nobody" \notin Stores
    /\ {KeepLast, MaxAge, Older} \subseteq Nat

Now   == Older + MaxOps - luck.ops   \* the second, one for each operation
Times == 0..(Older + MaxOps)

\* The contents of a store at a time, none at all (it was set up anew), or those
\* of no use: half of a copy, or a mixture of two.
Useless  == [of |-> "nobody", num |-> 0]
Blank    == [of |-> "nobody", num |-> 1]
Contents == [of : Stores, num : Times] \cup {Blank}

\* An archive, and whether it is whole; NoArchive is a file that is not there.
Archive   == [at : Times, data : Contents \cup {Useless}, whole : BOOLEAN]
NoArchive == [at |-> 0, data |-> Useless, whole |-> FALSE]

VARIABLES
    held,     \* what each store holds
    bucket,   \* the archives of each in S3
    loadTmp,  \* /tmp/restore.sql.gz, /tmp/restore.tar.gz, /tmp/<app>-volumes-restore.tar.gz
    stage,    \* the staging directory of each store
    proofTmp, \* /var/tmp/teploy-verify-<app>-<name>
    rig,      \* the scratch container of each store: what it holds, or nothing
    job,      \* the cron entry of each store, and how its last firing went
    clerk     \* the running commands

backupVars == <<held, bucket, loadTmp, stage, proofTmp, rig, job, clerk>>
files == <<loadTmp, stage, proofTmp, rig>>

LoadPaths   == {"sql", "tar"} \cup Stores
LoadPath(s) == IF Style[s] = "volumes" THEN s ELSE Style[s]

NoClerk == [pc |-> "idle", op |-> "none", store |-> "nobody", at |-> 0,
            data |-> Useless, list |-> {}, said |-> "nothing"]

BackupTypeOK ==
    /\ held \in [Stores -> Contents \cup {Useless}]
    /\ DOMAIN bucket = Stores /\ \A s \in Stores : bucket[s] \subseteq Archive
    /\ loadTmp \in [LoadPaths -> Archive]
    /\ stage \in [Stores -> Contents \cup {Useless}]
    /\ proofTmp \in [Stores -> Archive]
    /\ rig \in [Stores -> Contents \cup {Useless}]
    /\ job \in [Stores -> {"none", "set", "started", "nothing"}]
    /\ clerk \in [Clerks ->
          [pc : {"idle", "dump", "upload", "list", "delete", "download", "load", "extract",
                 "promote", "clear", "fetch", "boot", "fill", "judge", "strip"},
           op : {"none", "backup", "prune", "restore", "verify"},
           store : Stores \cup {"nobody"}, at : Times, data : Contents \cup {Useless},
           list : SUBSET Times, said : {"nothing", "complete", "OK", "FAILED"}]]

\* The stores have been written to since their last backup.
BackupInit ==
    /\ held = [s \in Stores |-> [of |-> s, num |-> 0]]
    /\ bucket = [s \in Stores |->
                    {[at |-> t, data |-> [of |-> s, num |-> t], whole |-> TRUE] : t \in 1..Older}]
    /\ loadTmp = [p \in LoadPaths |-> NoArchive]
    /\ stage = [s \in Stores |-> Useless]
    /\ proofTmp = [s \in Stores |-> NoArchive]
    /\ rig = [s \in Stores |-> Useless]
    /\ job = [s \in Stores |-> "none"]
    /\ clerk = [c \in Clerks |-> NoClerk]

Store(c) == clerk[c].store
ClerkAt(c, label) == clerk[c].pc = label
ClerkGo(c, label) == clerk' = [clerk EXCEPT ![c].pc = label]
ClerkEnds(c, said) == clerk' = [clerk EXCEPT ![c] =
                        [NoClerk EXCEPT !.op = clerk[c].op, !.store = Store(c),
                                        !.at = clerk[c].at, !.said = said]]

\* Two restores through one file, or two verifications of one store.
Rivals(op, s) == \E c \in Clerks :
    /\ ~ClerkAt(c, "idle") /\ clerk[c].op = op
    /\ \/ op = "restore" /\ LoadPath(Store(c)) = LoadPath(s)
       \/ op = "verify" /\ Store(c) = s

StartClerk(c, op, label, s, at) ==
    /\ ClerkAt(c, "idle")
    /\ BeginAs(IF Rivals(op, s) THEN {"race"} ELSE {})
    /\ clerk' = [clerk EXCEPT ![c] = [NoClerk EXCEPT !.pc = label, !.op = op, !.store = s,
                                                     !.at = at]]

\* The app writes to a store.
Write(s) ==
    /\ Begin
    /\ held' = [held EXCEPT ![s] = [of |-> s, num |-> Now']]
    /\ UNCHANGED <<bucket, files, job, clerk>>

\* The store is set up anew: on another server, or its data are thrown away.
SetUpAnew(s) ==
    /\ Begin
    /\ held' = [held EXCEPT ![s] = Blank]
    /\ UNCHANGED <<bucket, files, job, clerk>>

\* An archive in the bucket is spoiled.
Spoil(s) ==
    /\ Mishap("rot")
    /\ \E a \in bucket[s] :
          a.whole /\ bucket' = [bucket EXCEPT ![s] = (@ \ {a}) \cup {[a EXCEPT !.whole = FALSE]}]
    /\ UNCHANGED <<held, files, job, clerk>>

\* A command fails and ends; what it had made in /tmp is removed or has a name
\* of its own.  An upload that fails leaves nothing in the bucket.
ClerkFails(c) ==
    /\ clerk[c].pc \in {"dump", "upload", "list", "delete", "download"}
    /\ Mishap("fault")
    /\ ClerkEnds(c, "nothing")
    /\ UNCHANGED <<held, bucket, files, job>>

\* A client dies, or is interrupted: the clean-up that does not heed the
\* interruption is then no different from one that fails.
ClerkDies(c) ==
    /\ ~ClerkAt(c, "idle")
    /\ Mishap("crash")
    /\ ClerkEnds(c, "nothing")
    /\ UNCHANGED <<held, bucket, files, job>>

-----------------------------------------------------------------------------
\* BackupVolumes, AccessoryBackup: dump to a file named after the second, upload it.
StartBackup(c, s) ==
    /\ StartClerk(c, "backup", "dump", s, Now')
    /\ UNCHANGED <<held, bucket, files, job>>

Dump(c) ==
    /\ ClerkAt(c, "dump")
    /\ clerk' = [clerk EXCEPT ![c].pc = "upload", ![c].data = held[Store(c)]]
    /\ UNCHANGED <<held, bucket, files, job, luck>>

\* Retention applies to volumes, and only after a backup that succeeded.
UploadArchive(c) ==
    /\ ClerkAt(c, "upload")
    /\ bucket' = [bucket EXCEPT ![Store(c)] =
                    @ \cup {[at |-> clerk[c].at, data |-> clerk[c].data, whole |-> TRUE]}]
    /\ IF Style[Store(c)] = "volumes" /\ KeepLast + MaxAge > 0
       THEN ClerkGo(c, "list")
       ELSE ClerkEnds(c, "complete")
    /\ UNCHANGED <<held, files, job, luck>>

StartPruning(c, s) ==
    /\ KeepLast + MaxAge > 0
    /\ StartClerk(c, "prune", "list", s, 0)
    /\ UNCHANGED <<held, bucket, files, job>>

\* selectForDeletion
SelectForDeletion(times) ==
    {t \in times : /\ Cardinality({x \in times : x > t}) >= KeepLast
                   /\ MaxAge > 0 => Now - t > MaxAge}

ListBackups(c) ==
    /\ ClerkAt(c, "list")
    /\ clerk' = [clerk EXCEPT ![c].pc = "delete",
                    ![c].list = SelectForDeletion({a.at : a \in bucket[Store(c)]})]
    /\ UNCHANGED <<held, bucket, files, job, luck>>

\* One s3 rm for each, newest first.
DeleteBackup(c) ==
    /\ ClerkAt(c, "delete")
    /\ IF clerk[c].list = {}
       THEN ClerkEnds(c, "complete") /\ UNCHANGED bucket
       ELSE LET t == CHOOSE x \in clerk[c].list : \A y \in clerk[c].list : y <= x
            IN /\ bucket' = [bucket EXCEPT ![Store(c)] = {a \in @ : a.at # t}]
               /\ clerk' = [clerk EXCEPT ![c].list = @ \ {t}]
    /\ UNCHANGED <<held, files, job, luck>>

-----------------------------------------------------------------------------
\* RestoreVolumes, AccessoryRestore of the backup of a given second
StartRestore(c, s, at) ==
    /\ StartClerk(c, "restore", "download", s, at)
    /\ UNCHANGED <<held, bucket, files, job>>

Fetched(c) == {a \in bucket[Store(c)] : a.at = clerk[c].at}

Download(c) ==
    /\ ClerkAt(c, "download")
    /\ IF Fetched(c) = {}
       THEN ClerkEnds(c, "nothing") /\ UNCHANGED loadTmp
       ELSE /\ \E a \in Fetched(c) : loadTmp' = [loadTmp EXCEPT ![LoadPath(Store(c))] = a]
            /\ ClerkGo(c, IF Style[Store(c)] = "sql" THEN "load" ELSE "extract")
    /\ UNCHANGED <<held, bucket, stage, proofTmp, rig, job, luck>>

\* What a database holds once a dump is piped into it.  Empty, it takes what comes,
\* a part if the file is cut short.  One that has data need not: psql goes on after
\* a statement that fails (the table is there), so that all stays or rows mix; the
\* dumps of mysqldump drop the tables they bring, and others stay beside them.
Loaded(now, file) ==
    IF file = NoArchive THEN {now}
    ELSE {IF file.whole THEN file.data ELSE Useless}
           \cup (IF now = Blank THEN {} ELSE {now, Useless})

\* gunzip -c file | docker exec -i ... psql (mysql): the status is the last
\* command's, so a file that is missing or cut short is no error, and the command
\* goes on to its end.  It leaves the file when the last one fails.
Load(c) ==
    /\ ClerkAt(c, "load")
    /\ \/ /\ \E d \in Loaded(held[Store(c)], loadTmp["sql"]) : held' = [held EXCEPT ![Store(c)] = d]
          /\ loadTmp' = [loadTmp EXCEPT !["sql"] = NoArchive]
          /\ ClerkEnds(c, "complete")
          /\ UNCHANGED luck
       \/ /\ Mishap("fault")
          /\ held' \in {held, [held EXCEPT ![Store(c)] = Useless]}
          /\ ClerkEnds(c, "nothing") /\ UNCHANGED loadTmp
    /\ UNCHANGED <<bucket, stage, proofTmp, rig, job>>

\* extractToStagingThenPromote: only an archive that is whole gets past this.
Extract(c) ==
    LET file == loadTmp[LoadPath(Store(c))] IN
    /\ ClerkAt(c, "extract")
    /\ stage' = [stage EXCEPT ![Store(c)] = IF file.whole THEN file.data ELSE Useless]
    /\ ClerkGo(c, IF file.whole THEN "promote" ELSE "clear")
    /\ UNCHANGED <<held, bucket, loadTmp, proofTmp, rig, job, luck>>

\* The live directory is emptied and the staged files copied into it; a copy
\* that fails leaves it half filled.
Promote(c) ==
    /\ ClerkAt(c, "promote")
    /\ \/ /\ held' = [held EXCEPT ![Store(c)] = stage[Store(c)]]
          /\ clerk' = [clerk EXCEPT ![c].pc = "clear", ![c].said = "complete"]
          /\ UNCHANGED luck
       \/ /\ Mishap("save")
          /\ held' = [held EXCEPT ![Store(c)] = Useless]
          /\ ClerkGo(c, "clear")
    /\ UNCHANGED <<bucket, files, job>>

\* The archive and the staging directory are removed, whatever happened.
Clear(c) ==
    /\ ClerkAt(c, "clear")
    /\ \/ /\ stage' = [stage EXCEPT ![Store(c)] = Useless]
          /\ loadTmp' = [loadTmp EXCEPT ![LoadPath(Store(c))] = NoArchive]
          /\ UNCHANGED luck
       \/ Mishap("clean") /\ UNCHANGED <<stage, loadTmp>>
    /\ ClerkEnds(c, clerk[c].said)
    /\ UNCHANGED <<held, bucket, proofTmp, rig, job>>

-----------------------------------------------------------------------------
\* VerifyBackup of an accessory's latest backup: a scratch container that is
\* left over is removed first.
StartVerify(c, s) ==
    /\ Style[s] # "volumes"
    /\ bucket[s] # {}
    /\ StartClerk(c, "verify", "fetch", s,
                  CHOOSE t \in {a.at : a \in bucket[s]} : \A a \in bucket[s] : a.at <= t)
    /\ rig' = [rig EXCEPT ![s] = Useless]
    /\ UNCHANGED <<held, bucket, loadTmp, stage, proofTmp, job>>

\* Mutant: a download that fails is not noticed.
FetchOrNot(c) ==
    /\ ClerkAt(c, "fetch")
    /\ \/ \E a \in Fetched(c) : proofTmp' = [proofTmp EXCEPT ![Store(c)] = a]
       \/ UNCHANGED proofTmp
    /\ ClerkGo(c, "fill")
    /\ UNCHANGED <<held, bucket, loadTmp, stage, rig, job, luck>>

Fetch(c) ==
    /\ ClerkAt(c, "fetch")
    /\ IF Fetched(c) = {}
       THEN clerk' = [clerk EXCEPT ![c].pc = "strip", ![c].said = "FAILED"] /\ UNCHANGED proofTmp
       ELSE /\ \E a \in Fetched(c) : proofTmp' = [proofTmp EXCEPT ![Store(c)] = a]
            /\ ClerkGo(c, "fill")
    /\ UNCHANGED <<held, bucket, loadTmp, stage, rig, job, luck>>

\* It is loaded into a container of its own.  A tar that is not whole fails; a
\* dump that is not may fail or bring some of the tables, which is enough.
Fill(c) ==
    LET file == proofTmp[Store(c)] IN
    /\ ClerkAt(c, "fill")
    /\ \/ /\ file # NoArchive /\ (Style[Store(c)] = "sql" \/ file.whole)
          /\ rig' = [rig EXCEPT ![Store(c)] = file.data]
          /\ clerk' = [clerk EXCEPT ![c].pc = "strip", ![c].said = "OK"]
          /\ UNCHANGED luck
       \/ /\ IF file.whole THEN Mishap("fault") ELSE UNCHANGED luck
          /\ clerk' = [clerk EXCEPT ![c].pc = "strip", ![c].said = "FAILED"]
          /\ UNCHANGED rig
    /\ UNCHANGED <<held, bucket, loadTmp, stage, proofTmp, job>>

Strip(c) ==
    /\ ClerkAt(c, "strip")
    /\ \/ /\ rig' = [rig EXCEPT ![Store(c)] = Useless]
          /\ proofTmp' = [proofTmp EXCEPT ![Store(c)] = NoArchive]
          /\ UNCHANGED luck
       \/ Mishap("clean") /\ UNCHANGED <<rig, proofTmp>>
    /\ ClerkEnds(c, clerk[c].said)
    /\ UNCHANGED <<held, bucket, loadTmp, stage, job>>

-----------------------------------------------------------------------------
\* SetSchedule rewrites the crontab; a crontab that cannot be read passes for
\* an empty one, and the other entries are gone.
SetSchedule(s) ==
    /\ Begin
    /\ job' = [job EXCEPT ![s] = "set"]
    /\ UNCHANGED <<held, bucket, files, clerk>>

SetScheduleUnread(s) ==
    /\ luck.ops > 0 /\ luck.left > 0
    /\ luck' = [luck EXCEPT !.ops = @ - 1, !.left = @ - 1, !.had = @ \cup {"read"}]
    /\ job' = [x \in Stores |-> IF x = s THEN "set" ELSE "none"]
    /\ UNCHANGED <<held, bucket, files, clerk>>

\* cron runs the entry.  An accessory's runs `teploy accessory backup --local`.
\* The one for volumes has a date format in it, whose % cron takes for the end
\* of the command: the shell is given half a word and runs nothing of the rest.
CronFires(c, s) ==
    /\ job[s] # "none"
    /\ IF Style[s] = "volumes"
       THEN job' = [job EXCEPT ![s] = "nothing"] /\ UNCHANGED clerk /\ Begin
       ELSE job' = [job EXCEPT ![s] = "started"] /\ StartClerk(c, "backup", "dump", s, Now')
    /\ UNCHANGED <<held, bucket, files>>

ClerkStep(c) ==
    \/ Dump(c) \/ UploadArchive(c) \/ ListBackups(c) \/ DeleteBackup(c)
    \/ Download(c) \/ Load(c) \/ Extract(c) \/ Promote(c) \/ Clear(c)
    \/ Fetch(c) \/ Fill(c) \/ Strip(c)
    \/ ClerkFails(c) \/ ClerkDies(c)

BackupNext ==
    \/ \E c \in Clerks : ClerkStep(c)
    \/ \E c \in Clerks, s \in Stores :
          \/ StartBackup(c, s) \/ StartPruning(c, s) \/ StartVerify(c, s) \/ CronFires(c, s)
          \/ \E at \in 1..Now : StartRestore(c, s, at)
    \/ \E s \in Stores : Write(s) \/ SetUpAnew(s) \/ Spoil(s) \/ SetSchedule(s) \/ SetScheduleUnread(s)

-----------------------------------------------------------------------------
\* "KeepLast is a floor": the backups a prune removes are never among the
\* newest KeepLast of the store, even if others are taken or pruned meanwhile.
FloorKept ==
    \A s \in Stores : \A a \in bucket[s] :
        LET left == {b.at : b \in bucket'[s]}
        IN  a.at \notin left => Cardinality({t \in left : t > a.at}) >= KeepLast

\* A restore that says it is complete has left in the store what the backup
\* with that date holds (of a database: if it was empty); and one that fails for
\* a spoiled archive has left the live data as they were, so that no store is ever
\* half restored.
RestoreSaysTrue ==
    NoneOf({"race"}) /\ luck' = luck
        => \A c \in Clerks :
            /\ clerk[c].op = "restore" /\ clerk'[c].said = "complete" /\ clerk[c].said # "complete"
               /\ (Style[Store(c)] = "sql" => NoneOf({"rot"}) /\ held[Store(c)] = Blank)
               => \A a \in Fetched(c) : held'[Store(c)] = a.data
            /\ ClerkAt(c, "extract") /\ clerk'[c] # clerk[c] => held' = held

\* A backup that is said to be usable was whole, and it is the one in the
\* bucket under that date that was tried, not one left by an earlier run.
VerifiedIsWhole ==
    NoneOf({"race"})
        => \A c \in Clerks :
            /\ clerk'[c].said = "OK" /\ clerk[c].said # "OK"
            /\ (Style[Store(c)] = "sql" => NoneOf({"rot"}))
            => /\ proofTmp[Store(c)].whole
               /\ \A a \in Fetched(c) : rig'[Store(c)] = a.data

\* The three together, of every step: the backups one counts on are there, and
\* what is said of them and of the restored data is true.
BackupsHold == [][FloorKept /\ RestoreSaysTrue /\ VerifiedIsWhole]_backupVars
=============================================================================
