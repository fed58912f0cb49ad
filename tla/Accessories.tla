----------------------------- MODULE Accessories -----------------------------
(***************************************************************************)
(* What a deploy prepares before it takes the lock: it ensures that the    *)
(* app's accessory (a database) runs with its credentials, and writes the  *)
(* connection URL into the app's .env, which `teploy env` edits as well.   *)
(* The commands of several apps and clients interleave; the file in which  *)
(* lines to append are uploaded is one for all apps of the server.         *)
(***************************************************************************)
EXTENDS Mishaps, FiniteSets

CONSTANTS Tenants,   \* apps of the server, each with a database
          Shells     \* clients

\* Values of environment variables: what a user set, or a URL with a password
\* generated for an app.
NoValue   == [of |-> "nobody", num |-> 0]
UserValue == [of |-> "user", num |-> 0]
Generated == [of : Tenants, num : 1..MaxOps]
Value     == Generated \cup {NoValue, UserValue}
EnvKeys   == {"url", "own"}   \* DATABASE_URL and a key of the user's
EmptyFile == [k \in EnvKeys |-> NoValue]

ASSUME TenantAssumption == Tenants \cap {"nobody", "user"} = {}

VARIABLES
    creds,    \* the credentials file of each app's accessory
    dbPass,   \* the password its data directory was initialised with
    db,       \* its container: "absent", "exited" or "running"
    env,      \* .env of each app
    scratch,  \* /tmp/teploy_env_append, the same for all apps
    made,     \* number of passwords generated
    shell     \* the running commands

envVars == <<creds, dbPass, db, env, scratch, made, shell>>

NoShell == [pc |-> "idle", op |-> "none", app |-> "nobody", key |-> "url",
            pass |-> NoValue, seen |-> EmptyFile]

EnvTypeOK ==
    /\ creds \in [Tenants -> Generated \cup {NoValue}]
    /\ dbPass \in [Tenants -> Generated \cup {NoValue}]
    /\ db \in [Tenants -> {"absent", "exited", "running"}]
    /\ env \in [Tenants -> [EnvKeys -> Value]]
    /\ scratch \in Generated \cup {NoValue}
    /\ made \in 0..MaxOps
    /\ shell \in [Shells ->
            [pc : {"idle", "pull", "stop", "creds", "save", "inspect", "run", "read",
                   "create", "upload", "append", "edit", "write"},
             op : {"none", "deploy", "upgrade", "set", "unset"},
             app : Tenants \cup {"nobody"}, key : EnvKeys,
             pass : Generated \cup {NoValue}, seen : [EnvKeys -> Value]]]

EnvInit ==
    /\ creds = [a \in Tenants |-> NoValue]
    /\ dbPass = [a \in Tenants |-> NoValue]
    /\ db = [a \in Tenants |-> "absent"]
    /\ env = [a \in Tenants |-> EmptyFile]
    /\ scratch = NoValue
    /\ made = 0
    /\ shell = [s \in Shells |-> NoShell]

ShellAt(s, label) == shell[s].pc = label
ShellGo(s, label) == shell' = [shell EXCEPT ![s].pc = label]
ShellDone(s)      == shell' = [shell EXCEPT ![s] = NoShell]
App(s)            == shell[s].app

-----------------------------------------------------------------------------
StartShell(s, op, a, k) ==
    /\ ShellAt(s, "idle")
    /\ BeginAs(IF \E x \in Shells : ~ShellAt(x, "idle") THEN {"race"} ELSE {})
    /\ shell' = [shell EXCEPT ![s] =
                    [NoShell EXCEPT !.op = op, !.app = a, !.key = k,
                                    !.pc = CASE op = "deploy"  -> "creds"
                                             [] op = "upgrade" -> "pull"
                                             [] OTHER          -> "edit"]]
    /\ UNCHANGED <<creds, dbPass, db, env, scratch, made>>

\* A command fails and ends, with nothing done.
ShellFails(s) ==
    /\ shell[s].pc \in {"pull", "inspect", "run", "create", "upload", "append", "edit", "write"}
    /\ Mishap("fault")
    /\ ShellDone(s)
    /\ UNCHANGED <<creds, dbPass, db, env, scratch, made>>

ShellDies(s) ==
    /\ ~ShellAt(s, "idle")
    /\ Mishap("crash")
    /\ ShellDone(s)
    /\ UNCHANGED <<creds, dbPass, db, env, scratch, made>>

\* teploy accessory stop, start
StopDb(a) ==
    /\ db[a] = "running" /\ Begin
    /\ db' = [db EXCEPT ![a] = "exited"]
    /\ UNCHANGED <<creds, dbPass, env, scratch, made, shell>>

StartDb(a) ==
    /\ db[a] = "exited" /\ Begin
    /\ db' = [db EXCEPT ![a] = "running"]
    /\ UNCHANGED <<creds, dbPass, env, scratch, made, shell>>

\* Upgrade: docker pull; docker stop and rm, whose errors are ignored
PullImage(s) ==
    /\ ShellAt(s, "pull")
    /\ ShellGo(s, "stop")
    /\ UNCHANGED <<creds, dbPass, db, env, scratch, made, luck>>

RemoveDb(s) ==
    /\ ShellAt(s, "stop")
    /\ ShellGo(s, "creds")
    /\ \/ db' = [db EXCEPT ![App(s)] = "absent"] /\ UNCHANGED luck
       \/ /\ db[App(s)] # "absent"
          /\ db' \in {db, [db EXCEPT ![App(s)] = "exited"]}
          /\ Mishap("clean")
    /\ UNCHANGED <<creds, dbPass, env, scratch, made>>

\* Mutant: a new password is generated even if one is stored.
RegenerateCredentials(s) ==
    /\ ShellAt(s, "creds")
    /\ made' = made + 1
    /\ shell' = [shell EXCEPT ![s].pc = "save",
                              ![s].pass = [of |-> App(s), num |-> made + 1]]
    /\ UNCHANGED <<creds, dbPass, db, env, scratch, luck>>

\* resolveEnv of an "auto" value: the stored password, or a new one.  A file
\* that cannot be read passes for a missing one.
ResolveEnv(s) ==
    /\ ShellAt(s, "creds")
    /\ \/ /\ creds[App(s)] # NoValue
          /\ shell' = [shell EXCEPT ![s].pc = "inspect", ![s].pass = creds[App(s)]]
          /\ UNCHANGED <<made, luck>>
       \/ /\ IF creds[App(s)] = NoValue THEN UNCHANGED luck ELSE Mishap("read")
          /\ made' = made + 1
          /\ shell' = [shell EXCEPT ![s].pc = "save",
                                    ![s].pass = [of |-> App(s), num |-> made + 1]]
    /\ UNCHANGED <<creds, dbPass, db, env, scratch>>

\* Upload truncates the file before it writes: when it fails the file may be empty.
SaveCredentials(s) ==
    /\ ShellAt(s, "save")
    /\ \/ creds' = [creds EXCEPT ![App(s)] = shell[s].pass] /\ ShellGo(s, "inspect") /\ UNCHANGED luck
       \/ /\ creds' \in {creds, [creds EXCEPT ![App(s)] = NoValue]}
          /\ ShellDone(s)
          /\ Mishap("save")
    /\ UNCHANGED <<dbPass, db, env, scratch, made>>

Injected(s) == IF shell[s].op = "deploy" THEN ShellGo(s, "read") ELSE ShellDone(s)

\* EnsureRunning leaves a running container alone and removes any other
\* (docker rm -f).
InspectDb(s) ==
    /\ ShellAt(s, "inspect")
    /\ IF db[App(s)] = "running"
       THEN Injected(s) /\ UNCHANGED db
       ELSE ShellGo(s, "run") /\ db' = [db EXCEPT ![App(s)] = "absent"]
    /\ UNCHANGED <<creds, dbPass, env, scratch, made, luck>>

\* docker run; an empty data directory is initialised with the password, one
\* that has data keeps the password it has.  The name may have been taken.
RunDb(s) ==
    /\ ShellAt(s, "run")
    /\ IF db[App(s)] = "absent"
       THEN /\ db' = [db EXCEPT ![App(s)] = "running"]
            /\ dbPass' = [dbPass EXCEPT ![App(s)] = IF @ = NoValue THEN shell[s].pass ELSE @]
            /\ Injected(s)
       ELSE ShellDone(s) /\ UNCHANGED <<db, dbPass>>
    /\ UNCHANGED <<creds, env, scratch, made, luck>>

-----------------------------------------------------------------------------
\* InjectEnvVars reads .env.  A read that fails passes for an empty file, and
\* an empty file is written, not appended to.
ReadEnvFile(s) ==
    /\ ShellAt(s, "read")
    /\ \E seen \in {env[App(s)], EmptyFile} :
        /\ IF seen = env[App(s)] THEN UNCHANGED luck ELSE Mishap("read")
        /\ CASE seen["url"] # NoValue -> ShellDone(s)
             [] seen = EmptyFile      -> ShellGo(s, "create")
             [] OTHER                 -> ShellGo(s, "upload")
    /\ UNCHANGED <<creds, dbPass, db, env, scratch, made>>

CreateEnvFile(s) ==
    /\ ShellAt(s, "create")
    /\ ShellDone(s)
    /\ \/ env' = [env EXCEPT ![App(s)] = [EmptyFile EXCEPT !["url"] = shell[s].pass]] /\ UNCHANGED luck
       \/ env' = [env EXCEPT ![App(s)] = EmptyFile] /\ Mishap("save")
    /\ UNCHANGED <<creds, dbPass, db, scratch, made>>

UploadLines(s) ==
    /\ ShellAt(s, "upload")
    /\ scratch' = shell[s].pass
    /\ ShellGo(s, "append")
    /\ UNCHANGED <<creds, dbPass, db, env, made, luck>>

\* cat tmp >> .env && rm -f tmp, of whatever is in the file by now; of two
\* lines for one key docker takes the last.
AppendLines(s) ==
    /\ ShellAt(s, "append")
    /\ IF scratch = NoValue
       THEN UNCHANGED <<env, scratch>>
       ELSE /\ env' = [env EXCEPT ![App(s)]["url"] = scratch]
            /\ scratch' = NoValue
    /\ ShellDone(s)
    /\ UNCHANGED <<creds, dbPass, db, made, luck>>

\* teploy env set, unset: a failed read ends it.
ReadToEdit(s) ==
    /\ ShellAt(s, "edit")
    /\ IF shell[s].op = "unset" /\ env[App(s)][shell[s].key] = NoValue
       THEN ShellDone(s)
       ELSE shell' = [shell EXCEPT ![s].pc = "write", ![s].seen = env[App(s)]]
    /\ UNCHANGED <<creds, dbPass, db, env, scratch, made, luck>>

WriteEdited(s) ==
    /\ ShellAt(s, "write")
    /\ ShellDone(s)
    /\ \/ /\ env' = [env EXCEPT ![App(s)] =
                        [shell[s].seen EXCEPT ![shell[s].key] =
                            IF shell[s].op = "set" THEN UserValue ELSE NoValue]]
          /\ UNCHANGED luck
       \/ env' = [env EXCEPT ![App(s)] = EmptyFile] /\ Mishap("save")
    /\ UNCHANGED <<creds, dbPass, db, scratch, made>>

ShellStep(s) ==
    \/ PullImage(s) \/ RemoveDb(s) \/ ResolveEnv(s) \/ SaveCredentials(s) \/ InspectDb(s)
    \/ RunDb(s) \/ ReadEnvFile(s) \/ CreateEnvFile(s) \/ UploadLines(s) \/ AppendLines(s)
    \/ ReadToEdit(s) \/ WriteEdited(s) \/ ShellFails(s) \/ ShellDies(s)

EnvNext ==
    \/ \E s \in Shells : ShellStep(s)
    \/ \E s \in Shells, a \in Tenants, op \in {"deploy", "upgrade"} : StartShell(s, op, a, "url")
    \/ \E s \in Shells, a \in Tenants, k \in EnvKeys, op \in {"set", "unset"} : StartShell(s, op, a, k)
    \/ \E a \in Tenants : StopDb(a) \/ StartDb(a)

-----------------------------------------------------------------------------
\* "Existing keys are never overwritten - user values always win": what a
\* deploy does to .env leaves every value alone that was there before.
KeepsValues ==
    \A a \in Tenants, k \in EnvKeys :
        /\ env[a][k] # NoValue /\ env'[a][k] # env[a][k]
        => \E s \in Shells : ShellAt(s, "write") /\ App(s) = a

\* It takes a read that fails, or another command at the same time, to lose one.
ValuesWinUndisturbed == luck'.had \cap {"read", "race"} = {} => KeepsValues

\* The URL a deploy has written opens the database: its password is the one the
\* app's own data directory was initialised with, through failed and killed
\* deploys, upgrades, stops and edits of .env.
UrlOpensDb ==
    NoneOf({"read", "race"})
        => \A a \in Tenants : env[a]["url"] \in {NoValue, UserValue, dbPass[a]}

\* Both, of every step: what deploys write to .env opens the database and costs
\* the user nothing.
CredentialsHold == [][ValuesWinUndisturbed /\ UrlOpensDb']_envVars
=============================================================================
