------------------------------- MODULE Secrets -------------------------------
(***************************************************************************)
(* How a value reaches a container's environment: from the app's .env,     *)
(* from the env block of teploy.yml, from a reference of it to OpenBao, or *)
(* from the age-encrypted store of `teploy secret`.  Every deploy writes   *)
(* the last three to one file, .deploy-env, before it takes the lock, and  *)
(* docker run reads that file later.                                       *)
(***************************************************************************)
EXTENDS Mishaps, FiniteSets

CONSTANTS SecretKeys, Hands   \* environment variables; clients

\* Values: none, one that a command has set, the one of teploy.yml, the one of
\* .env, and a file cut short that age does not decrypt.
None     == 0
Stored   == 1..MaxOps
Yml      == MaxOps + 1
DotEnv   == MaxOps + 2
Ruined   == MaxOps + 3
EnvValue == 0..MaxOps + 3
NoneSet  == [k \in SecretKeys |-> None]

VARIABLES
    envBlock,   \* env of teploy.yml: "none", "plain" or "secret:" (a reference)
    dotEnv,     \* .env of the app, which teploy env edits
    ageKey,     \* /deployments/.age-key exists
    store,      \* secrets/<KEY>.age, by what it decrypts to
    bao,        \* the secrets in OpenBao
    deployEnv,  \* .deploy-env
    container,  \* environment of the running container; NoneSet before the first
    minted,     \* number of values set so far
    hand        \* the running commands

secretVars == <<envBlock, dotEnv, ageKey, store, bao, deployEnv, container, minted, hand>>

FreeHand == [pc |-> "idle", op |-> "none", left |-> {}, got |-> NoneSet, file |-> FALSE]

SecretTypeOK ==
    /\ envBlock \in [SecretKeys -> {"none", "plain", "secret:"}]
    /\ dotEnv \in [SecretKeys -> {None, DotEnv}]
    /\ ageKey \in BOOLEAN
    /\ store \in [SecretKeys -> EnvValue] /\ bao \in [SecretKeys -> {None} \cup Stored]
    /\ deployEnv \in [SecretKeys -> EnvValue] /\ container \in [SecretKeys -> EnvValue]
    /\ minted \in 0..MaxOps
    /\ hand \in [Hands -> [pc : {"idle", "exists", "key", "encrypt", "put", "rm",
                                 "list", "get", "resolve", "upload", "run"},
                           op : {"none", "set", "rotate", "put", "rm", "deploy"},
                           left : SUBSET SecretKeys, got : [SecretKeys -> EnvValue],
                           file : BOOLEAN]]

SecretInit ==
    /\ envBlock \in [SecretKeys -> {"none", "plain", "secret:"}]
    /\ dotEnv \in [SecretKeys -> {None, DotEnv}]
    /\ ageKey = FALSE
    /\ store = NoneSet /\ bao = NoneSet /\ deployEnv = NoneSet /\ container = NoneSet
    /\ minted = 0
    /\ hand = [h \in Hands |-> FreeHand]

HandAt(h, label)  == hand[h].pc = label
HandGo(h, label)  == hand' = [hand EXCEPT ![h].pc = label]
HandDone(h)       == hand' = [hand EXCEPT ![h] = FreeHand]
Refs              == {k \in SecretKeys : envBlock[k] = "secret:"}
Key(h)            == CHOOSE k \in hand[h].left : TRUE

-----------------------------------------------------------------------------
\* teploy secret set, rotate, rm of a key, secret put, and a deploy
Take(h, op, k) ==
    /\ HandAt(h, "idle")
    /\ BeginAs(IF \E x \in Hands : ~HandAt(x, "idle") THEN {"race"} ELSE {})
    /\ hand' = [hand EXCEPT ![h] = [FreeHand EXCEPT
                    !.op = op, !.left = IF op = "deploy" THEN {} ELSE {k},
                    !.pc = CASE op = "set"    -> "key"
                             [] op = "rotate" -> "exists"
                             [] op = "deploy" -> "list"
                             [] OTHER         -> op]]
    /\ UNCHANGED <<envBlock, dotEnv, ageKey, store, bao, deployEnv, container, minted>>

HandFails(h) ==
    /\ hand[h].pc \in {"key", "encrypt", "put", "rm", "get", "resolve", "upload", "run"}
    /\ Mishap("fault")
    /\ HandDone(h)
    /\ UNCHANGED <<envBlock, dotEnv, ageKey, store, bao, deployEnv, container, minted>>

\* Rotate refuses a key that is not set.
RotateExisting(h) ==
    /\ HandAt(h, "exists")
    /\ IF store[Key(h)] = None THEN HandDone(h) ELSE HandGo(h, "key")
    /\ UNCHANGED <<envBlock, dotEnv, ageKey, store, bao, deployEnv, container, minted, luck>>

\* ensureKey: age-keygen does not overwrite a key that is there.
EnsureKey(h) ==
    /\ HandAt(h, "key")
    /\ ageKey' = TRUE
    /\ HandGo(h, "encrypt")
    /\ UNCHANGED <<envBlock, dotEnv, store, bao, deployEnv, container, minted, luck>>

\* printf | age -o: the file is written in place, and may be cut short.
Encrypt(h) ==
    /\ HandAt(h, "encrypt")
    /\ minted' = minted + 1
    /\ \/ store' = [store EXCEPT ![Key(h)] = minted + 1] /\ UNCHANGED luck
       \/ store' = [store EXCEPT ![Key(h)] = Ruined] /\ Mishap("save")
    /\ HandDone(h)
    /\ UNCHANGED <<envBlock, dotEnv, ageKey, bao, deployEnv, container>>

PutBao(h) ==
    /\ HandAt(h, "put")
    /\ minted' = minted + 1
    /\ bao' = [bao EXCEPT ![Key(h)] = minted + 1]
    /\ HandDone(h)
    /\ UNCHANGED <<envBlock, dotEnv, ageKey, store, deployEnv, container, luck>>

Remove(h) ==
    /\ HandAt(h, "rm")
    /\ store' = [store EXCEPT ![Key(h)] = None]
    /\ HandDone(h)
    /\ UNCHANGED <<envBlock, dotEnv, ageKey, bao, deployEnv, container, minted, luck>>

-----------------------------------------------------------------------------
\* DecryptAll lists the keys and then decrypts each.
ListSecrets(h) ==
    /\ HandAt(h, "list")
    /\ LET seen == {k \in SecretKeys : store[k] # None}
       IN  hand' = [hand EXCEPT ![h].pc = IF seen = {} THEN "resolve" ELSE "get", ![h].left = seen]
    /\ UNCHANGED <<envBlock, dotEnv, ageKey, store, bao, deployEnv, container, minted, luck>>

\* A list that cannot be read passes for an empty one; DecryptAll then returns
\* a nil map, and merging a reference into that panics.
ListUnread(h) ==
    /\ HandAt(h, "list")
    /\ Mishap("read")
    /\ IF Refs # {} THEN HandDone(h) ELSE HandGo(h, "upload")
    /\ UNCHANGED <<envBlock, dotEnv, ageKey, store, bao, deployEnv, container, minted>>

\* A secret that is gone, or does not decrypt, fails the deploy.
GetSecret(h) ==
    /\ HandAt(h, "get")
    /\ \E k \in hand[h].left :
        IF store[k] \in {None, Ruined}
        THEN HandDone(h)
        ELSE hand' = [hand EXCEPT ![h].got[k] = store[k],
                                  ![h].left = @ \ {k},
                                  ![h].pc = IF hand[h].left = {k} THEN "resolve" ELSE "get"]
    /\ UNCHANGED <<envBlock, dotEnv, ageKey, store, bao, deployEnv, container, minted, luck>>

\* mergeSecretVaultRefs: what a reference resolves to wins over the local secret.
ResolveRefs(h) ==
    /\ HandAt(h, "resolve")
    /\ IF \E k \in Refs : bao[k] = None
       THEN HandDone(h)
       ELSE hand' = [hand EXCEPT ![h].pc = "upload",
                         ![h].got = [k \in SecretKeys |-> IF k \in Refs THEN bao[k] ELSE @[k]]]
    /\ UNCHANGED <<envBlock, dotEnv, ageKey, store, bao, deployEnv, container, minted, luck>>

\* Mutant: the env block is merged over the secrets.
MergedBlockFirst(h) ==
    [k \in SecretKeys |-> IF envBlock[k] = "plain" THEN Yml ELSE hand[h].got[k]]

\* The secrets are merged over the env block ...
Merged(h) ==
    [k \in SecretKeys |-> IF hand[h].got[k] # None THEN hand[h].got[k]
                          ELSE IF envBlock[k] = "plain" THEN Yml ELSE None]

\* ... and uploaded, if there is anything: a file that is there from an earlier
\* deploy is not used then.
UploadEnv(h) ==
    /\ HandAt(h, "upload")
    /\ deployEnv' = IF Merged(h) = NoneSet THEN deployEnv ELSE Merged(h)
    /\ hand' = [hand EXCEPT ![h].pc = "run", ![h].file = Merged(h) # NoneSet]
    /\ UNCHANGED <<envBlock, dotEnv, ageKey, store, bao, container, minted, luck>>

\* docker run --env-file .env --env-file .deploy-env: of two values the later counts.
\* A `test -f` of .env that fails, whatever for, leaves the first one out.
RunContainer(h) ==
    /\ HandAt(h, "run")
    /\ \E plain \in {dotEnv, NoneSet} :
        /\ container' = [k \in SecretKeys |->
                IF hand[h].file /\ deployEnv[k] # None THEN deployEnv[k] ELSE plain[k]]
        /\ IF plain = dotEnv THEN UNCHANGED luck ELSE Mishap("read")
    /\ HandDone(h)
    /\ UNCHANGED <<envBlock, dotEnv, ageKey, store, bao, deployEnv, minted>>

\* A deploy that has uploaded its file does not get the lock.
LoseLock(h) ==
    /\ HandAt(h, "run")
    /\ \E x \in Hands \ {h} : hand[x].op = "deploy" /\ HandAt(x, "run")
    /\ HandDone(h)
    /\ UNCHANGED <<envBlock, dotEnv, ageKey, store, bao, deployEnv, container, minted, luck>>

SecretNext ==
    \/ \E h \in Hands : \/ RotateExisting(h) \/ EnsureKey(h) \/ Encrypt(h) \/ PutBao(h) \/ Remove(h)
                        \/ ListSecrets(h) \/ ListUnread(h) \/ GetSecret(h) \/ ResolveRefs(h) \/ UploadEnv(h)
                        \/ RunContainer(h) \/ LoseLock(h) \/ HandFails(h)
    \/ \E h \in Hands, k \in SecretKeys, op \in {"set", "rotate", "put", "rm"} : Take(h, op, k)
    \/ \E h \in Hands : Take(h, "deploy", CHOOSE k \in SecretKeys : TRUE)

-----------------------------------------------------------------------------
\* What a variable should be: the secret OpenBao has if teploy.yml refers to
\* it, else the stored secret, else the env block's value, else .env's.
Wanted(k) == IF k \in Refs THEN bao[k]
             ELSE IF store[k] # None THEN store[k]
             ELSE IF envBlock[k] = "plain" THEN Yml ELSE dotEnv[k]

\* "Secrets set via `teploy secret` override these key-for-key": a container
\* starts with the value each variable should have, whatever failed or was cut
\* short before - unless the list of secrets or .env could not be read, or commands
\* ran at the same time (they share .deploy-env).
SecretsArrive ==
    [][container' # container /\ luck'.had \cap {"race", "read"} = {}
          => \A k \in SecretKeys : container'[k] = Wanted(k)]_secretVars
=============================================================================
