------------------------------ MODULE DataParts ------------------------------
(***************************************************************************)
(* The parts that keep an app's data: its accessories and their            *)
(* credentials, backups, secrets, the audit trail, its configuration.      *)
(* They share no state: in a behaviour one of them moves, so that one run  *)
(* visits the sum of their states, not the product.                        *)
(***************************************************************************)
EXTENDS Accessories, Backups, Vault, Secrets, AuditTrail, Config, TLC

VARIABLE part   \* the part that moves

CONSTANTS PartOps, PartMishaps   \* bounds of each part

Parts == {"accessories", "backups", "vault", "secrets", "audit", "config"}

ASSUME DataPartsAssumption ==
    \A p \in Parts : PartOps[p] \in 0..MaxOps /\ PartMishaps[p] \in 0..MaxMishaps

allVars == <<part, luck, envVars, backupVars, vaultVars, secretVars, auditVars, configVars>>

\* The type invariant of the part that moves.
TypeOK == /\ part \in Parts /\ LuckTypeOK
          /\ CASE part = "accessories" -> EnvTypeOK
               [] part = "backups"     -> BackupTypeOK
               [] part = "vault"       -> VaultTypeOK
               [] part = "secrets"     -> SecretTypeOK
               [] part = "audit"       -> AuditTypeOK
               [] part = "config"      -> ConfigTypeOK

Init ==
    /\ part \in Parts
    /\ luck = [ops |-> PartOps[part], left |-> PartMishaps[part], had |-> {}]
    /\ EnvInit /\ BackupInit /\ VaultInit /\ SecretInit /\ AuditInit /\ ConfigInit
    /\ part # "secrets" => dotEnv = NoneSet /\ envBlock = [k \in SecretKeys |-> "none"]

Env    == /\ part = "accessories" /\ EnvNext
          /\ UNCHANGED <<part, backupVars, vaultVars, secretVars, auditVars, configVars>>
Backup == /\ part = "backups" /\ BackupNext
          /\ UNCHANGED <<part, envVars, vaultVars, secretVars, auditVars, configVars>>
Vault_ == /\ part = "vault" /\ VaultNext
          /\ UNCHANGED <<part, envVars, backupVars, secretVars, auditVars, configVars>>
Secret == /\ part = "secrets" /\ SecretNext
          /\ UNCHANGED <<part, envVars, backupVars, vaultVars, auditVars, configVars>>
Audit  == /\ part = "audit" /\ AuditNext
          /\ UNCHANGED <<part, envVars, backupVars, vaultVars, secretVars, configVars>>
Conf   == /\ part = "config" /\ ConfigNext
          /\ UNCHANGED <<part, envVars, backupVars, vaultVars, secretVars, auditVars>>

\* No command runs and no more begins.
Rest == /\ luck.ops = 0
        /\ CASE part = "accessories" -> \A s \in Shells : ShellAt(s, "idle")
             [] part = "backups"     -> \A c \in Clerks : ClerkAt(c, "idle")
             [] part = "vault"       -> Resting
             [] part = "secrets"     -> \A h \in Hands : HandAt(h, "idle")
             [] part = "audit"       -> \A s \in Shippers : ShipperAt(s, "idle")
             [] part = "config"      -> loaded # NotLoaded
        /\ UNCHANGED allVars

Next == Env \/ Backup \/ Vault_ \/ Secret \/ Audit \/ Conf \/ Rest

Spec == Init /\ [][Next]_allVars
=============================================================================
