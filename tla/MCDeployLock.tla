---------------------------- MODULE MCDeployLock ----------------------------
(* Instances of DeployLock for TLC.                                        *)
EXTENDS DeployLock, TLC

\* Processes of one kind are interchangeable.
Symmetry == Permutations(Deploys) \cup Permutations(Heals)
==============================================================================
