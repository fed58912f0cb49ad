\* Host ingress, the state of a rollback cannot be written.
CONSTANTS
    Versions = {v1, v2}
    Workers = {}
    Replicas = {1}
    Ingresses = {"host"}
    Pins = {}
    KeepVersions = 0
    MaxOps = 3
    MaxFaults = 1
    MaxCrashes = 0
    Habits = {{"alone", "new", "not previous", "same workers", "to previous", "to stopped"}}
SPECIFICATION Spec
PROPERTIES
    RollbackLeavesOriginal
