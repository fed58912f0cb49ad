\* A rollback runs while a deploy does.
CONSTANTS
    Versions = {v1, v2, v3}
    Workers = {}
    Replicas = {1}
    Ingresses = {"caddy"}
    Pins = {}
    KeepVersions = 1
    MaxOps = 4
    MaxFaults = 0
    MaxCrashes = 0
    Habits = {{"new", "not previous", "same workers", "to previous", "to stopped"}}
SPECIFICATION Spec
PROPERTIES
    PruneSparesTargets
