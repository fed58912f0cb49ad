\* One or two replicas, whatever each deploy's config asks for: with careful
\* use one command may fail and one process die, else any two fail and one dies.
CONSTANTS
    v1 = v1
    v2 = v2
    v3 = v3
    Versions = {v1, v2, v3}
    Workers = {job}
    Replicas = {1, 2}
    Ingresses = {"caddy", "external", "host"}
    Pins = {v1}
    KeepVersions = 1
    MaxOps = 4
    MaxFaults = 2
    MaxCrashes = 2
    Habits <- Uses
SPECIFICATION BoundSpec
INVARIANTS
    TypeOK
    NoOutage
    RoutedRuns
    StateTellsServing
    OnlyCurrentRuns
    RollbackTargetKept
PROPERTIES
    PruneSparesTargets
    HostStaysUp
