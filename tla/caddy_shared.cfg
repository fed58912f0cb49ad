\* Two commands at a time on two apps of one server, whose Caddyfile Caddy sees
\* or, where its container has mounted the file itself, does not: one command
\* may fail, one process may die, Caddy may restart at any time, and may reject
\* the block of every second deploy.
CONSTANTS
    api = api
    apiNext = apiNext
    Apps = {api, apiNext}
    Longer <- Unrelated
    Nums = {1, 2}
    BadNums = {2}
    Clients = {p, q}
    Mounts = {"directory", "file"}
    Habits = {"one per app", "deployed apps", "maintenance alone", "in time", "lone breaker", "calm boots", "mortal if sound"}
    MaxOps = 4
    MaxFaults = 1
    MaxCrashes = 1
SPECIFICATION BoundSpec
SYMMETRY Symmetry
INVARIANTS
    TypeOK
    NoDeadRoute
    FileIsLive
    ServesLatest
    StashKeepsRoute
PROPERTIES
    OnlyOwnBlock
    OffShowsRoute
