SPECIFICATION Spec
CONSTANTS
    MaxOps = 4
    MaxMishaps = 2
    PartOps <- OpsOfPart
    PartMishaps <- MishapsOfPart
    Hashes = {h1, h2, h3}
    KeepReleases = 2
    b1 = b1
    b2 = b2
    b3 = b3
    l1 = l1
    l2 = l2
    Branches = {b1, b2, b3}
    Labels = {l1, l2}
    Sanitize <- SanitizeTwo
    Extends <- ExtendsOne
    Commits = {w1, w2}
    Users = {u1, u2}
    Webs = {w1, w2}
    Database = db
    MaxAttempts = 2
    NumMachines = 3
    Balancers = {lb1}
    Heads = 2
    Flagged = {1}
    Slots = {2}
    Rollouts <- OneThenHalf
    Mounts = {data, cache}
    Replicas = 2
    MaxItems = 3
SYMMETRY Sym
INVARIANTS
    TypeOK
    SiteHolds
PROPERTIES
    PreviewsHold
    UpkeepHolds
    FleetAgrees
    DataFollows
