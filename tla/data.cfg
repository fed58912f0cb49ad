SPECIFICATION Spec
CONSTANTS
    MaxOps = 4
    MaxMishaps = 2
    PartOps <- OpsOfPart
    PartMishaps <- MishapsOfPart
    Tenants = {t1, t2}
    Shells = {p1, p2}
    vol = vol
    acc = acc
    Stores = {vol, acc}
    Style <- VolumesAndSql
    Clerks = {p1, p2}
    KeepLast = 1
    MaxAge = 0
    Older = 2
    Nodes = {n0, n1}
    Primary = n0
    Keepers = {p1, p2}
    SecretKeys = {k1, k2}
    Hands = {p1, p2}
    Shippers = {p1, p2}
    MaxLines = 3
    BaseSize = 2
    OverlaySize = 1
SYMMETRY Sym
INVARIANTS
    TypeOK
    TrailIsTrue
    OverlayIsMerged
PROPERTIES
    CredentialsHold
    BackupsHold
    VaultHolds
    SecretsArrive
