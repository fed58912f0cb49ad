\* Three deploys, two heal passes, an operator who freezes, one who unlocks.
CONSTANTS
    Deploys = {d1, d2, d3}
    Heals = {h1, h2}
    Freezers = {f1}
    Unlockers = {u1}
SPECIFICATION CalmSpec
SYMMETRY Symmetry
INVARIANTS
    TypeOK
    CalmInv
    MutualExclusion
PROPERTIES
    FreezeIsPermanent
    HealNeverBreaksDeploy
    ImplementsAppLock
