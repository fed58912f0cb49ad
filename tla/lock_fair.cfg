\* Any process may die and any command fail, at any time.
CONSTANTS
    Deploys = {d1, d2}
    Heals = {h1}
    Freezers = {f1}
    Unlockers = {u1}
SPECIFICATION FairSpec
PROPERTIES
    DeadLockIsBroken
