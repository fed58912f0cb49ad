\* Two pushes, two deliveries at a time; whatever can happen, happens once.
CONSTANTS
    j1 = j1
    j2 = j2
    Jobs = {j1, j2}
    MaxPushes = 2
    Matching = {2}
    Budget <- EachOnce
    MaxKinds = 3
SPECIFICATION Spec
SYMMETRY Symmetry
INVARIANTS
    TypeOK
    TriggeredOnce
    NoneLost
    ImageIsVersion
    LockIsOwn
