\* One push, and nothing goes wrong.
CONSTANTS
    j1 = j1
    Jobs = {j1}
    MaxPushes = 1
    Matching = {1}
    Budget <- NoChances
    MaxKinds = 4
SPECIFICATION FairSpec
PROPERTIES
    EveryPushRedeploys
