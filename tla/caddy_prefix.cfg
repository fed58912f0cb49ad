\* The name of one app begins with the name of the other.
CONSTANTS
    api = api
    apiNext = apiNext
    Apps = {api, apiNext}
    Longer <- Extended
    Nums = {1, 2}
    BadNums = {}
    Clients = {p}
    Mounts = {"directory"}
    Habits = {"one per app", "deployed apps", "maintenance alone", "in time", "lone breaker"}
    MaxOps = 3
    MaxFaults = 0
    MaxCrashes = 0
SPECIFICATION Spec
PROPERTIES
    OnlyOwnBlock
