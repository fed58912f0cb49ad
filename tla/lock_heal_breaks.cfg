CONSTANTS
    Deploys = {d1}
    Heals = {h1}
    Freezers = {}
    Unlockers = {}
SPECIFICATION Spec
PROPERTIES
    HealNeverBreaksDeploy
