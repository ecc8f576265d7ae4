CONSTANTS
    Servers = {1, 2}
    Programs <- MCPrograms
    Clients = {p1, p2}
    Pids = {1, 2}
    MaxKills = 1
    None = None
    Manifests <- MCManifests
    Profiles <- MCProfiles
SPECIFICATION FairSpec
INVARIANTS
    TypeOK
    PathIsServed
    PassedIsGenuine
    PlanIsExact
PROPERTIES
    ImplementsLifecycle
    CommandEnds
CHECK_DEADLOCK FALSE
