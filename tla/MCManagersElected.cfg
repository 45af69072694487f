SPECIFICATION FairSpec
CONSTANTS
    g1 = g1
    old = old
    new = new
    devTag = devTag
    None = None
    Absent = Absent
    Foreign = Foreign
    Classes = {}
    Servers = {}
    Settings = {}
    Groups = {g1}
    Images <- MCImages
    Configs = {}
    Tags <- MCTags
    Specs <- ElectedSpecs
    LastManager = 2
    BuildVersion <- TwoBuilds
    LeaderElect = TRUE
    MayDelete = TRUE
    MaxVersions = 2
    MaxFaults = 1
INVARIANTS
    TypeOK
    WebserversKeepBusy
PROPERTIES
    NoManagerRollsBack
    NoManagerResurrects
    ImplementsUpkeep
    LatestPrevails
CHECK_DEADLOCK FALSE
