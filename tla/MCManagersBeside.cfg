SPECIFICATION FairSpec
CONSTANTS
    g1 = g1
    old = old
    new = new
    devTag = devTag
    None = None
    Absent = Absent
    Foreign = Foreign
    Classes = {}
    Servers = {}
    Settings = {}
    Groups = {g1}
    Images <- MCImages
    Configs = {}
    Tags <- MCTags
    Specs <- QuietSpecs
    LastManager = 2
    BuildVersion <- TwoBuilds
    LeaderElect = FALSE
    MayDelete = FALSE
    MaxVersions = 2
    MaxFaults = 0
PROPERTIES
    LatestPrevails
CHECK_DEADLOCK FALSE
