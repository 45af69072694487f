SPECIFICATION FairSpec
CONSTANTS
    image1 = image1
    image2 = image2
    None = None
    Absent = Absent
    Images = {image1, image2}
    Specs <- VerboseSpecs
    MaxReplicas = 2
    MaxVersions = 2
    MaxFaults = 1
PROPERTIES
    DocumentedLevelsRun
CHECK_DEADLOCK FALSE
