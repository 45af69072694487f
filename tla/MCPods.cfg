SPECIFICATION FairSpec
CONSTANTS
    image1 = image1
    image2 = image2
    None = None
    Absent = Absent
    Images = {image1, image2}
    Specs <- MCSpecs
    MaxReplicas = 2
    MaxVersions = 3
    MaxFaults = 1
INVARIANTS
    TypeOK
    SettingsSinceTemplate
    RestMeansAsAsked
PROPERTIES
    LatestSettingsRun
CHECK_DEADLOCK FALSE
