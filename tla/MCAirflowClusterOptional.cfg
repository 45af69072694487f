SPECIFICATION FairSpec
CONSTANTS
    g1 = g1
    g2 = g2
    corp = corp
    ldap1 = ldap1
    ldap2 = ldap2
    image1 = image1
    quiet = quiet
    userA = userA
    None = None
    Absent = Absent
    Classes = {corp}
    Servers = {ldap1}
    Settings <- MCSettings
    Groups = {g1}
    Images = {image1}
    Configs = {quiet}
    Specs <- OptionalSpecs
    ClassStates <- OneClassState
    MayDelete = FALSE
    MaxVersions = 1
    MaxFaults = 0
PROPERTIES
    OptionalRolesReconcile
CHECK_DEADLOCK FALSE
