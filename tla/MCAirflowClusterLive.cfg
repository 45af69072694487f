SPECIFICATION FairSpec
CONSTANTS
    g1 = g1
    g2 = g2
    corp = corp
    ldap1 = ldap1
    ldap2 = ldap2
    image1 = image1
    quiet = quiet
    userA = userA
    None = None
    Absent = Absent
    Classes = {corp}
    Servers = {ldap1, ldap2}
    Settings <- MCSettings
    Groups = {g1, g2}
    Images = {image1}
    Configs = {quiet}
    Specs <- LiveSpecs
    ClassStates <- MovingClassStates
    MayDelete = FALSE
    MaxVersions = 2
    MaxFaults = 1
INVARIANTS
    WebserversNeverRest

    
CHECK_DEADLOCK FALSE
