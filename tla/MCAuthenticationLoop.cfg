SPECIFICATION Spec
CONSTANTS
    c1 = c1
    c2 = c2
    ldap1 = ldap1
    ldap2 = ldap2
    userA = userA
    userB = userB
    None = None
    Classes = {c1, c2}
    Servers <- MCServers
    Settings <- MCSettings
    AuthLists <- MCAuthLists
    ClassStates <- MCClassStates
    MaxEdits = 1
INVARIANTS
    TypeOK
    ResultAsSpecified
CHECK_DEADLOCK FALSE
