SPECIFICATION FairSpec
CONSTANTS
    SecretStates <- OnlyDocumented
PROPERTIES
    DocumentedSecretStarts
CHECK_DEADLOCK FALSE
