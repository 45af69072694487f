SPECIFICATION FairSpec
CONSTANTS
    SecretStates <- CodeOrDocumented
INVARIANTS
    TypeOK
    ShutdownAfterMain
    SchedulerAfterMigration
    ToldBeforeUntrap
PROPERTIES
    CleanExit
    GracefulStop
