SPECIFICATION Spec
CONSTANTS
    MaxFailures = 4
    Late = TRUE
CHECK_DEADLOCK FALSE
INVARIANTS
    TypeOK
    UpMeansRestricted
    JumpsLeadToFullChains
    RollbackRestoresIfClean
    CrashesAreCovered
PROPERTIES
    ImplementsAgentSteps
