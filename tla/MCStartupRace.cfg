SPECIFICATION FairSpec
CONSTANTS
    p1 = p1
    p2 = p2
    Nobody = Nobody
    Process <- TwoProcesses
    MaxCrashes = 2
INVARIANTS TypeOK ServesCompleteDatabase VersionMatchesSchema
PROPERTIES PasswordSurvives NewerUntouched EveryoneServes
CHECK_DEADLOCK FALSE
