SPECIFICATION FairSpec
CONSTANTS
    Profiles = 2
    TotalTime = 2
    TotalOutput = 3
    ProfileTime = 1
    ProfileOutput = 1
    ShutdownTime = 1
    MaxWrites = 2
    MaxElapsed = 2
    MaxEdits = 1
INVARIANT OutputIsCharged
INVARIANT EntriesFollow
PROPERTY AcceptedIsWhole
PROPERTY ReleasedIsOfOneState
PROPERTY OrchestrationEnds
