SPECIFICATION FairSpec
CONSTANTS
    MaxVersion = 3
    MaxHelpers = 2
    MaxFaults = 1
INVARIANTS
    SomeVersionSurvives
    HelperAlone
    LabelMatchesArchive
PROPERTIES
    NotRetried
    AttemptResolves
CHECK_DEADLOCK FALSE
