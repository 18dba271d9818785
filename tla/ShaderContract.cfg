SPECIFICATION Spec
CONSTANTS
    Rows <- MCRows
    HelperPasses = {1}
    MaxCompiles = 13
    MaxCandidates = 2
    MaxRevisions = 2
    MaxEdits = 1
    MaxFaults = 1
    Quirks <- MCQuirks
INVARIANTS
    AcceptedUnderPin
    CapturedIsOneSubject
    LogicalIsExact
    PassedIsBuilt
