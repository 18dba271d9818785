\* Flow analyses of some 4700 programs, lifts of 315 straight line ones and the
\* directives of some 2700 passes.
SPECIFICATION Spec
CONSTANTS
    MaxFlowDepth = 2
    Lanes <- MCLanes
    Registers <- MCRegisters
    Context <- LiftContext
    Programs <- MCPrograms
    Baselines <- MCBaselines
    MaxCandidates = 4
    MaxCompiles = 4
    MaxControls = 2
    Stages <- MCStages
    Passes <- MCPasses
INVARIANTS
    FlowIsExact
    WritersAreExact
    LiftsPreserveOutputs
    AcceptedIsAccounted
    RequestsRunTheirBody
    LinkedStagesAgree
PROPERTIES
    LateAnswersDiscarded
    AttestedContractIsSource
