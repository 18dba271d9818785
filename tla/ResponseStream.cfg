SPECIFICATION Spec
CONSTANTS
  Responses <- AllResponses
  Strays <- StrayFrames
  MaxItems = 2
  MaxRequests = 2
INVARIANTS
  Aligned
  Understood
  ContractsComplete
