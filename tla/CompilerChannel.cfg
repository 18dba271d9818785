\* Every entry point, requests with and without the header in either
\* directory, every environment, two capability records, two requests in a row
\* and two edits at any moment.
SPECIFICATION Spec
CONSTANTS
  Roots = {"A", "B"}
  Headers = {"h"}
  Requests = {"start", "pre", "preBlind", "plain", "other", "ser", "dis", "cap", "preC", "comC"}
  Kind <- MCKind
  RootOf <- MCRootOf
  Scanned <- MCScanned
  Reads <- MCReads
  ApisOf <- MCApisOf
  Apis = {1, 2}
  Modes <- AllModes
  None = None
  NoProcess = NoProcess
  MaxEdits = 2
  MaxRequests = 2
INVARIANTS
  CacheSound
  NativeCacheAuthorized
  NoCommandUnderMismatch
PROPERTIES
  AnswersAreCurrent
