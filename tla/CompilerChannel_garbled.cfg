\* Expected to fail: an entry whose payload does not decode stays.
SPECIFICATION Spec
CONSTANTS
  Roots = {"A", "B"}
  Headers = {"h"}
  Requests = {"start", "pre"}
  Kind <- MCKind
  RootOf <- MCRootOf
  Scanned <- MCScanned
  Reads <- MCReads
  ApisOf <- MCApisOf
  Apis = {1}
  Modes <- GarbledMode
  None = None
  NoProcess = NoProcess
  MaxEdits = 0
  MaxRequests = 1
PROPERTIES
  UndecodableReplaced
