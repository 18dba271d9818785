SPECIFICATION Spec
CONSTANTS
  NumRecords = 4
  Outer <- OuterOf
  Member <- MemberOf
  Class <- ClassOf
  Name <- NameOf
  Identity <- IdentityOf
  Catalogs <- CatalogStates
  Selections <- Picks
  Options <- Modes
  Retentions <- Kept
  MaxEdits = 1
  MaxForeign = 1
INVARIANTS
  AuthorizedIsExact
  NothingUnreported
  CompleteIsPublished
