\* Two stores at a time, in one process or in two, for one digest with two
\* possible payloads; one crash, damaged or unreadable entry in between.
SPECIFICATION Spec
CONSTANTS
  p1 = p1  p2 = p2
  t1 = t1  t2 = t2  t3 = t3
  Procs = {p1, p2}
  Threads <- TwoThreads
  Deployments <- TwoThreadDeployments
  Digests = {"d1"}
  Payloads = {"a", "b"}
  Nobody = Nobody
  Attempts = 2
  MaxStores = 3
  MaxFaults = 1
INVARIANTS
  AcceptedIsPublished
PROPERTIES
  HitsAgree
  NoPartialEntry
  EveryStoreReturns
