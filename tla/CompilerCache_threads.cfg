\* Expected to fail: two threads in one process and one in another; closing the
\* lock file in one thread drops the lock the other thread relies on.
SPECIFICATION Spec
CONSTANTS
  p1 = p1  p2 = p2
  t1 = t1  t2 = t2  t3 = t3
  Procs = {p1, p2}
  Threads <- ThreeThreads
  Deployments <- MixedDeployment
  Digests = {"d1", "d2"}
  Payloads = {"a"}
  Nobody = Nobody
  Attempts = 3
  MaxStores = 3
  MaxFaults = 0
PROPERTIES
  PublishedNeverReplaced
