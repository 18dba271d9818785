\* Three threads, two keys and three calls: an owner, a joiner that is slow to
\* leave, a caller that arrives in between, a second flight of the same key in
\* a freed cell.  No symmetry, which liveness checking forbids.
SPECIFICATION Spec
CONSTANTS
  Threads = {t1, t2, t3}
  Keys = {k1, k2}
  Cells = {c1, c2}
  Values = {"bytes"}
  NoKey = NoKey  NoCell = NoCell  NoValue = NoValue
  MaxCalls = 3
INVARIANTS
  OneExecutionPerKey
  NoUseAfterFree
  OutcomeForMyKey
PROPERTIES
  EveryCallReturns
  ResultStable
