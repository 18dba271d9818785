\* Three threads, one request, two edits (so that the inputs can return).
SPECIFICATION Spec
CONSTANTS
  Threads = {t1, t2, t3}
  Requests = {r1}
  Cells = {c1, c2}
  MaxCalls = 3
  MaxEdits = 2
  None = None
  Failure = Failure
  NoKey = NoKey
  NoCell = NoCell
  NoValue = NoValue
PROPERTIES
  CallersSeeOracle
SYMMETRY Symmetric
