\* Five sources, a table of four slots that grows to eight, two epochs before
\* the wrap, three processes and one failed recording.
SPECIFICATION ResidencySpec
CONSTANTS
  Sources <- MCSources
  Size <- MCSize
  Hash <- MCHash
  InitialCapacity = 4
  EpochLimit = 3
  MaxBytes = 12
  Budgets <- MCBudgets
  MaxProcesses = 3
  MaxFailures = 1
INVARIANTS
  ResidencyBounded
  TableIsWindow
