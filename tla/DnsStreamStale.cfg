\* Two reads in one call of the callback.
CONSTANTS
  BufSize = 4
  Lengths <- Fitting
  MaxLines = 3
SPECIFICATION Spec
INVARIANTS
  WholeLines
\* The writer may exit.
CHECK_DEADLOCK FALSE
