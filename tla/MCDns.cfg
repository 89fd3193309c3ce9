\* One machine at a time, with its fairness.
CONSTANTS
  host = host
  addr = addr
  Ids <- MCIds
  Addresses <- MCAddresses
  MaxChildren = 2
  MaxAsked = 3
  MaxCancels = 1
  BufSize = 4
  Lengths <- MCLengths
  MaxLines = 4
SPECIFICATION EitherSpec
INVARIANTS
  SlotsCounted
  WholeUnlessStale
PROPERTIES
  IsResolver
  Drains
  Returns
\* The helper rests in select once everything is answered; the writer may exit.
CHECK_DEADLOCK FALSE
