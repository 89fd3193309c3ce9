SPECIFICATION Spec
SYMMETRY Pointers
\* After a stray answer freed memory may be used.
CHECK_DEADLOCK FALSE
CONSTANTS
  s1 = s1
  s2 = s2
  h1 = h1
  Sid = {s1, s2}
  Host = {h1}
  Port = {26000, 27500}
  Name = {"n"}
  NamePort = 26000
  Kept = {}
  Many = 1
  MaxLost = 1
INVARIANTS
  ReferencesExact
  OneAtAddress
