CONSTANTS
  a = a
  b = b
  c = c
  p = p
  s1 = s1
  s2 = s2
  n1 = n1
  h1 = h1
  h2 = h2
  ip1 = ip1
  ip2 = ip2
  Ids <- MCIds
  Addresses <- MCAddresses
  Lossy = TRUE
  Masters <- MCMasters
  Servers <- MCServers
  Names <- MCNames
  Q2 <- MCQ2
  HostnameOf <- MCHostnameOf
  AddressOf <- MCAddressOf
  Located <- MCLocated
  ServersAt <- MCServersAt
  NamesAt <- MCNamesAt
  ServerOf <- MCServerOf
  HostOf <- MCHostOf
  JobInputs <- MCJobInputs
  MaxSimultaneous = 2
  RefreshOnUpdate = TRUE
  ResolveOnUpdate = TRUE
  MaxJobs = 3
SPECIFICATION Spec
INVARIANTS
  TypeOK
  PhaseOrder
  ReportedOnce
  NothingMissed
  Q2Bounded
  LookupsCounted
PROPERTY
  KeepsPromise
\* With MaxJobs jobs done the system rests.
CHECK_DEADLOCK FALSE
