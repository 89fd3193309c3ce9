CONSTANTS
  a = a
  b = b
  c = c
  p = p
  s1 = s1
  s2 = s2
  n1 = n1
  h1 = h1
  h2 = h2
  ip1 = ip1
  ip2 = ip2
  Ids <- MCIds
  Addresses <- MCAddresses
  Lossy = FALSE
  Masters <- MCMasters
  Servers <- MCServers
  Names <- MCNames
  Q2 <- MCQ2
  HostnameOf <- MCHostnameOf
  AddressOf <- MCAddressOf
  Located <- MCLocated
  ServersAt <- MCServersAt
  NamesAt <- MCNamesAt
  ServerOf <- MCServerOf
  HostOf <- MCHostOf
  JobInputs <- MCJobInputs
  MaxSimultaneous = 3
  RefreshOnUpdate = TRUE
  ResolveOnUpdate = TRUE
  MaxJobs = 2
SPECIFICATION Spec
INVARIANT
  AtMostOneQ2
CHECK_DEADLOCK FALSE
