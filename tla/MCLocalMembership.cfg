SPECIFICATION FairSpec
CONSTANTS
  h1 = h1  h2 = h2  g1 = g1  g2 = g2  s1 = s1  s2 = s2  i1 = i1
  Endpoint = {h1}
  Group = {g1, g2}
  Source = {s1, s2}
  Ip = {i1}
  IpOf <- MCIpOf
  Limits <- MCLimits
  Want <- MCWant
  Joins <- MCJoins
  Exportable = {g1}
  QueryInterval = 2
  MaxResponse = 3
  ReporterTimeout = 7
  PruneInterval = 2
  Robustness = 2
  HostsLeave = TRUE
INVARIANT RequestsExact
PROPERTIES HostsTimed RecordsFollowHosts
