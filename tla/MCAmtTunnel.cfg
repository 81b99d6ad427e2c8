SPECIFICATION TunnelSpec
CONSTANTS
  r1 = r1
  a1 = a1
  a2 = a2
  g1 = g1
  g2 = g2
  s1 = s1
  Endpoint = {a1, a2}
  Group = {g1, g2}
  Source = {s1}
  Ip <- MCIp
  IpOf <- MCIpOf
  Limits <- MCLimits
  RelayAddr = {r1}
  Family <- MCFamily
  Unusable = {}
  Nonce = {1, 2, 3, 4, 5, 6}
  Candidates <- MCCandidates
  Want <- MCWantOne
  QueryTimeout = 1
  RefreshEvery = 1
  Suggested = {0}
  RetryInitial = 1
  RetryMax = 1
  MaxAttempt = 0
  Variants <- MCPlain
  Carried = {"Discovery", "Advertisement", "Request", "Query", "Update", "Teardown"}
  MaxInFlight = 1
  Wire <- MCWire
  Report = {}
  Addresses <- MCAddresses
  IdleTimeout = 2
  MaxDisruptions = 1
PROPERTY WantedPacketsFlow StateFollowsGateway
