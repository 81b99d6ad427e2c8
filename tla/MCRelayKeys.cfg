SPECIFICATION FairSpec
CONSTANTS
  a = a  b = b  c = c  g1 = g1  g2 = g2  s1 = s1  s2 = s2  i1 = i1  i2 = i2
  Never = Never
  Endpoint = {a, b}
  Group = {g1}
  Source = {s1}
  Ip = {i1, i2}
  IpOf <- MCIpOf
  Limits <- OneGateway
  Wire <- DirectWire
  Report <- JoinAndLeave
  Ecn = TRUE
  RefuseNew = FALSE
  QueryInterval = 1
  RotationInterval = 2
  IdleTimeout = 2
  PruneInterval = 1
  MaxSecret = 2
INVARIANT MacHonoured
PROPERTIES SilentGatewayExpires MembershipAuthenticated
