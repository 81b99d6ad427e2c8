SPECIFICATION Spec
SYMMETRY SameAddress
CONSTANTS
  a = a  b = b  c = c  g1 = g1  g2 = g2  s1 = s1  s2 = s2  i1 = i1  i2 = i2
  Never = Never
  Endpoint = {a, b, c}
  Group = {g1, g2}
  Source = {s1, s2}
  Ip = {i1, i2}
  IpOf <- MCIpOf
  Limits <- TightLimits
  Wire <- DirectWire
  Report <- AllKinds
  Ecn = FALSE
  RefuseNew = FALSE
  QueryInterval = 0
  RotationInterval = Never
  IdleTimeout = 1
  PruneInterval = 1
  MaxSecret = 0
INVARIANTS TypeOK Coverage ActivityMatchesState SyncedExactly ForwardingExact WithinLimits
PROPERTY ImplementsService
