SPECIFICATION MuteSpec
CONSTANTS
  g1 = g1  g2 = g2  asm = asm
  r1 = r1  r2 = r2  r3 = r3
  k1 = k1  k2 = k2
  Sources = 3
  Interests <- Changing
  SsmGroup = {g1, g2}
  MaxTunnels = 2
  MaxWorkers = 1
  Thread = {t1, t2, t3}
  Ttls = {0, 3}
  MinRefresh = 1
  MaxRefresh = 2
  RetryDelays = {1}
  LookupTicks = 1
  Failures = TRUE
  Relay = {r1, r2, r3}  Allowed = {r1, r2, r3}  Redirect <- Shared
  Anycast <- NoAnycast  DnsResults <- SelectResults  NoRelayResult = TRUE
  Moods <- SelectMoods  Report = {1, 2}
  Ttl = 1  Delay = 1  MaxProbes = 2  QueryTimeout = 2  RefreshInterval = 2
  HoldDown = 2  TrafficInitial = 1  TrafficMax = 2  RetryMax = 2  Rtt = 1
  Faults = TRUE  EveryTick = FALSE  Duplicates = TRUE
PROPERTY MuteIsLeftAtAnyRefresh
