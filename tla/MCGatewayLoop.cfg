SPECIFICATION FairSpec
CONSTANTS
  r1 = r1
  r2 = r2
  r3 = r3
  a1 = a1
  a2 = a2
  g1 = g1
  g2 = g2
  s1 = s1
  Endpoint = {a1, a2}
  Group = {g1, g2}
  Source = {s1}
  Ip <- MCIp
  IpOf <- MCIpOf
  Limits <- MCLimits
  RelayAddr <- MCRelays
  Family <- MCFamily
  Unusable = {}
  Nonce = {1, 2, 3, 4, 5, 6}
  Candidates <- MCCandidates
  Want <- MCWantFew
  QueryTimeout = 1
  RefreshEvery = 1
  Suggested = {0}
  RetryInitial = 1
  RetryMax = 1
  MaxAttempt = 0
  Variants <- MCAllVariants
  Carried = {"Discovery", "Request"}
  MaxInFlight = 1
INVARIANTS TimersCover AdvertisedIsDesired WelcomedOnly
PROPERTIES CredentialsRight EveryCandidateTried
