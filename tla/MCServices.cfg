SPECIFICATION SuiteSpec
CONSTANTS
  u1 = u1  u2 = u2  u3 = u3
  Subscription <- MCSubscription
  e4 = e4  e6 = e6  f1 = f1  f2 = f2  f3 = f3  f4 = f4  f5 = f5
  r1 = r1  r2 = r2  r3 = r3  r4 = r4
  Ip = {i1, i2, i3}
  Cost = 2
  Rate = 1
  Burst = 4
  GlobalRate = 3
  GlobalBurst = 6
  Capacity = 2
  Cleanup = 3
  AgeCap = 6
  Endpoint = {e4, e6}  OuterFamily <- MCOuterFamily  EcnGateway = {e4}
  Flow = {f1, f2, f3, f4, f5}  Interests <- MCInterests  Packets <- MCPackets
  PathMtu = 1280  FeedbackFamily = {4}  Interval = 2  MaxFlows = 2  Remarks <- MCRemarks
  MaxFileBytes = 4  HeaderBytes = 1  RowBytes = {2, 3}  MaxTotal = 2  MaxRuns = 2
INVARIANTS AdmissionExact DeliveredWhole FeedbackSound
PROPERTIES ReconcileSound MetricsKept CandidatesTakeTurns
