SPECIFICATION Spec
CONSTANTS
  asm = asm  ssm = ssm
  Subscription = {asm,ssm}
  Capacity = 2
  Burst = 2
  DrainLimit = 2
  MaxCalls = 1
  MaxPackets = 3
  NotifyFails = TRUE
INVARIANTS QueueCounted NoLostWakeup PacketsAccounted
PROPERTY SubscriptionsOwned
