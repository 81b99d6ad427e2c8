SPECIFICATION FairSpec
CONSTANTS
  asm = asm  ssm = ssm
  Subscription = {asm}
  Capacity = 1
  Burst = 2
  DrainLimit = 2
  MaxCalls = 1
  MaxPackets = 2
  NotifyFails = FALSE
PROPERTIES PacketsDrained RelayEnds
