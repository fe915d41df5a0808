\* One float is one byte; rates are in frames per tenth of a second.
CONSTANTS
  Dup = 4
  OutRate = 12
  FloatBytes = 1
  Low = 3
  Setups <- MCSetups
SPECIFICATION QueueSpec
INVARIANTS
  Seamless
  StreamInv
  ChannelsKept
  LatencyBounded
