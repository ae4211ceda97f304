SPECIFICATION Spec
CONSTANTS
  ByteBits = 2
  MESSAGE_PREFIX = 1
  REGION_PREFIX = 2
  ACK_OKAY = 2
  RegionCode = 3
  Regions = {3}
  FixedRegions = {1}
  Payloads <- MCPayloads
  GamePayload <- MCGamePayload
  MaxLen = 2
  MaxNoise = 1
  MaxPicks = 1
  None = None
INVARIANTS
  BlockIsIntact
  CompletionMeansDelivered
PROPERTY
  NeverStuck
