SPECIFICATION Spec
CONSTANTS
  PacketBits = 2
  Meanings <- MCMeanings
  TotalFrames = 2
  FadeFrames = 3
  PressVectors <- MCPressVectors
  WireBound = 9
  None = None
INVARIANTS
  BorderIsWhole
  JoypadFollowsSelection
PROPERTIES
  TransferRunsOut
  PacketIsFramed
  GameBorderAppears
