SPECIFICATION Spec
CONSTANTS
  OamBytes = 2
  BlockBytes = 6
  VramBlocks = 2
  Pages = {1}
  Blocks = {1, 2}
  Modes = {"GeneralPurpose", "HBlank"}
  CpuOps = {"HDMA4", "HDMA5", "HALT"}
  SpeedModes = {"Normal", "Double"}
  VisibleLines = 2
  Lines = 3
  LineDots = 40
  HBlankDot = 21
PROPERTIES
  BytesInSequence
  CompletedBlockIsPublished
