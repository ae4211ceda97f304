SPECIFICATION FairSpec
CONSTANTS
  OamBytes = 1
  BlockBytes = 6
  VramBlocks = 2
  Pages = {1}
  Blocks = {2}
  Modes = {"GeneralPurpose", "HBlank"}
  CpuOps = {"FF46", "HDMA5", "LCDC"}
  SpeedModes = {"Normal"}
  VisibleLines = 2
  Lines = 3
  LineDots = 26
  HBlankDot = 21
INVARIANTS
  CompletionIsTruthful
  OneBlockPerWindow
PROPERTIES
  StallEnds
  TransfersSettle
