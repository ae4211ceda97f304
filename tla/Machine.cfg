SPECIFICATION FairSpec
CONSTANTS
  Sources = {"LcdStat", "Timer", "Joypad"}
  Buttons = {"A"}
  Rows = {"actions"}
  ButtonRow <- MCButtonRow
  ButtonLine <- MCButtonLine
  LastT = 1
  Opcodes = {"NOP", "EI", "DI", "HALT", "STOP", "STORE", "RETI", "INVALID"}
  BusTargets = {"IF", "IE", "HDMA5", "PPU", "P1", "KEY1"}
  IfValues = {{}}
  IeValues = {{}, {"LcdStat", "Timer"}, {"Joypad"}}
  P1Values = {{}, {"actions"}}
  Masks = {{}, {"A"}}
  MaxStall = 1
  PauseT = 2
  WindowLen = 1
  WindowKinds = {"halt_only"}
INVARIANTS
  MachineInv
PROPERTIES
  LatchSpec
  HaltWakes
  StopWakes
