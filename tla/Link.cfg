SPECIFICATION Spec
CONSTANTS
  ByteBits = 2
  MaxPulses = 255
  EdgePeriod <- MCEdgePeriod
  Ports = {1, 4}
  MaxPacket = 3
  ImageCap = 3
  Timeout = 6
  Machines = {1, 2}
  LinkCapable = {1, 2}
  PortOf <- MCNoPort
  Topologies = {"Dmg04"}
  Plugs <- MCLoopPlug
  GameOps <- MCGameOps
  CableBytes = {0, 1, 2}
  PacketInput <- MCPacketInput
  AdapterInput <- MCAdapterInput
  Verdicts <- MCVerdicts
  MaxPages = 1
INVARIANTS
  NoBankedPulse
PROPERTIES
  ByteArrivesWhole
