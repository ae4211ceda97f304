SPECIFICATION Spec
CONSTANTS
  ByteBits = 1
  MaxPulses = 255
  EdgePeriod <- MCFastEdge
  Ports = {1, 4}
  MaxPacket = 3
  ImageCap = 2
  Timeout = 4
  Machines = {1, 2}
  LinkCapable = {1, 2}
  PortOf <- MCNoPort
  Topologies = {"Dmg07"}
  Plugs <- MCPrinterPlug
  GameOps <- MCGameOps
  CableBytes = {0}
  PacketInput <- MCPacketInput
  AdapterInput <- MCAdapterInput
  Verdicts <- MCVerdicts
  MaxPages = 1
INVARIANTS
  RebroadcastsLastPacket
  ReplyInOrder
