\* Two byte VVCs, commands of two bytes at most, the simulation running
CONSTANTS
  Byte = {0, 1}
  Zero = 0
  Vvcs <- ByteVvcs
  PacketVvcs <- NoVvcs
  Targets <- ByteTargets
  Data <- Short
  AxisCmdMax = 1
  UartCmdMax = 2
  MaxCmdBytes = 2
  MaxAccepted = 3
SPECIFICATION FairSpec
INVARIANTS BytesInOrder GetFindsData CommandQueueBounded
PROPERTY DeliversEverything
