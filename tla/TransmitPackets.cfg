\* One packet VVC; packets shorter than, as long as and longer than a command
CONSTANTS
  Byte = {0, 1}
  Zero = 0
  Vvcs <- FramedVvcs
  PacketVvcs <- FramedPackets
  Targets <- FramedTargets
  Data <- UpToThree
  AxisCmdMax = 1
  UartCmdMax = 1
  MaxCmdBytes = 2
  MaxAccepted = 3
SPECIFICATION FairSpec
INVARIANTS TypeOK PacketsInOrder GetFindsData CommandQueueBounded FramingLostOnlyIfTooLong
PROPERTIES PacketsGoOut
