\* A VVC the library does not support, fairness as in TransmitBytes
CONSTANTS
  Byte = {0, 1}
  Zero = 0
  Vvcs <- UnsupportedVvcs
  PacketVvcs <- NoVvcs
  Targets <- UnsupportedTargets
  Data <- Short
  AxisCmdMax = 1
  UartCmdMax = 1
  MaxCmdBytes = 1
  MaxAccepted = 1
SPECIFICATION FairSpec
PROPERTIES QueuedIsTransmitted
