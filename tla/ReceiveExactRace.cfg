\* Two workers with exact_length
CONSTANTS
  Byte = {0, 1}
  Zero = 0
  SizeMod = 16
  Result <- NoneOrTwo
  Vvcs <- OneAxis
  PacketVvcs <- NoVvcs
  Targets <- AxisTarget
  Worker = {w1, w2}
  NumBytes <- SomeSizes
  ExactLength = {TRUE}
  MaxReceived = 3
SPECIFICATION Spec
PROPERTIES ExactLengthHonoured
