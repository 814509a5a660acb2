\* Two workers, a byte VVC and a packet VVC; requests with exact_length alone
CONSTANTS
  Byte = {0, 1}
  Zero = 0
  SizeMod = 16
  Result <- NoneOrTwo
  Vvcs <- MixedVvcs
  PacketVvcs <- FramedPackets
  Targets <- MixedTargets
  Worker = {w1, w2}
  NumBytes <- AllSizes
  ExactLength = {TRUE, FALSE}
  MaxReceived = 2
SPECIFICATION AgreedSpec
INVARIANTS TypeOK BytesConserved PacketsConserved
PROPERTIES ExactLengthHonoured ReceivesAtomically ImplementsStream RequestsReturn
