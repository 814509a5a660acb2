--------------------------- MODULE TransmitPathMC ---------------------------
(***************************************************************************)
(* Small testbenches and payloads for model checking TransmitPath.         *)
(***************************************************************************)
EXTENDS TransmitPath

Target(type, id) == [type |-> type, id |-> id]
Vvc(type, channel, id) == [type |-> type, channel |-> channel, id |-> id]

Uart == Target("UART_VVC", 0)
Axis == Target("AXISTREAM_VVC", 0)
Packets == Target("AXISTREAM_VVC", 1)
Clock == Target("CLOCK_GENERATOR_VVC", 0)
Absent == Target("UART_VVC", 7)

UartTx == Vvc("UART_VVC", "TX", 0)
UartRx == Vvc("UART_VVC", "RX", 0)
AxisVvc == Vvc("AXISTREAM_VVC", "NA", 0)
PacketVvc == Vvc("AXISTREAM_VVC", "NA", 1)
ClockVvc == Vvc("CLOCK_GENERATOR_VVC", "NA", 0)

\* A UART, and an AXI-Stream VVC that is not packet-based
ByteVvcs == {UartTx, AxisVvc}
ByteTargets == {Uart, Axis}

\* A packet-based AXI-Stream VVC, the receiver of a UART, an absent VVC
FramedVvcs == {PacketVvc, UartRx}
FramedTargets == {Packets, Uart, Absent}
FramedPackets == {PacketVvc}

\* A served VVC and one the library does not support
UnsupportedVvcs == {UartTx, ClockVvc}
UnsupportedTargets == {Uart, Clock}
NoVvcs == {}

Short == {<<>>, <<0>>, <<1, 0>>}
UpToThree == {<<>>, <<1>>, <<0, 1>>, <<1, 0, 0>>}
=============================================================================
